--------------------------- MODULE SSHKeyManager ---------------------------
(***************************************************************************)
(* The list of public keys that may log in (tcpip/SSHKeyManager.{h,cpp}),  *)
(* which lives in RAM, and its copy in the key-value store, one object per *)
(* slot.  Keys are changed in RAM; a commit writes the slots one after the *)
(* other and can be cut off by a restart, or fail to write one of them.    *)
(***************************************************************************)
EXTENDS Naturals, FiniteSetsExt, MicroKVS

CONSTANTS
  MaxKeys,   \* MAX_SSH_KEYS
  PublicKey, \* keys of users
  Nickname,  \* their descriptions
  NoKey,     \* m_pubkey all zero
  Blank      \* the empty nickname

KeySlot == 1 .. MaxKeys
AuthorizedKey == [pubkey : PublicKey \cup {NoKey}, nickname : Nickname \cup {Blank}]

ASSUME KeysAssumption ==
  /\ MaxKeys \in Nat \ {0}
  /\ NoKey \notin PublicKey /\ Blank \notin Nickname
  /\ Absent \notin AuthorizedKey

Empty == [pubkey |-> NoKey, nickname |-> Blank]

VARIABLES
  keys,      \* m_authorizedKeys
  keyStore,  \* the objects of the store
  slotNext,  \* slot CommitToKVS() comes to next; 0: it does not run
  committed, \* the store was written without error and RAM is as it was then
  torn       \* a commit was cut off, or had an error, some time

keyVars == <<keys, keyStore, slotNext, committed, torn>>

(* LoadFromKVS(); a slot without an object is empty.                       *)
LoadFromKVS ==
  [i \in KeySlot |-> ReadObject(keyStore[i], Empty)]

KeysInit ==
  /\ keyStore = [i \in KeySlot |-> Absent]
  /\ keys = [i \in KeySlot |-> Empty]
  /\ slotNext = 0 /\ committed = FALSE /\ torn = FALSE

Change(k) ==
  /\ slotNext = 0 /\ keys' = k
  /\ committed' = FALSE /\ UNCHANGED <<keyStore, slotNext, torn>>

Free == {i \in KeySlot : keys[i].nickname = Blank}
FirstFree == IF Free = {} THEN 0 ELSE Min(Free)

\* Variant: the search ends at the first free slot.
Known_BeforeFree(key) ==
  {i \in KeySlot : keys[i].pubkey = key /\ (Free = {} \/ i < FirstFree)}
(* Slots that hold the key.  The first slot without a nickname is not      *)
(* looked at, the others are.                                              *)
Known(key) == {i \in KeySlot : keys[i].pubkey = key /\ i # FirstFree}

(* AddPublicKey() with a blob that decodes to a key of the right type; any *)
(* other blob is refused at once.  The nickname may be blank.              *)
AddPublicKey(key, desc) ==
  \/ /\ Known(key) # {}
     /\ Change([keys EXCEPT ![Min(Known(key))].nickname = desc])
  \/ /\ Known(key) = {} /\ Free # {}
     /\ Change([keys EXCEPT ![FirstFree] = [pubkey |-> key, nickname |-> desc]])

RemovePublicKey(i) == Change([keys EXCEPT ![i] = Empty])

(* CommitToKVS() begins.                                                   *)
StartCommit ==
  /\ slotNext = 0 /\ slotNext' = 1 /\ committed' = TRUE
  /\ UNCHANGED <<keys, keyStore, torn>>

\* Variant: slots that are not in use are left alone.
StoreSlot_UsedOnly(old, new) == new # Empty /\ old # new
(* Is it necessary to store?  Not where a slot that is not in use never    *)
(* was.                                                                    *)
StoreSlot(old, new) == Necessary(old, new, Empty)

(* One slot: without a nickname it is cleared; the store may fail, and then*)
(* the commit goes on with the next slot all the same.                     *)
CommitSlot ==
  LET i == slotNext
      entry == IF keys[i].nickname = Blank THEN Empty ELSE keys[i] IN
  /\ i # 0
  /\ keys' = [keys EXCEPT ![i] = entry]
  /\ \/ /\ keyStore' = IF StoreSlot(keyStore[i], entry)
                       THEN [keyStore EXCEPT ![i] = entry] ELSE keyStore
        /\ UNCHANGED <<committed, torn>>
     \/ /\ StoreSlot(keyStore[i], entry)
        /\ committed' = FALSE /\ torn' = TRUE /\ UNCHANGED keyStore
  /\ slotNext' = IF i = MaxKeys THEN 0 ELSE i + 1

(* A reset or a power loss, at any time, then LoadFromKVS().               *)
RestartKeys ==
  /\ keys' = LoadFromKVS
  /\ slotNext' = 0
  /\ committed' = (committed /\ slotNext = 0)
  /\ torn' = (torn \/ slotNext # 0)
  /\ UNCHANGED keyStore

(* The command line's RemoveFlashKey() with the object of a slot.          *)
RemoveFlashKey(i) ==
  /\ slotNext = 0 /\ keyStore[i] # Absent
  /\ keyStore' = [keyStore EXCEPT ![i] = Absent]
  /\ committed' = FALSE /\ UNCHANGED <<keys, slotNext, torn>>

KeysNext ==
  \/ \E key \in PublicKey, desc \in Nickname \cup {Blank} : AddPublicKey(key, desc)
  \/ \E i \in KeySlot : RemovePublicKey(i) \/ RemoveFlashKey(i)
  \/ StartCommit \/ CommitSlot \/ RestartKeys

KeysSpec == KeysInit /\ [][KeysNext]_keyVars

-----------------------------------------------------------------------------
(* Properties.                                                             *)

(* FindKey(), which CanUseKey() asks, by what it finds.                    *)
CanUseKey(key) == \E i \in KeySlot : keys[i].pubkey = key

(* After a commit without errors a restart changes nothing: a key that was *)
(* removed or has lost its nickname does not come back from an old object, *)
(* and a key that may log in still may.                                    *)
CommittedSurvives ==
  committed /\ slotNext = 0 => LoadFromKVS = keys

(* Removing a slot locks the key out: no other slot holds it.  Only a      *)
(* commit that was cut off or failed can leave a key in two slots.         *)
RemovalLocksOut ==
  [][\A i \in KeySlot, key \in PublicKey :
       keys[i].pubkey = key /\ RemovePublicKey(i) => torn \/ ~CanUseKey(key)']_keyVars

=============================================================================
