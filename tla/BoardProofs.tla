----------------------------- MODULE BoardProofs -----------------------------
(***************************************************************************)
(* Proofs about the small parts of a board: the keys and settings and      *)
(* their copies in the store, the registers of the PHY, the poll of the    *)
(* link, the I/O expander, the table of IPC channels, the command that     *)
(* sets the address.  They share no state, so each part has its invariant  *)
(* and its theorems to itself.                                             *)
(***************************************************************************)
EXTENDS SSHKeyManager, STM32NTPClient, VSC8512, PhyPollTask, TCA6424A, IPCTable,
        CommonCommands, FiniteSetTheorems, SequenceTheorems, WellFoundedInduction,
        TLAPS

-----------------------------------------------------------------------------
(* A set of numbers that is not empty has a least element, which Min finds.*)
LEMMA LeastNumber ==
  ASSUME NEW S, S \subseteq Nat, S # {}
  PROVE  Min(S) \in S /\ \A n \in S : Min(S) <= n
<1> DEFINE Less == {p \in Nat \X Nat : p[1] < p[2]}
<1>1. IsWellFoundedOn(Less, Nat)
  BY NatLessThanWellFounded, Zenon DEF OpToRel
<1>2. PICK m \in S : \A n \in S : <<n, m>> \notin Less
  <2> HIDE DEF Less
  <2> QED
    BY <1>1, WFMin
<1>3. ASSUME NEW n \in S PROVE m <= n
  <2>1. <<n, m>> \in Nat \X Nat
    OBVIOUS
  <2>2. ~ (<<n, m>>[1] < <<n, m>>[2])
    BY <1>2, <2>1, Zenon
  <2> QED
    BY <2>2
<1> QED
  BY <1>2, <1>3 DEF Min

(* What holds of the first of some numbers and passes from one to the next *)
(* holds of them all.                                                      *)
LEMMA Induction ==
  ASSUME NEW a \in Nat, NEW n \in Nat, NEW S, a \in S,
         \A i \in a .. n : i # a /\ i - 1 \in S => i \in S
  PROVE  a .. n \subseteq S
<1> SUFFICES ASSUME a .. n \ S # {} PROVE FALSE
  OBVIOUS
<1> DEFINE Left == a .. n \ S
<1>1. PICK m \in Left : \A i \in Left : m <= i
  <2>1. Left \subseteq Nat /\ Left # {}
    OBVIOUS
  <2> HIDE DEF Left
  <2> QED
    BY <2>1, LeastNumber
<1>2. m \in a .. n /\ m # a /\ m - 1 \in a .. n /\ m - 1 \in S
  BY <1>1
<1> QED
  BY <1>1, <1>2

-----------------------------------------------------------------------------
(* The list of keys.                                                       *)

(* No key is in two slots.                                                 *)
Unique(table) ==
  \A i, j \in KeySlot :
    table[i].pubkey = table[j].pubkey /\ table[i].pubkey # NoKey => i = j

(* Slots a commit that runs has come past; all if none runs.               *)
Past(i) == slotNext = 0 \/ i < slotNext

KeysTypeOK ==
  /\ keys \in [KeySlot -> AuthorizedKey]
  /\ keyStore \in [KeySlot -> AuthorizedKey \cup {Absent}]
  /\ slotNext \in 0 .. MaxKeys
  /\ committed \in BOOLEAN /\ torn \in BOOLEAN

(* A commit leaves behind it what RAM holds, and goes on as long as it     *)
(* makes no error.  Until a commit is torn no key is in two slots of RAM,  *)
(* and the store holds a table of which the same is true, or between two   *)
(* slots of a commit the part of the present one it has come past.         *)
KeysInv ==
  /\ KeysTypeOK
  /\ committed => \A i \in KeySlot : Past(i) => LoadFromKVS[i] = keys[i]
  /\ ~torn => /\ Unique(keys)
              /\ slotNext = 0 => Unique(LoadFromKVS)
              /\ slotNext # 0 =>
                   \A i \in KeySlot : i < slotNext => LoadFromKVS[i] = keys[i]

LEMMA KeysInitInv == KeysInit => KeysInv
<1> SUFFICES ASSUME KeysInit PROVE KeysInv
  OBVIOUS
<1> USE KeysAssumption DEF KeysInit
<1>1. Empty \in AuthorizedKey
  BY DEF Empty, AuthorizedKey
<1>2. LoadFromKVS = keys
  BY DEF LoadFromKVS, ReadObject
<1>3. Unique(keys)
  BY DEF Unique, Empty
<1>4. committed \in BOOLEAN /\ torn \in BOOLEAN
  BY Zenon
<1> QED
  BY <1>1, <1>2, <1>3, <1>4 DEF KeysInv, KeysTypeOK, KeySlot, Unique

(* What may be in a slot of the table is never taken for a missing object. *)
LEMMA StoredIsLoaded ==
  ASSUME NEW old, NEW new \in AuthorizedKey
  PROVE  ReadObject(IF StoreSlot(old, new) THEN new ELSE old, Empty) = new
BY KeysAssumption DEF StoreSlot, Necessary, ReadObject

(* The first free slot is one of the slots without a nickname.             *)
LEMMA FirstFreeIsFree ==
  ASSUME Free # {}
  PROVE  FirstFree \in Free /\ FirstFree \in KeySlot
<1>1. Free \subseteq KeySlot /\ KeySlot \subseteq Nat
  BY DEF Free, KeySlot
<1> QED
  BY <1>1, LeastNumber DEF FirstFree

(* Adding a key leaves every other one where it is, and itself once.       *)
LEMMA AddKeepsInv ==
  ASSUME KeysInv, NEW key \in PublicKey, NEW desc \in Nickname \cup {Blank},
         AddPublicKey(key, desc)
  PROVE  KeysInv'
<1> USE DEF KeysInv, KeysTypeOK
<1>1. PICK k : Change(k) /\ k \in [KeySlot -> AuthorizedKey] /\ (Unique(keys) => Unique(k))
  <2>1. CASE Known(key) # {}
    <3> DEFINE i == Min(Known(key))
               k == [keys EXCEPT ![i].nickname = desc]
    <3>1. i \in KeySlot
      <4>1. Known(key) \subseteq KeySlot /\ KeySlot \subseteq Nat
        BY DEF Known, KeySlot
      <4> QED
        BY <2>1, <4>1, LeastNumber
    <3>2. k \in [KeySlot -> AuthorizedKey]
      BY <3>1 DEF AuthorizedKey
    <3>3. \A j \in KeySlot : k[j].pubkey = keys[j].pubkey
      BY <3>1 DEF AuthorizedKey
    <3>4. Change(k)
      BY <2>1 DEF AddPublicKey
    <3>5. Unique(keys) => Unique(k)
      BY <3>3 DEF Unique
    <3> QED
      BY <3>2, <3>4, <3>5
  <2>2. CASE Known(key) = {} /\ Free # {}
    <3> DEFINE k == [keys EXCEPT ![FirstFree] = [pubkey |-> key, nickname |-> desc]]
    <3>1. FirstFree \in KeySlot
      BY <2>2, FirstFreeIsFree
    <3>2. k \in [KeySlot -> AuthorizedKey]
      BY <3>1 DEF AuthorizedKey
    <3>3. Unique(keys) => Unique(k)
      <4>1. \A j \in KeySlot : j # FirstFree => keys[j].pubkey # key /\ k[j] = keys[j]
        BY <2>2, <3>1 DEF Known
      <4>2. k[FirstFree].pubkey = key
        BY <3>1
      <4> QED
        BY <4>1, <4>2 DEF Unique
    <3>4. Change(k)
      BY <2>2 DEF AddPublicKey
    <3> QED
      BY <3>2, <3>3, <3>4
  <2> QED
    BY <2>1, <2>2 DEF AddPublicKey
<1>2. LoadFromKVS' = LoadFromKVS
  BY <1>1 DEF Change, LoadFromKVS
<1> QED
  BY <1>1, <1>2 DEF Change, Unique

(* One slot of a commit.                                                   *)
LEMMA CommitSlotKeepsInv ==
  ASSUME KeysInv, CommitSlot
  PROVE  KeysInv'
<1> DEFINE i == slotNext
           entry == IF keys[i].nickname = Blank THEN Empty ELSE keys[i]
<1> USE KeysAssumption
<1>1. i \in KeySlot /\ i # 0 /\ slotNext' = IF i = MaxKeys THEN 0 ELSE i + 1
  BY DEF CommitSlot, KeysInv, KeysTypeOK, KeySlot
<1>2. entry \in AuthorizedKey /\ (entry = keys[i] \/ entry.pubkey = NoKey)
  BY <1>1 DEF KeysInv, KeysTypeOK, AuthorizedKey, Empty
<1>3. keys' = [keys EXCEPT ![i] = entry]
  BY DEF CommitSlot
<1>4. \/ /\ keyStore' = [keyStore EXCEPT ![i] = IF StoreSlot(@, entry) THEN entry ELSE @]
         /\ committed' = committed /\ torn' = torn
      \/ committed' = FALSE /\ torn' = TRUE /\ keyStore' = keyStore
  BY <1>1 DEF CommitSlot, KeysInv, KeysTypeOK
<1>5. KeysTypeOK'
  <2>1. keys' \in [KeySlot -> AuthorizedKey]
    BY <1>1, <1>2, <1>3 DEF KeysInv, KeysTypeOK
  <2>2. keyStore' \in [KeySlot -> AuthorizedKey \cup {Absent}]
    BY <1>1, <1>2, <1>4 DEF KeysInv, KeysTypeOK
  <2>3. slotNext' \in 0 .. MaxKeys
    BY <1>1 DEF KeySlot
  <2>4. committed' \in BOOLEAN /\ torn' \in BOOLEAN
    BY <1>4, Zenon DEF KeysInv, KeysTypeOK
  <2> QED
    BY <2>1, <2>2, <2>3, <2>4 DEF KeysTypeOK
<1>6. Unique(keys) => Unique(keys')
  BY <1>1, <1>2, <1>3 DEF Unique, KeysInv, KeysTypeOK
<1>7. \A j \in KeySlot :
        /\ j < i => Past(j)
        /\ Past(j)' => j < i \/ j = i
  BY <1>1 DEF Past, KeySlot
<1>8. CASE /\ keyStore' = [keyStore EXCEPT ![i] = IF StoreSlot(@, entry) THEN entry ELSE @]
           /\ committed' = committed /\ torn' = torn
  <2>1. LoadFromKVS'[i] = keys'[i]
    <3>1. keyStore'[i] = IF StoreSlot(keyStore[i], entry) THEN entry ELSE keyStore[i]
      BY <1>1, <1>8 DEF KeysInv, KeysTypeOK
    <3>2. LoadFromKVS'[i] = ReadObject(keyStore'[i], Empty)
      BY <1>1 DEF LoadFromKVS
    <3>3. keys'[i] = entry
      BY <1>1, <1>3 DEF KeysInv, KeysTypeOK
    <3> QED
      BY <1>2, <3>1, <3>2, <3>3, StoredIsLoaded
  <2>2. \A j \in KeySlot : j # i => LoadFromKVS'[j] = LoadFromKVS[j] /\ keys'[j] = keys[j]
    BY <1>1, <1>3, <1>8 DEF LoadFromKVS, KeysInv, KeysTypeOK
  <2>3. committed' => \A j \in KeySlot : Past(j)' => LoadFromKVS'[j] = keys'[j]
    BY <1>1, <1>7, <1>8, <2>1, <2>2 DEF KeysInv
  <2>4. ~torn' => \A j \in KeySlot : j < i \/ j = i => LoadFromKVS'[j] = keys'[j]
    BY <1>1, <1>8, <2>1, <2>2 DEF KeysInv
  <2>5. ~torn' /\ slotNext' = 0 => Unique(LoadFromKVS')
    <3>1. slotNext' = 0 => \A j \in KeySlot : j < i \/ j = i
      BY <1>1 DEF KeySlot
    <3> QED
      BY <1>6, <1>8, <2>4, <3>1 DEF Unique, KeysInv
  <2>6. ~torn' /\ slotNext' # 0 =>
          \A j \in KeySlot : j < slotNext' => LoadFromKVS'[j] = keys'[j]
    BY <1>1, <2>4 DEF KeySlot
  <2> QED
    BY <1>5, <1>6, <1>8, <2>3, <2>5, <2>6 DEF KeysInv, Unique
<1>9. CASE committed' = FALSE /\ torn' = TRUE
  BY <1>5, <1>9 DEF KeysInv
<1> QED
  BY <1>4, <1>8, <1>9

LEMMA KeysNextInv ==
  ASSUME KeysInv, [KeysNext]_keyVars
  PROVE  KeysInv'
<1> USE KeysAssumption DEF KeysInv, KeysTypeOK
<1>0. Empty \in AuthorizedKey
  BY DEF Empty, AuthorizedKey
<1>1. ASSUME NEW i \in KeySlot, RemovePublicKey(i) PROVE KeysInv'
  <2>1. LoadFromKVS' = LoadFromKVS
    BY <1>1 DEF RemovePublicKey, Change, LoadFromKVS
  <2>2. Unique(keys) => Unique(keys')
    BY <1>0, <1>1 DEF RemovePublicKey, Change, Unique, Empty
  <2> QED
    BY <1>0, <1>1, <2>1, <2>2 DEF RemovePublicKey, Change, Unique
<1>2. ASSUME NEW i \in KeySlot, RemoveFlashKey(i) PROVE KeysInv'
  <2>1. Unique(LoadFromKVS) => Unique(LoadFromKVS')
    BY <1>2 DEF RemoveFlashKey, LoadFromKVS, ReadObject, Unique, Empty
  <2> QED
    BY <1>2, <2>1 DEF RemoveFlashKey, Unique
<1>3. CASE StartCommit
  <2>1. LoadFromKVS' = LoadFromKVS /\ keys' = keys
    BY <1>3 DEF StartCommit, LoadFromKVS
  <2>2. \A i \in KeySlot : ~Past(i)' /\ ~(i < slotNext')
    BY <1>3 DEF StartCommit, Past, KeySlot
  <2> QED
    BY <1>3, <2>1, <2>2 DEF StartCommit, Unique
<1>4. CASE RestartKeys
  <2>1. /\ keys' = LoadFromKVS /\ LoadFromKVS' = LoadFromKVS
        /\ slotNext' = 0 /\ UNCHANGED keyStore
    BY <1>4 DEF RestartKeys, LoadFromKVS
  <2>2. LoadFromKVS \in [KeySlot -> AuthorizedKey]
    BY <1>0 DEF LoadFromKVS, ReadObject
  <2>3. committed' \in BOOLEAN /\ torn' \in BOOLEAN
    BY <1>4, Zenon DEF RestartKeys
  <2>4. ~torn' => ~torn /\ slotNext = 0
    BY <1>4 DEF RestartKeys
  <2> QED
    BY <2>1, <2>2, <2>3, <2>4 DEF Unique
<1>5. CASE UNCHANGED keyVars
  <2>1. LoadFromKVS' = LoadFromKVS
    BY <1>5 DEF keyVars, LoadFromKVS
  <2> QED
    BY <1>5, <2>1 DEF keyVars, Unique, Past
<1> QED
  BY <1>1, <1>2, <1>3, <1>4, <1>5, AddKeepsInv, CommitSlotKeepsInv DEF KeysNext

THEOREM KeysInvariance == KeysSpec => []KeysInv
BY KeysInitInv, KeysNextInv, PTL DEF KeysSpec

(* After a commit without errors a restart changes nothing                 *)
(* (CommittedSurvives): an object that a slot has lost does not come back, *)
(* and one it has is there.                                                *)
THEOREM CommittedTableSurvives == KeysSpec => []CommittedSurvives
<1>1. KeysInv => CommittedSurvives
  <2> SUFFICES ASSUME KeysInv, committed, slotNext = 0 PROVE LoadFromKVS = keys
    BY DEF CommittedSurvives
  <2>1. \A i \in KeySlot : LoadFromKVS[i] = keys[i]
    BY DEF KeysInv, Past
  <2> QED
    BY <2>1 DEF KeysInv, KeysTypeOK, LoadFromKVS
<1> QED
  BY KeysInvariance, <1>1, PTL

(* Removing a slot locks its key out (RemovalLocksOut), unless a commit was*)
(* cut off or failed some time before.                                     *)
THEOREM RemovedIsOut == KeysSpec => RemovalLocksOut
<1>1. ASSUME KeysInv, NEW i \in KeySlot, NEW key \in PublicKey,
             keys[i].pubkey = key, RemovePublicKey(i), ~torn
      PROVE  ~CanUseKey(key)'
  <2>1. \A j \in KeySlot : keys'[j] = IF j = i THEN Empty ELSE keys[j]
    BY <1>1 DEF RemovePublicKey, Change, KeysInv, KeysTypeOK
  <2> QED
    BY <1>1, <2>1, KeysAssumption DEF CanUseKey, KeysInv, Unique, Empty
<1>2. KeysInv => [\A i \in KeySlot, key \in PublicKey :
         keys[i].pubkey = key /\ RemovePublicKey(i) => torn \/ ~CanUseKey(key)']_keyVars
  BY <1>1
<1> QED
  BY KeysInvariance, <1>2, PTL DEF RemovalLocksOut, KeysSpec

-----------------------------------------------------------------------------
(* The settings of the NTP client.                                         *)

Field == DOMAIN LoadDefault

NtpTypeOK ==
  /\ ntp \in Settings
  /\ ntpStore \in [Field -> BOOLEAN \cup Address \cup Offset \cup {Absent}]
  /\ ntpStore.enable \in BOOLEAN \cup {Absent}
  /\ ntpStore.server \in Address \cup {Absent}
  /\ ntpStore.tzoffset \in Offset \cup {Absent}
  /\ objectNext \in 0 .. 3 /\ saved \in BOOLEAN

(* The fields in the order of saving; those SaveConfigToKVS() has come past*)
(* are saved, or all if it does not run.                                   *)
Position(f) == CASE f = "enable" -> 1 [] f = "server" -> 2 [] f = "tzoffset" -> 3
Behind(f) == objectNext = 0 \/ Position(f) < objectNext

(* What has been saved is in the store, or is the default of loading: but  *)
(* for the enable flag, of which the store may know nothing.               *)
NtpInv ==
  /\ NtpTypeOK
  /\ saved /\ Behind("enable") => ntpStore.enable \in {Absent, ntp.enable}
  /\ saved => \A f \in {"server", "tzoffset"} :
                Behind(f) => ReadObject(ntpStore[f], LoadDefault[f]) = ntp[f]

LEMMA FieldNames == Field = {"enable", "server", "tzoffset"}
BY DEF Field, LoadDefault

LEMMA NtpInitInv == NtpInit => NtpInv
<1> SUFFICES ASSUME NtpInit PROVE NtpInv
  OBVIOUS
<1>1. saved \in BOOLEAN /\ ~saved
  BY Zenon DEF NtpInit
<1>2. ntp \in Settings
  BY NtpAssumption DEF NtpInit, LoadDefault, Settings
<1>3. ntpStore = [f \in Field |-> Absent]
  BY DEF NtpInit, Field
<1> QED
  BY <1>1, <1>2, <1>3, FieldNames DEF NtpInit, NtpInv, NtpTypeOK

(* What a restart loads, object by object.                                 *)
Loaded(f) == ReadObject(ntpStore[f], LoadDefault[f])

LEMMA LoadedSettings ==
  LoadConfigFromKVS = [enable |-> Loaded("enable"), server |-> Loaded("server"),
                       tzoffset |-> Loaded("tzoffset")]
<1> DEFINE r == [enable |-> Loaded("enable"), server |-> Loaded("server"),
                 tzoffset |-> Loaded("tzoffset")]
<1>1. LoadConfigFromKVS = [f \in {"enable", "server", "tzoffset"} |-> Loaded(f)]
  BY FieldNames DEF LoadConfigFromKVS, Field, Loaded
<1>2. r = [f \in {"enable", "server", "tzoffset"} |-> r[f]]
  OBVIOUS
<1>3. /\ r["enable"] = Loaded("enable") /\ r["server"] = Loaded("server")
      /\ r["tzoffset"] = Loaded("tzoffset")
  OBVIOUS
<1> HIDE DEF r
<1>4. \A f \in {"enable", "server", "tzoffset"} : r[f] = Loaded(f)
  BY <1>3
<1>5. LoadConfigFromKVS = r
  BY <1>1, <1>2, <1>4, Zenon
<1> QED
  BY <1>5 DEF r

(* The object SaveConfigToKVS() comes to, and what it leaves behind it.    *)
LEMMA SaveOrder ==
  ASSUME NEW n \in 1 .. 3
  PROVE  /\ Objects[n] \in Field /\ Position(Objects[n]) = n
         /\ (n + 1) % 4 \in 0 .. 3
         /\ \A f \in Field : /\ Position(f) \in 1 .. 3
                             /\ Position(f) = n => f = Objects[n]
                             /\ (n + 1) % 4 = 0 \/ Position(f) < (n + 1) % 4
                                  => Position(f) < n \/ Position(f) = n
<1>1. CASE n = 1
  BY <1>1, FieldNames DEF Objects, Position
<1>2. CASE n = 2
  BY <1>2, FieldNames DEF Objects, Position
<1>3. CASE n = 3
  BY <1>3, FieldNames DEF Objects, Position
<1> QED
  BY <1>1, <1>2, <1>3

LEMMA SettingsFields ==
  ASSUME NEW s \in Settings
  PROVE  /\ s.enable \in BOOLEAN /\ s["enable"] = s.enable
         /\ s.server \in Address /\ s["server"] = s.server
         /\ s.tzoffset \in Offset /\ s["tzoffset"] = s.tzoffset
BY DEF Settings

(* An object once handled reads as the setting it is of: but for the flag  *)
(* that no object says is off.                                             *)
LEMMA SaveObjectKeepsInv ==
  ASSUME NtpInv, SaveObject
  PROVE  NtpInv'
<1> DEFINE f == Objects[objectNext]
<1> USE NtpAssumption
<1>1. /\ objectNext \in 1 .. 3 /\ f \in Field /\ Position(f) = objectNext
      /\ objectNext' \in 0 .. 3
      /\ \A g \in Field : Behind(g)' => Behind(g) \/ g = f
  <2>1. objectNext \in 1 .. 3 /\ objectNext' = (objectNext + 1) % 4
    BY DEF NtpInv, NtpTypeOK, SaveObject
  <2> QED
    BY <2>1, SaveOrder DEF Behind
<1>2. ntp' = ntp
  BY DEF SaveObject
<1>3. /\ ntp[f] \in BOOLEAN \cup Address \cup Offset
      /\ f = "enable" => ntp[f] \in BOOLEAN
      /\ f = "server" => ntp[f] \in Address
      /\ f = "tzoffset" => ntp[f] \in Offset
  BY <1>1, FieldNames, SettingsFields DEF NtpInv, NtpTypeOK
<1>4. \/ saved' = FALSE /\ ntpStore' = ntpStore
      \/ saved' = saved /\ StoreNecessary(f) /\ ntpStore' = [ntpStore EXCEPT ![f] = ntp[f]]
      \/ saved' = saved /\ ~StoreNecessary(f) /\ ntpStore' = ntpStore
  BY DEF SaveObject
<1>5. NtpTypeOK'
  <2>1. saved' \in BOOLEAN
    BY <1>4, Zenon DEF NtpInv, NtpTypeOK
  <2>2. ntpStore' \in [Field -> BOOLEAN \cup Address \cup Offset \cup {Absent}]
    BY <1>3, <1>4 DEF NtpInv, NtpTypeOK
  <2>3. /\ ntpStore'.enable \in BOOLEAN \cup {Absent}
        /\ ntpStore'.server \in Address \cup {Absent}
        /\ ntpStore'.tzoffset \in Offset \cup {Absent}
    BY <1>1, <1>3, <1>4, FieldNames DEF NtpInv, NtpTypeOK
  <2> QED
    BY <1>1, <1>2, <2>1, <2>2, <2>3 DEF NtpInv, NtpTypeOK
<1>6. \A g \in Field : g # f => ntpStore'[g] = ntpStore[g]
  BY <1>4 DEF NtpInv, NtpTypeOK
<1>7. saved' => ntpStore'[f] = ntp[f] \/ (ntpStore'[f] = Absent /\ ntp[f] = SaveDefault[f])
  BY <1>1, <1>4 DEF NtpInv, NtpTypeOK, StoreNecessary, Necessary
<1>8. saved' => saved
  BY <1>4
<1>9. saved' /\ Behind("enable")' => ntpStore'.enable \in {Absent, ntp.enable}
  <2>1. ntpStore'.enable = ntpStore'["enable"] /\ ntpStore.enable = ntpStore["enable"]
    OBVIOUS
  <2> QED
    BY <1>1, <1>6, <1>7, <1>8, <2>1, FieldNames DEF NtpInv
<1>10. ASSUME saved', NEW g \in {"server", "tzoffset"}, Behind(g)'
       PROVE  ReadObject(ntpStore'[g], LoadDefault[g]) = ntp[g]
  <2>1. CASE g = f
    <3>1. SaveDefault[g] = LoadDefault[g]
      BY DEF SaveDefault, LoadDefault
    <3>2. ntp[g] # Absent
      BY SettingsFields DEF NtpInv, NtpTypeOK
    <3> QED
      BY <1>7, <1>10, <2>1, <3>1, <3>2 DEF ReadObject
  <2>2. CASE g # f
    <3>1. Behind(g) /\ g \in Field
      BY <1>1, <1>10, <2>2, FieldNames
    <3> QED
      BY <1>6, <1>8, <1>10, <2>2, <3>1 DEF NtpInv
  <2> QED
    BY <2>1, <2>2
<1> QED
  BY <1>2, <1>5, <1>9, <1>10 DEF NtpInv

LEMMA NtpNextInv ==
  ASSUME NtpInv, [NtpNext]_ntpVars
  PROVE  NtpInv'
<1> USE DEF NtpInv
<1>1. CASE Configure
  BY <1>1 DEF Configure, NtpTypeOK
<1>2. CASE StartSave
  <2>1. ~Behind("enable")' /\ ~Behind("server")' /\ ~Behind("tzoffset")'
    BY <1>2 DEF StartSave, Behind, Position
  <2> QED
    BY <1>2, <2>1 DEF StartSave, NtpTypeOK
<1>3. CASE RestartNtp
  <2>1. LoadConfigFromKVS = [enable |-> Loaded("enable"), server |-> Loaded("server"),
                             tzoffset |-> Loaded("tzoffset")]
    BY LoadedSettings
  <2>2. Loaded("enable") \in BOOLEAN /\ Loaded("server") \in Address /\ Loaded("tzoffset") \in Offset
    BY NtpAssumption DEF NtpTypeOK, Loaded, ReadObject, LoadDefault
  <2>3. ntp' \in Settings
    BY <1>3, <2>1, <2>2 DEF RestartNtp, Settings
  <2>4. saved' \in BOOLEAN
    BY <1>3, Zenon DEF RestartNtp
  <2>5. NtpTypeOK'
    BY <1>3, <2>3, <2>4 DEF RestartNtp, NtpTypeOK
  <2>6. ntpStore'.enable \in {Absent, ntp'.enable}
    BY <1>3, <2>1 DEF RestartNtp, Loaded, ReadObject
  <2>7. \A f \in {"server", "tzoffset"} : ReadObject(ntpStore'[f], LoadDefault[f]) = ntp'[f]
    BY <1>3, <2>1 DEF RestartNtp, Loaded
  <2> QED
    BY <2>5, <2>6, <2>7
<1>4. ASSUME NEW f \in Field, RemoveNtpObject(f) PROVE NtpInv'
  <2>1. ntpStore' = [ntpStore EXCEPT ![f] = Absent] /\ saved' = FALSE
    BY <1>4 DEF RemoveNtpObject
  <2>2. /\ ntpStore' \in [Field -> BOOLEAN \cup Address \cup Offset \cup {Absent}]
        /\ \A g \in Field : ntpStore'[g] \in {Absent, ntpStore[g]}
    BY <1>4, <2>1 DEF NtpTypeOK
  <2>3. NtpTypeOK'
    BY <1>4, <2>1, <2>2, FieldNames DEF RemoveNtpObject, NtpTypeOK
  <2> QED
    BY <2>1, <2>3
<1>5. CASE UNCHANGED ntpVars
  BY <1>5 DEF ntpVars, NtpTypeOK, Behind
<1> QED
  BY <1>1, <1>2, <1>3, <1>4, <1>5, SaveObjectKeepsInv DEF NtpNext, Field
THEOREM NtpInvariance == NtpSpec => []NtpInv
BY NtpInitInv, NtpNextInv, PTL DEF NtpSpec

(* Settings saved without an error survive a restart, but for a client     *)
(* that was switched off with no object that says so                       *)
(* (SavedSurvivesUnlessOff).                                               *)
THEOREM SettingsSurviveUnlessOff == NtpSpec => []SavedSurvivesUnlessOff
<1>1. ASSUME NtpInv, saved, objectNext = 0
      PROVE  LoadConfigFromKVS = IF ntp.enable \/ ntpStore.enable # Absent THEN ntp
                                 ELSE [ntp EXCEPT !.enable = TRUE]
  <2>1. LoadConfigFromKVS = [enable |-> Loaded("enable"), server |-> Loaded("server"),
                             tzoffset |-> Loaded("tzoffset")]
    BY LoadedSettings
  <2>2. Loaded("server") = ntp.server /\ Loaded("tzoffset") = ntp.tzoffset
    BY <1>1 DEF NtpInv, Behind, Loaded
  <2>3. ntpStore.enable \in {Absent, ntp.enable}
    BY <1>1 DEF NtpInv, Behind
  <2>4. Loaded("enable") = IF ntpStore.enable = Absent THEN TRUE ELSE ntp.enable
    BY <2>3 DEF Loaded, ReadObject, LoadDefault
  <2>5. ntp = [enable |-> ntp.enable, server |-> ntp.server, tzoffset |-> ntp.tzoffset]
        /\ ntp.enable \in BOOLEAN
    BY <1>1 DEF NtpInv, NtpTypeOK, Settings
  <2>6. [ntp EXCEPT !.enable = TRUE] =
          [enable |-> TRUE, server |-> ntp.server, tzoffset |-> ntp.tzoffset]
    <3> DEFINE s == [ntp EXCEPT !.enable = TRUE]
    <3>1. /\ s \in Settings /\ s.enable = TRUE
          /\ s.server = ntp.server /\ s.tzoffset = ntp.tzoffset
      BY <1>1 DEF NtpInv, NtpTypeOK, Settings
    <3>2. [enable |-> TRUE, server |-> ntp.server, tzoffset |-> ntp.tzoffset] \in Settings
      BY <1>1 DEF NtpInv, NtpTypeOK, Settings
    <3> HIDE DEF s
    <3>3. s = [enable |-> s.enable, server |-> s.server, tzoffset |-> s.tzoffset]
      BY <3>1 DEF Settings
    <3> QED
      BY <3>1, <3>3 DEF s
  <2>7. CASE ntpStore.enable # Absent
    BY <2>1, <2>2, <2>4, <2>5, <2>7
  <2>8. CASE ntpStore.enable = Absent
    <3>1. LoadConfigFromKVS = [enable |-> TRUE, server |-> ntp.server, tzoffset |-> ntp.tzoffset]
      BY <2>1, <2>2, <2>4, <2>8
    <3>2. ntp.enable => ntp = [enable |-> TRUE, server |-> ntp.server, tzoffset |-> ntp.tzoffset]
      <4> HAVE ntp.enable
      <4>1. ntp.enable = TRUE
        BY <2>5, Zenon
      <4> QED
        BY <2>5, <4>1
    <3> QED
      BY <2>6, <2>8, <3>1, <3>2
  <2> QED
    BY <2>7, <2>8
<1>2. NtpInv => SavedSurvivesUnlessOff
  BY <1>1 DEF SavedSurvivesUnlessOff
<1> QED
  BY NtpInvariance, <1>2, PTL

-----------------------------------------------------------------------------
(* The poll of the link.                                                   *)

(* The latched bit is up only while the link is; then what the poll has    *)
(* read is the present speed, for the link cannot have changed since       *)
(* without the latch going down.                                           *)
LinkInv ==
  /\ link \in [up : BOOLEAN, speed : Speed]
  /\ bctl \in Speed /\ basetLinkSpeed \in Speed
  /\ status \in BOOLEAN /\ polling \in BOOLEAN /\ basetLinkUp \in BOOLEAN
  /\ status => link.up
  /\ status /\ polling => bctl = link.speed
  /\ SpeedIsPresent

LEMMA LinkInitInv == LinkInit => LinkInv
<1> SUFFICES ASSUME LinkInit PROVE LinkInv
  OBVIOUS
<1>1. status \in BOOLEAN /\ polling \in BOOLEAN /\ basetLinkUp \in BOOLEAN
  BY Zenon DEF LinkInit
<1> QED
  BY <1>1, PollAssumption DEF LinkInit, LinkInv, SpeedIsPresent

LEMMA LinkNextInv ==
  ASSUME LinkInv, [LinkNext]_linkVars
  PROVE  LinkInv'
<1> USE DEF LinkInv, SpeedIsPresent
<1>1. ASSUME NEW s \in Speed, LinkComes(s) PROVE LinkInv'
  BY <1>1 DEF LinkComes
<1>2. CASE LinkGoes
  <2>1. status' \in BOOLEAN /\ ~status'
    BY <1>2, Zenon DEF LinkGoes
  <2> QED
    BY <1>2, <2>1 DEF LinkGoes
<1>3. CASE ReadControl
  <2>1. polling' \in BOOLEAN
    BY <1>3, Zenon DEF ReadControl
  <2> QED
    BY <1>3, <2>1 DEF ReadControl
<1>4. CASE ReadStatus
  <2>1. polling' \in BOOLEAN /\ status' \in BOOLEAN /\ basetLinkUp' \in BOOLEAN
    <3>1. link.up \in BOOLEAN
      OBVIOUS
    <3> QED
      BY <1>4, <3>1, Zenon DEF ReadStatus, Published
  <2>2. link' = link /\ status' = link.up /\ bctl' = Slowest /\ ~polling'
    BY <1>4 DEF ReadStatus
  <2>3. /\ basetLinkUp' = status
        /\ basetLinkSpeed' = IF status /\ ~basetLinkUp THEN bctl
                             ELSE IF ~status /\ basetLinkUp THEN Slowest
                             ELSE basetLinkSpeed
    BY <1>4 DEF ReadStatus, Published
  <2>4. polling
    BY <1>4 DEF ReadStatus
  <2> QED
    BY <2>1, <2>2, <2>3, <2>4, PollAssumption
<1>5. CASE UNCHANGED linkVars
  BY <1>5 DEF linkVars
<1> QED
  BY <1>1, <1>2, <1>3, <1>4, <1>5 DEF LinkNext

(* No speed but the present one is published for a link whose latch is up  *)
(* (SpeedIsPresent), whatever the link does between two polls and between  *)
(* the two reads of one.                                                   *)
THEOREM PublishedSpeedIsPresent == LinkSpec => []SpeedIsPresent
<1>1. LinkInv => SpeedIsPresent
  BY DEF LinkInv
<1> QED
  BY LinkInitInv, LinkNextInv, <1>1, PTL DEF LinkSpec

-----------------------------------------------------------------------------
(* The I/O expander.                                                       *)

ExpanderTypeOK ==
  /\ outvals \in [Lines -> BOOLEAN] /\ dirmask \in [Lines -> BOOLEAN]
  /\ outputs \in [Lines -> BOOLEAN] /\ inputs \in [Lines -> BOOLEAN]
  /\ asked \in [Lines -> BOOLEAN] /\ block \in 0 .. Groups

(* What is asked for is what the driver's copy holds.                      *)
ExpanderInv == ExpanderTypeOK /\ asked = outvals /\ LinesAsAsked

LEMMA ExpanderInitInv == ExpanderInit => ExpanderInv
BY ExpanderAssumption
   DEF ExpanderInit, ExpanderInv, ExpanderTypeOK, LinesAsAsked, High

(* A write of a group, if it is not lost, brings each line of the group to *)
(* the copy's value, and no other line to anything.                        *)
LEMMA WriteOfGroup ==
  ASSUME NEW register \in [Lines -> BOOLEAN], NEW copy \in [Lines -> BOOLEAN],
         NEW g, NEW l, NEW ok \in BOOLEAN
  PROVE  /\ Write(register, copy, g, l, ok) \in [Lines -> BOOLEAN]
         /\ \A k \in Lines :
              Write(register, copy, g, l, ok)[k] =
                IF k \in Of(g) /\ ok THEN copy[k] ELSE register[k]
BY DEF Write

LEMMA ExpanderNextInv ==
  ASSUME ExpanderInv, [ExpanderNext]_expanderVars
  PROVE  ExpanderInv'
<1> USE ExpanderAssumption DEF ExpanderInv, ExpanderTypeOK
<1>1. ASSUME NEW l \in Lines, NEW input \in BOOLEAN, SetDirection(l, input)
      PROVE  ExpanderInv'
  <2>1. PICK ok \in BOOLEAN :
          /\ inputs' = Write(inputs, dirmask', l[1], l, ok)
          /\ astray' = IF ok THEN astray \ Of(l[1]) ELSE astray \cup {l}
    BY <1>1 DEF SetDirection
  <2>2. /\ dirmask' \in [Lines -> BOOLEAN] /\ dirmask' = [dirmask EXCEPT ![l] = input]
        /\ UNCHANGED <<outvals, outputs, block, asked, unsure>>
    BY <1>1 DEF SetDirection
  <2>3. /\ inputs' \in [Lines -> BOOLEAN]
        /\ \A k \in Lines :
             inputs'[k] = IF k \in Of(l[1]) /\ ok THEN dirmask'[k] ELSE inputs[k]
    <3>1. PICK copy \in [Lines -> BOOLEAN] : copy = dirmask'
      BY <2>2
    <3>2. inputs' = Write(inputs, copy, l[1], l, ok)
      BY <2>1, <3>1
    <3> QED
      BY <3>1, <3>2, WriteOfGroup
  <2>4. \A k \in Lines : inputs'[k] = dirmask'[k] \/ k \in astray'
    <3>1. l \in Of(l[1]) /\ \A k \in Lines : k # l => dirmask'[k] = dirmask[k]
      BY <2>2 DEF Of
    <3> QED
      BY <2>1, <2>3, <3>1 DEF LinesAsAsked
  <2> QED
    BY <2>2, <2>3, <2>4 DEF LinesAsAsked
<1>2. ASSUME NEW l \in Lines, NEW value \in BOOLEAN, SetOutputValue(l, value)
      PROVE  ExpanderInv'
  <2>1. PICK ok \in BOOLEAN :
          /\ outputs' = Write(outputs, outvals', l[1], l, ok)
          /\ unsure' = IF ok THEN unsure \ Of(l[1]) ELSE unsure \cup {l}
    BY <1>2 DEF SetOutputValue
  <2>2. /\ outvals' \in [Lines -> BOOLEAN] /\ outvals' = [outvals EXCEPT ![l] = value]
        /\ asked' = outvals' /\ UNCHANGED <<dirmask, inputs, block, astray>>
    BY <1>2 DEF SetOutputValue
  <2>3. /\ outputs' \in [Lines -> BOOLEAN]
        /\ \A k \in Lines :
             outputs'[k] = IF k \in Of(l[1]) /\ ok THEN outvals'[k] ELSE outputs[k]
    <3>1. PICK copy \in [Lines -> BOOLEAN] : copy = outvals'
      BY <2>2
    <3>2. outputs' = Write(outputs, copy, l[1], l, ok)
      BY <2>1, <3>1
    <3> QED
      BY <3>1, <3>2, WriteOfGroup
  <2>4. \A k \in Lines : outputs'[k] = asked'[k] \/ k \in unsure'
    <3>1. l \in Of(l[1]) /\ \A k \in Lines : k # l => outvals'[k] = outvals[k]
      BY <2>2 DEF Of
    <3> QED
      BY <2>1, <2>2, <2>3, <3>1 DEF LinesAsAsked
  <2> QED
    BY <2>2, <2>3, <2>4 DEF LinesAsAsked
<1>3. ASSUME NEW g \in Group, NEW values \in [Lanes -> BOOLEAN], BatchUpdateValue(g, values)
      PROVE  ExpanderInv'
  <2>1. /\ outvals' = [l \in Lines |-> IF l \in Of(g) THEN values[l[2]] ELSE outvals[l]]
        /\ asked' = outvals' /\ unsure' = unsure \cup Of(g)
        /\ UNCHANGED <<dirmask, outputs, inputs, block, astray>>
    BY <1>3 DEF BatchUpdateValue
  <2>2. outvals' \in [Lines -> BOOLEAN]
    BY <1>3, <2>1 DEF Lines
  <2>3. \A k \in Lines : outputs'[k] = asked'[k] \/ k \in unsure'
    BY <2>1 DEF LinesAsAsked
  <2> QED
    BY <2>1, <2>2, <2>3 DEF LinesAsAsked
<1>4. CASE StartBatchCommit
  BY <1>4 DEF StartBatchCommit, LinesAsAsked
<1>5. CASE BatchCommitBlock
  <2>1. PICK ok \in BOOLEAN :
          /\ outputs' = Write(outputs, outvals, block, <<block, 0>>, ok)
          /\ unsure' = IF ok THEN unsure \ Of(block) ELSE unsure
    BY <1>5 DEF BatchCommitBlock
  <2>2. /\ block' \in 0 .. Groups
        /\ UNCHANGED <<outvals, dirmask, inputs, asked, astray>>
    BY <1>5 DEF BatchCommitBlock
  <2>3. /\ outputs' \in [Lines -> BOOLEAN]
        /\ \A k \in Lines :
             outputs'[k] = IF k \in Of(block) /\ ok THEN outvals[k] ELSE outputs[k]
    BY <2>1, WriteOfGroup
  <2>4. \A k \in Lines : outputs'[k] = asked'[k] \/ k \in unsure'
    BY <2>1, <2>2, <2>3 DEF LinesAsAsked
  <2> QED
    BY <2>2, <2>3, <2>4 DEF LinesAsAsked
<1>6. CASE UNCHANGED expanderVars
  BY <1>6 DEF expanderVars, LinesAsAsked
<1> QED
  BY <1>1, <1>2, <1>3, <1>4, <1>5, <1>6 DEF ExpanderNext, DirectionNext, ValueNext

(* Every line is as it was last asked to be, except where a write was lost *)
(* or waits for a commit (LinesAsAsked), for any number of groups.         *)
THEOREM ExpanderLinesAsAsked == ExpanderSpec => []LinesAsAsked
<1>1. ExpanderInv => LinesAsAsked
  BY DEF ExpanderInv
<1> QED
  BY ExpanderInitInv, ExpanderNextInv, <1>1, PTL DEF ExpanderSpec

-----------------------------------------------------------------------------
(* The registers of the PHY.                                               *)

AllMain == [d \in MdioPorts |-> "MAIN"]

(* Commands, their arguments and the parts of the bytes they pass.         *)
Words ==
  {"point", "peek", "poke", "mode", "read", "push"}
    \cup {"QSGMII", "MCB", "cfg9", "addr_vec"} \cup {"low", "high", "lanes"}

Instruction ==
  [op : {"select", "access", "wait", "check"}, port : MdioPorts, page : Pages]
    \cup [op : {"send"}, port : MdioPorts, page : Pages, cmd : Words, arg : Words, inc : BOOLEAN]
    \cup [op : {"reply"}, port : MdioPorts, page : Pages, part : Words]

(* What a routine needs to know of the chip: the pages, and whether the    *)
(* MCU is known to wait for a command.                                     *)
Situation == [page : [MdioPorts -> Pages], idle : BOOLEAN]

(* An instruction meets the register it means, or the main page for the    *)
(* LED mode, a command an MCU that waits, and where the routine may give   *)
(* up the main page is selected.                                           *)
Fits(i, s) ==
  /\ i.op \in {"access", "wait", "send", "reply"} => s.page[i.port] = UsedPage(i)
  /\ i.op = "send" => s.idle
  /\ i.op = "check" => s.page = AllMain

After(i, s) ==
  [page |-> IF i.op = "select" THEN [s.page EXCEPT ![i.port] = i.page] ELSE s.page,
   idle |-> i.op = "wait" \/ (i.op # "send" /\ s.idle)]

(* Routine r, begun in situation a, fits all along and ends in b.          *)
Runs(r, a, b) ==
  /\ r \in Seq(Instruction)
  /\ \E f \in [0 .. Len(r) -> Situation] :
       /\ f[0] = a /\ f[Len(r)] = b
       /\ \A k \in 1 .. Len(r) : Fits(r[k], f[k - 1]) /\ f[k] = After(r[k], f[k - 1])

PhyInv ==
  /\ page \in [MdioPorts -> Pages] /\ busy \in BOOLEAN
  /\ \E a, b \in Situation :
       /\ Runs(todo, a, b) /\ a.page = page /\ b.page = AllMain
       /\ a.idle => ~busy

-----------------------------------------------------------------------------

LEMMA NothingRuns ==
  ASSUME NEW s \in Situation
  PROVE  Runs(<<>>, s, s)
<1> DEFINE f == [k \in 0 .. 0 |-> s]
<1>1. Len(<<>>) = 0
  OBVIOUS
<1>2. /\ f \in [0 .. Len(<<>>) -> Situation] /\ f[0] = s /\ f[Len(<<>>)] = s
      /\ 1 .. Len(<<>>) = {}
  BY <1>1
<1> HIDE DEF f
<1> QED
  BY <1>2 DEF Runs

LEMMA AfterIsSituation ==
  ASSUME NEW i \in Instruction, NEW s \in Situation
  PROVE  After(i, s) \in Situation
BY DEF Instruction, Situation, After

(* The first instruction fits and the rest runs on from where it leads.    *)
LEMMA FirstRuns ==
  ASSUME NEW r, r # <<>>, NEW a \in Situation, NEW b \in Situation, Runs(r, a, b)
  PROVE  /\ Fits(Head(r), a) /\ Head(r) \in Instruction
         /\ Runs(Tail(r), After(Head(r), a), b)
<1>1. PICK f \in [0 .. Len(r) -> Situation] :
        /\ f[0] = a /\ f[Len(r)] = b
        /\ \A k \in 1 .. Len(r) : Fits(r[k], f[k - 1]) /\ f[k] = After(r[k], f[k - 1])
  BY DEF Runs
<1>2. /\ r \in Seq(Instruction) /\ Len(r) \in Nat /\ Len(r) >= 1 /\ Head(r) = r[1] /\ r[1] \in Instruction
      /\ Tail(r) \in Seq(Instruction) /\ Len(Tail(r)) = Len(r) - 1
      /\ \A k \in 1 .. Len(Tail(r)) : Tail(r)[k] = r[k + 1]
  <2>1. r \in Seq(Instruction)
    BY DEF Runs
  <2> QED
    BY <2>1
<1>3. Fits(r[1], a) /\ f[1] = After(r[1], a)
  BY <1>1, <1>2
<1> DEFINE g == [k \in 0 .. Len(Tail(r)) |-> f[k + 1]]
<1>4. g \in [0 .. Len(Tail(r)) -> Situation] /\ g[0] = f[1] /\ g[Len(Tail(r))] = b
  BY <1>1, <1>2
<1>5. ASSUME NEW k \in 1 .. Len(Tail(r))
      PROVE  Fits(Tail(r)[k], g[k - 1]) /\ g[k] = After(Tail(r)[k], g[k - 1])
  <2>1. k + 1 \in 1 .. Len(r) /\ g[k] = f[k + 1] /\ g[k - 1] = f[k] /\ Tail(r)[k] = r[k + 1]
        /\ (k + 1) - 1 = k
    BY <1>2
  <2> QED
    BY <1>1, <2>1
<1>6. Runs(Tail(r), f[1], b)
  <2> HIDE DEF g
  <2> QED
    BY <1>2, <1>4, <1>5 DEF Runs
<1> QED
  BY <1>2, <1>3, <1>6

(* One instruction more in front.                                          *)
LEMMA OneMore ==
  ASSUME NEW i \in Instruction, NEW a \in Situation, NEW b \in Situation, Fits(i, a),
         NEW r, Runs(r, After(i, a), b)
  PROVE  Runs(<<i>> \o r, a, b)
<1>1. PICK f \in [0 .. Len(r) -> Situation] :
        /\ f[0] = After(i, a) /\ f[Len(r)] = b
        /\ \A k \in 1 .. Len(r) : Fits(r[k], f[k - 1]) /\ f[k] = After(r[k], f[k - 1])
  BY DEF Runs
<1> DEFINE s == <<i>> \o r
           g == [k \in 0 .. Len(s) |-> IF k = 0 THEN a ELSE f[k - 1]]
<1>2. /\ s \in Seq(Instruction) /\ Len(r) \in Nat /\ Len(s) = Len(r) + 1 /\ s[1] = i
      /\ \A k \in 2 .. Len(s) : s[k] = r[k - 1]
  <2>1. r \in Seq(Instruction)
    BY DEF Runs
  <2> QED
    BY <2>1
<1> HIDE DEF s
<1>3. g \in [0 .. Len(s) -> Situation] /\ g[0] = a /\ g[Len(s)] = b
  BY <1>1, <1>2
<1>4. ASSUME NEW k \in 1 .. Len(s)
      PROVE  Fits(s[k], g[k - 1]) /\ g[k] = After(s[k], g[k - 1])
  <2>1. CASE k = 1
    BY <1>1, <1>2, <2>1
  <2>2. CASE k # 1
    <3>1. /\ k \in 2 .. Len(s) /\ k - 1 \in 1 .. Len(r) /\ g[k] = f[k - 1]
          /\ g[k - 1] = f[(k - 1) - 1] /\ s[k] = r[k - 1]
      BY <1>2, <2>2
    <3> QED
      BY <1>1, <3>1
  <2> QED
    BY <2>1, <2>2
<1>5. Runs(s, a, b)
  <2> HIDE DEF g
  <2> QED
    BY <1>2, <1>3, <1>4 DEF Runs
<1> QED
  BY <1>5 DEF s

(* A routine after another.                                                *)
LEMMA OneAfterAnother ==
  ASSUME NEW r, NEW t, NEW a \in Situation, NEW b \in Situation, NEW c \in Situation,
         Runs(r, a, b), Runs(t, b, c)
  PROVE  Runs(r \o t, a, c)
<1>1. PICK f \in [0 .. Len(r) -> Situation] :
        /\ f[0] = a /\ f[Len(r)] = b
        /\ \A k \in 1 .. Len(r) : Fits(r[k], f[k - 1]) /\ f[k] = After(r[k], f[k - 1])
  BY DEF Runs
<1>2. PICK g \in [0 .. Len(t) -> Situation] :
        /\ g[0] = b /\ g[Len(t)] = c
        /\ \A k \in 1 .. Len(t) : Fits(t[k], g[k - 1]) /\ g[k] = After(t[k], g[k - 1])
  BY DEF Runs
<1> DEFINE s == r \o t
           h == [k \in 0 .. Len(s) |-> IF k <= Len(r) THEN f[k] ELSE g[k - Len(r)]]
<1>3. /\ s \in Seq(Instruction) /\ Len(r) \in Nat /\ Len(t) \in Nat /\ Len(s) = Len(r) + Len(t)
      /\ \A k \in 1 .. Len(r) : s[k] = r[k]
      /\ \A k \in Len(r) + 1 .. Len(s) : s[k] = t[k - Len(r)]
  <2>1. r \in Seq(Instruction) /\ t \in Seq(Instruction)
    BY DEF Runs
  <2> QED
    BY <2>1
<1> HIDE DEF s
<1>4. h \in [0 .. Len(s) -> Situation] /\ h[0] = a /\ h[Len(s)] = c
  BY <1>1, <1>2, <1>3
<1>5. ASSUME NEW k \in 1 .. Len(s)
      PROVE  Fits(s[k], h[k - 1]) /\ h[k] = After(s[k], h[k - 1])
  <2>1. CASE k <= Len(r)
    <3>1. k \in 1 .. Len(r) /\ h[k] = f[k] /\ h[k - 1] = f[k - 1] /\ s[k] = r[k]
      BY <1>3, <2>1
    <3> QED
      BY <1>1, <3>1
  <2>2. CASE k > Len(r)
    <3> DEFINE j == k - Len(r)
    <3>1. j \in 1 .. Len(t) /\ h[k] = g[j] /\ s[k] = t[j]
      <4>1. j \in 1 .. Len(t) /\ k \in Len(r) + 1 .. Len(s) /\ ~(k <= Len(r))
        BY <1>3, <2>2
      <4> QED
        BY <1>3, <4>1
    <3>2. h[k - 1] = g[j - 1]
      <4>1. CASE k - 1 = Len(r)
        BY <1>1, <1>2, <1>3, <4>1
      <4>2. CASE k - 1 # Len(r)
        <5>1. k - 1 \in 0 .. Len(s) /\ ~(k - 1 <= Len(r)) /\ (k - 1) - Len(r) = j - 1
          BY <1>3, <2>2, <4>2
        <5> QED
          BY <5>1
      <4> QED
        BY <4>1, <4>2
    <3> HIDE DEF h, j
    <3> QED
      BY <1>2, <3>1, <3>2
  <2> QED
    BY <1>3, <2>1, <2>2
<1>6. Runs(s, a, c)
  <2> HIDE DEF h
  <2> QED
    BY <1>3, <1>4, <1>5 DEF Runs
<1> QED
  BY <1>6 DEF s

(* The join of n sequences grows from the first to the last.               *)
LEMMA JoinGrows ==
  ASSUME NEW s \in Seq(Seq(Instruction)), Len(s) >= 1
  PROVE  \E f \in [1 .. Len(s) -> Seq(Instruction)] :
           /\ f[1] = s[1] /\ f[Len(s)] = FlattenSeq(s)
           /\ \A i \in 2 .. Len(s) : f[i] = f[i - 1] \o s[i]
<1> DEFINE N == Len(s)
           Grown(n) == {f \in [1 .. n -> Seq(Instruction)] :
                          f[1] = s[1] /\ \A i \in 2 .. n : f[i] = f[i - 1] \o s[i]}
           S == {n \in 1 .. N : Grown(n) # {}}
<1>1. N \in Nat /\ N >= 1 /\ \A i \in 1 .. N : s[i] \in Seq(Instruction)
  OBVIOUS
<1> HIDE DEF N
<1>2. 1 \in S
  <2> DEFINE f == [i \in 1 .. 1 |-> s[1]]
  <2>1. f \in [1 .. 1 -> Seq(Instruction)] /\ f[1] = s[1] /\ 2 .. 1 = {}
    BY <1>1
  <2>2. f \in Grown(1)
    <3> HIDE DEF f
    <3> QED
      BY <2>1
  <2>3. Grown(1) # {} /\ 1 \in 1 .. N
    BY <1>1, <2>2
  <2> QED
    BY <2>3
<1>3. ASSUME NEW i \in 1 .. N, i # 1, i - 1 \in S PROVE i \in S
  <2> i \in 2 .. N
    BY <1>3
  <2>1. PICK f \in [1 .. i - 1 -> Seq(Instruction)] :
          f[1] = s[1] /\ \A j \in 2 .. i - 1 : f[j] = f[j - 1] \o s[j]
    BY <1>3
  <2> DEFINE g == [j \in 1 .. i |-> IF j = i THEN f[i - 1] \o s[i] ELSE f[j]]
  <2>2. f[i - 1] \in Seq(Instruction) /\ s[i] \in Seq(Instruction)
    BY <1>1
  <2>3. f[i - 1] \o s[i] \in Seq(Instruction)
    BY <2>2
  <2>4. g \in [1 .. i -> Seq(Instruction)]
    BY <2>3
  <2>5. g[1] = s[1] /\ \A j \in 2 .. i : g[j] = g[j - 1] \o s[j]
    <3>1. /\ g[1] = f[1] /\ g[i] = f[i - 1] \o s[i] /\ g[i - 1] = f[i - 1]
      <4>1. 1 \in 1 .. i /\ i \in 1 .. i /\ i - 1 \in 1 .. i /\ 1 # i /\ i - 1 # i
        OBVIOUS
      <4> QED
        BY <4>1, Zenon
    <3>2. \A j \in 2 .. i - 1 : g[j] = f[j] /\ g[j - 1] = f[j - 1]
      OBVIOUS
    <3>3. \A j \in 2 .. i : j \in 2 .. i - 1 \/ j = i
      OBVIOUS
    <3> HIDE DEF g
    <3> QED
      BY <2>1, <3>1, <3>2, <3>3, Zenon
  <2>6. g \in Grown(i)
    <3> HIDE DEF g
    <3> QED
      BY <2>4, <2>5
  <2>7. Grown(i) # {} /\ i \in 1 .. N
    <3> HIDE DEF g, Grown
    <3> QED
      BY <1>1, <2>6
  <2> QED
    BY <2>7
<1>4. N \in S
  <2> HIDE DEF S
  <2>1. 1 .. N \subseteq S
    BY <1>1, <1>2, <1>3, Induction
  <2> QED
    BY <1>1, <2>1
<1>5. PICK h \in [1 .. N -> Seq(Instruction)] :
        h[1] = s[1] /\ \A i \in 2 .. N : h[i] = h[i - 1] \o s[i]
  BY <1>4
<1> DEFINE Def(f) == f = [i \in 1 .. N |-> IF i = 1 THEN s[i] ELSE f[i - 1] \o s[i]]
           flatten == CHOOSE f : Def(f)
<1>6. Def(h)
  <2>1. h = [i \in 1 .. N |-> h[i]]
    BY <1>5
  <2>2. \A i \in 1 .. N : h[i] = IF i = 1 THEN s[i] ELSE h[i - 1] \o s[i]
    <3>1. \A i \in 1 .. N : i = 1 \/ i \in 2 .. N
      BY <1>1
    <3> QED
      BY <1>5, <3>1, Zenon
  <2> QED
    BY <2>1, <2>2, Zenon
<1>7. Def(flatten)
  <2> HIDE DEF Def
  <2> QED
    BY <1>6
<1>8. FlattenSeq(s) = flatten[N]
  BY <1>1 DEF FlattenSeq, N
<1> HIDE DEF flatten
<1>9. flatten[1] = s[1] /\ \A i \in 2 .. N : flatten[i] = flatten[i - 1] \o s[i]
  <2>1. 1 \in 1 .. N /\ \A i \in 2 .. N : i \in 1 .. N /\ i # 1
    BY <1>1
  <2>2. \A i \in 1 .. N : flatten[i] = IF i = 1 THEN s[i] ELSE flatten[i - 1] \o s[i]
    BY <1>7, Zenon
  <2> QED
    BY <2>1, <2>2, Zenon
<1> DEFINE T == {i \in 1 .. N : flatten[i] \in Seq(Instruction)}
<1>10. 1 \in T
  BY <1>1, <1>9
<1>11. ASSUME NEW i \in 1 .. N, i # 1, i - 1 \in T PROVE i \in T
  <2>1. flatten[i] = flatten[i - 1] \o s[i]
    <3>1. i \in 2 .. N
      BY <1>11
    <3> QED
      BY <1>9, <3>1, Zenon
  <2>2. i \in 1 .. N /\ flatten[i - 1] \in Seq(Instruction) /\ s[i] \in Seq(Instruction)
    BY <1>1, <1>11
  <2>3. flatten[i - 1] \o s[i] \in Seq(Instruction)
    BY <2>2
  <2> QED
    BY <2>1, <2>2, <2>3, Zenon
<1>12. 1 .. N \subseteq T
  <2> HIDE DEF T
  <2> QED
    BY <1>1, <1>10, <1>11, Induction
<1>13. flatten \in [1 .. N -> Seq(Instruction)]
  <2>1. flatten = [i \in 1 .. N |-> flatten[i]]
    BY <1>7
  <2> QED
    BY <1>12, <2>1
<1> QED
  BY <1>8, <1>9, <1>13 DEF N

(* The same routine of every port, where the first leaves what every other *)
(* finds and leaves.                                                       *)
LEMMA EveryPortRuns ==
  ASSUME NEW routine, NEW a \in Situation, NEW b \in Situation,
         Runs(routine[0], a, b), \A d \in MdioPorts \ {0} : Runs(routine[d], b, b)
  PROVE  Runs(AllPorts(routine), a, b)
<1> DEFINE s == [i \in 1 .. LastPort + 1 |-> routine[i - 1]]
<1>1. LastPort \in Nat
  BY PhyAssumption
<1>2. \A i \in 1 .. LastPort + 1 : i - 1 \in MdioPorts
  BY <1>1 DEF MdioPorts
<1>3. \A d \in MdioPorts : routine[d] \in Seq(Instruction)
  BY DEF Runs
<1>4. s \in Seq(Seq(Instruction)) /\ Len(s) = LastPort + 1 /\ Len(s) >= 1
  BY <1>1, <1>2, <1>3
<1>5. s[1] = routine[0] /\ \A i \in 2 .. LastPort + 1 : Runs(s[i], b, b)
  <2>1. 1 \in 1 .. LastPort + 1 /\ 1 - 1 = 0
    BY <1>1
  <2>2. \A i \in 2 .. LastPort + 1 : i \in 1 .. LastPort + 1 /\ i - 1 \in MdioPorts \ {0}
    BY <1>1 DEF MdioPorts
  <2> QED
    BY <2>1, <2>2, Zenon
<1> HIDE DEF s
<1>6. PICK f \in [1 .. Len(s) -> Seq(Instruction)] :
        /\ f[1] = s[1] /\ f[Len(s)] = FlattenSeq(s)
        /\ \A i \in 2 .. Len(s) : f[i] = f[i - 1] \o s[i]
  BY <1>4, JoinGrows
<1> DEFINE S == {i \in 1 .. Len(s) : Runs(f[i], a, b)}
<1>7. 1 \in S
  BY <1>1, <1>4, <1>5, <1>6
<1>8. ASSUME NEW i \in 1 .. Len(s), i # 1, i - 1 \in S PROVE i \in S
  <2>1. /\ f[i] = f[i - 1] \o s[i]
        /\ Runs(s[i], b, b) /\ Runs(f[i - 1], a, b)
    <3>1. i \in 2 .. Len(s) /\ i \in 2 .. LastPort + 1
      BY <1>1, <1>4, <1>8
    <3> QED
      BY <1>5, <1>6, <1>8, <3>1
  <2>2. Runs(f[i], a, b)
    BY <2>1, OneAfterAnother
  <2> QED
    BY <1>4, <2>2
<1>9. Len(s) \in S
  <2> HIDE DEF S
  <2>1. Len(s) \in Nat
    BY <1>1, <1>4
  <2>2. 1 .. Len(s) \subseteq S
    BY <1>7, <1>8, <2>1, Induction
  <2> QED
    BY <1>4, <2>1, <2>2
<1> QED
  BY <1>1, <1>4, <1>6, <1>9 DEF AllPorts, s

-----------------------------------------------------------------------------
(* The pages once port d has page p, and the MCU is known to wait.         *)
On(s, d, p) == [s EXCEPT !.page[d] = p]
Idle(s) == [s EXCEPT !.idle = TRUE]
InCharge(s) == s.page[0] = "GENERAL_PURPOSE" /\ s.idle

LEMMA OneRuns ==
  ASSUME NEW i \in Instruction, NEW a \in Situation, Fits(i, a)
  PROVE  Runs(<<i>>, a, After(i, a))
<1>1. Runs(<<>>, After(i, a), After(i, a))
  BY AfterIsSituation, NothingRuns
<1>2. Runs(<<i>> \o <<>>, a, After(i, a))
  BY <1>1, AfterIsSituation, OneMore
<1>3. <<i>> \o <<>> = <<i>>
  BY DEF Instruction
<1> QED
  BY <1>2, <1>3

LEMMA Two ==
  ASSUME NEW i \in Instruction, NEW j \in Instruction, NEW a \in Situation,
         Fits(i, a), Fits(j, After(i, a))
  PROVE  Runs(<<i, j>>, a, After(j, After(i, a)))
<1>1. Runs(<<j>>, After(i, a), After(j, After(i, a)))
  BY AfterIsSituation, OneRuns
<1>2. Runs(<<i>> \o <<j>>, a, After(j, After(i, a)))
  BY <1>1, AfterIsSituation, OneMore
<1>3. <<i>> \o <<j>> = <<i, j>>
  <2> DEFINE s == <<i>> \o <<j>>
             t == <<i, j>>
  <2>1. /\ s \in Seq(Instruction) /\ t \in Seq(Instruction)
        /\ Len(s) = 2 /\ Len(t) = 2 /\ s[1] = t[1] /\ s[2] = t[2]
    OBVIOUS
  <2>2. \A k \in 1 .. Len(s) : s[k] = t[k]
    <3> HIDE DEF s, t
    <3> QED
      BY <2>1
  <2> HIDE DEF s, t
  <2>3. s = t
    BY <2>1, <2>2, SeqEqual
  <2> QED
    BY <2>3 DEF s, t
<1> QED
  BY <1>2, <1>3

LEMMA OnAndIdle ==
  ASSUME NEW a \in Situation, NEW d \in MdioPorts, NEW p \in Pages
  PROVE  On(a, d, p) \in Situation /\ Idle(a) \in Situation
BY DEF Situation, On, Idle

LEMMA SelectRuns ==
  ASSUME NEW a \in Situation, NEW d \in MdioPorts, NEW p \in Pages
  PROVE  /\ Runs(<<Select(d, p)>>, a, On(a, d, p))
         /\ p # "EXT1" => Runs(Use(d, p), a, On(a, d, p))
         /\ p = "MAIN" => Runs(<<Select(d, p), Access(d, "EXT1")>>, a, On(a, d, p))
<1> DEFINE led == Access(d, "EXT1")
<1>1. Select(d, p) \in Instruction /\ Access(d, p) \in Instruction /\ led \in Instruction
  BY DEF Select, Access, Instruction, Pages
<1>2. Fits(Select(d, p), a) /\ After(Select(d, p), a) = On(a, d, p)
  BY DEF Select, Fits, After, On, Situation
<1>3. /\ p # "EXT1" => Fits(Access(d, p), On(a, d, p))
      /\ After(Access(d, p), On(a, d, p)) = On(a, d, p)
  BY DEF Access, Fits, After, On, Situation, UsedPage
<1>4. (p = "MAIN" => Fits(led, On(a, d, p))) /\ After(led, On(a, d, p)) = On(a, d, p)
  BY DEF Access, Fits, After, On, Situation, UsedPage
<1> HIDE DEF led
<1>5. Runs(<<Select(d, p)>>, a, On(a, d, p))
  BY <1>1, <1>2, OneRuns
<1>6. ASSUME p # "EXT1" PROVE Runs(<<Select(d, p), Access(d, p)>>, a, On(a, d, p))
  BY <1>1, <1>2, <1>3, <1>6, Two
<1>7. ASSUME p = "MAIN" PROVE Runs(<<Select(d, p), led>>, a, On(a, d, p))
  BY <1>1, <1>2, <1>4, <1>7, Two
<1> QED
  BY <1>5, <1>6, <1>7 DEF Use, led

LEMMA ZeroIsAPort == 0 \in MdioPorts
BY PhyAssumption DEF MdioPorts

(* Every command waits until it is done.                                   *)
LEMMA CommandRuns ==
  ASSUME NEW a \in Situation, InCharge(a), NEW c \in Words, NEW arg \in Words, NEW inc \in BOOLEAN
  PROVE  Runs(SendCommandToMCU(c, arg, inc), a, a)
<1>1. Send(c, arg, inc) \in Instruction /\ Wait \in Instruction
  BY ZeroIsAPort DEF Send, Wait, Instruction, Pages
<1>2. Fits(Send(c, arg, inc), a)
  BY DEF Send, Fits, InCharge, UsedPage
<1>3. /\ Fits(Wait, After(Send(c, arg, inc), a))
      /\ After(Wait, After(Send(c, arg, inc), a)) = a
  BY DEF Send, Wait, Fits, After, InCharge, Situation, UsedPage
<1> QED
  BY <1>1, <1>2, <1>3, Two DEF SendCommandToMCU

LEMMA ReplyRuns ==
  ASSUME NEW a \in Situation, InCharge(a), NEW part \in Words
  PROVE  Runs(<<Reply(part)>>, a, a)
<1>1. Reply(part) \in Instruction
  BY ZeroIsAPort DEF Reply, Instruction, Pages
<1>2. Fits(Reply(part), a) /\ After(Reply(part), a) = a
  BY DEF Reply, Fits, After, InCharge, Situation, UsedPage
<1> QED
  BY <1>1, <1>2, OneRuns

LEMMA CheckRuns ==
  ASSUME NEW a \in Situation, a.page = AllMain
  PROVE  Runs(<<Check>>, a, a)
<1>1. Check \in Instruction
  BY ZeroIsAPort DEF Check, Instruction, Pages
<1>2. Fits(Check, a) /\ After(Check, a) = a
  BY DEF Check, Fits, After, Situation
<1> QED
  BY <1>1, <1>2, OneRuns

(* Two registers of port d on the page it has, and a test of what they     *)
(* hold.                                                                   *)
LEMMA TestRuns ==
  ASSUME NEW a \in Situation, a.page = AllMain, NEW d \in MdioPorts
  PROVE  Runs(<<Access(d, "MAIN"), Access(d, "MAIN"), Check>>, a, a)
<1> DEFINE access == Access(d, "MAIN")
<1>1. access \in Instruction
  BY DEF Access, Instruction, Pages
<1>2. Fits(access, a) /\ After(access, a) = a
  BY DEF Access, Fits, After, Situation, AllMain, UsedPage
<1>3. Check \in Instruction
  BY ZeroIsAPort DEF Check, Instruction, Pages
<1> HIDE DEF access
<1>4. Runs(<<access, access>>, a, a)
  BY <1>1, <1>2, Two
<1>5. Runs(<<access, access>> \o <<Check>>, a, a)
  BY <1>4, CheckRuns, OneAfterAnother
<1>6. <<access, access>> \o <<Check>> = <<access, access, Check>>
  <2> DEFINE s == <<access, access>> \o <<Check>>
             t == <<access, access, Check>>
  <2>1. /\ s \in Seq(Instruction) /\ t \in Seq(Instruction) /\ Len(s) = 3 /\ Len(t) = 3
        /\ s[1] = t[1] /\ s[2] = t[2] /\ s[3] = t[3]
    BY <1>1, <1>3
  <2>2. \A k \in 1 .. Len(s) : s[k] = t[k]
    <3> HIDE DEF s, t
    <3> QED
      BY <2>1
  <2> HIDE DEF s, t
  <2>3. s = t
    BY <2>1, <2>2, SeqEqual
  <2> QED
    BY <2>3 DEF s, t
<1> QED
  BY <1>5, <1>6 DEF access

(* The page of the commands is selected before the driver waits.           *)
LEMMA PrepareRuns ==
  ASSUME NEW a \in Situation
  PROVE  LET c == Idle(On(a, 0, "GENERAL_PURPOSE")) IN
         c \in Situation /\ InCharge(c) /\ Runs(PrepareForMCUAccess, a, c)
<1> DEFINE select == Select(0, "GENERAL_PURPOSE")
           b == On(a, 0, "GENERAL_PURPOSE")
<1>1. select \in Instruction /\ Wait \in Instruction
  BY ZeroIsAPort DEF Select, Wait, Instruction, Pages
<1>2. Fits(select, a) /\ After(select, a) = b
  BY DEF Select, Fits, After, On, Situation
<1>3. b \in Situation /\ Idle(b) \in Situation /\ b.page[0] = "GENERAL_PURPOSE" /\ InCharge(Idle(b))
  BY ZeroIsAPort DEF On, Idle, InCharge, Situation, Pages
<1>4. Fits(Wait, b) /\ After(Wait, b) = Idle(b)
  BY <1>3 DEF Wait, Fits, After, Idle, Situation, UsedPage
<1> HIDE DEF select, b
<1>5. Runs(<<select, Wait>>, a, Idle(b))
  BY <1>1, <1>2, <1>4, Two
<1> QED
  BY <1>3, <1>5 DEF PrepareForMCUAccess, select, b

(* Port d selects pages and goes back to the main one.                     *)
LEMMA BackOnMain ==
  ASSUME NEW a \in Situation, NEW d \in MdioPorts, NEW p \in Pages, NEW q \in Pages
  PROVE  /\ On(On(a, d, p), d, q) = On(a, d, q)
         /\ a.page = AllMain => On(a, d, "MAIN") = a
         /\ (\A e \in MdioPorts \ {d} : a.page[e] = "MAIN") => On(a, d, "MAIN").page = AllMain
         /\ On(a, d, p).idle = a.idle
<1>1. On(On(a, d, p), d, q) = On(a, d, q) /\ On(a, d, p).idle = a.idle
  BY DEF On, Situation
<1>2. ASSUME \A e \in MdioPorts \ {d} : a.page[e] = "MAIN"
      PROVE  On(a, d, "MAIN").page = AllMain
  BY <1>2 DEF On, Situation, AllMain
<1>3. ASSUME a.page = AllMain
      PROVE  On(a, d, "MAIN") = a
  <2>1. [a.page EXCEPT ![d] = "MAIN"] = a.page
    BY <1>3 DEF AllMain
  <2> QED
    BY <2>1 DEF On, Situation
<1> QED
  BY <1>1, <1>2, <1>3

LEMMA TemperatureRuns ==
  ASSUME NEW a \in Situation, a.page = AllMain
  PROVE  Runs(GetTemperature, a, a) /\ Runs(InitTempSensor, a, a)
<1> DEFINE g == On(a, 0, "GENERAL_PURPOSE")
<1>1. "GENERAL_PURPOSE" \in Pages /\ "MAIN" \in Pages
  BY DEF Pages
<1>2. g \in Situation /\ On(g, 0, "MAIN") = a /\ On(g, 0, "GENERAL_PURPOSE") = g
  BY <1>1, ZeroIsAPort, OnAndIdle, BackOnMain
<1>3. Runs(Use(0, "GENERAL_PURPOSE"), a, g) /\ Runs(Use(0, "GENERAL_PURPOSE"), g, g)
  BY <1>1, <1>2, ZeroIsAPort, SelectRuns
<1>4. Runs(SelectMainPage, g, a)
  BY <1>1, <1>2, ZeroIsAPort, SelectRuns DEF SelectMainPage
<1> HIDE DEF g
<1>5. Runs(GetTemperature, a, a) /\ Runs(GetTemperature, g, a)
  BY <1>2, <1>3, <1>4, OneAfterAnother DEF GetTemperature
<1> QED
  BY <1>2, <1>3, <1>5, OneAfterAnother DEF InitTempSensor

LEMMA MagicRuns ==
  ASSUME NEW a \in Situation, a.page = AllMain
  PROVE  Runs(MagicInitScript, a, a)
<1> DEFINE e == On(a, 0, "EXT2")
           t == On(a, 0, "TEST")
           r == On(a, 0, "TR")
<1>1. {"MAIN", "EXT2", "TEST", "TR"} \subseteq Pages
  BY DEF Pages
<1>2. /\ e \in Situation /\ t \in Situation /\ r \in Situation
      /\ On(a, 0, "MAIN") = a /\ On(e, 0, "TEST") = t /\ On(t, 0, "TR") = r
      /\ On(r, 0, "TEST") = t /\ On(t, 0, "MAIN") = a
  <2>1. "MAIN" \in Pages /\ "EXT2" \in Pages /\ "TEST" \in Pages /\ "TR" \in Pages
    BY <1>1
  <2>2. e \in Situation /\ t \in Situation /\ r \in Situation /\ On(a, 0, "MAIN") = a
    BY <2>1, ZeroIsAPort, OnAndIdle, BackOnMain
  <2>3. On(e, 0, "TEST") = t /\ On(t, 0, "TR") = r /\ On(r, 0, "TEST") = t
    BY <2>1, ZeroIsAPort, BackOnMain
  <2>4. On(t, 0, "MAIN") = On(a, 0, "MAIN")
    BY <2>1, ZeroIsAPort, BackOnMain
  <2> QED
    BY <2>2, <2>3, <2>4
<1>3. /\ Runs(Use(0, "MAIN"), a, a) /\ Runs(Use(0, "EXT2"), a, e)
      /\ Runs(Use(0, "TEST"), e, t) /\ Runs(Use(0, "TR"), t, r)
      /\ Runs(Use(0, "TEST"), r, t) /\ Runs(Use(0, "MAIN"), t, a)
  BY <1>1, <1>2, ZeroIsAPort, SelectRuns
<1> HIDE DEF e, t, r
<1>4. Runs(Use(0, "MAIN") \o Use(0, "EXT2"), a, e)
  BY <1>2, <1>3, OneAfterAnother
<1>5. Runs(Use(0, "MAIN") \o Use(0, "EXT2") \o Use(0, "TEST"), a, t)
  BY <1>2, <1>3, <1>4, OneAfterAnother
<1>6. Runs(Use(0, "MAIN") \o Use(0, "EXT2") \o Use(0, "TEST") \o Use(0, "TR"), a, r)
  BY <1>2, <1>3, <1>5, OneAfterAnother
<1>7. Runs(Use(0, "MAIN") \o Use(0, "EXT2") \o Use(0, "TEST") \o Use(0, "TR")
             \o Use(0, "TEST"), a, t)
  BY <1>2, <1>3, <1>6, OneAfterAnother
<1> QED
  BY <1>2, <1>3, <1>7, OneAfterAnother DEF MagicInitScript

(* The first port comes from the page of the commands, the others from the *)
(* main page.                                                              *)
LEMMA PortInitRuns ==
  ASSUME NEW a \in Situation, NEW d \in MdioPorts,
         \A e \in MdioPorts \ {d} : a.page[e] = "MAIN"
  PROVE  Runs(DefaultPortInit(d), a, [page |-> AllMain, idle |-> a.idle])
<1> DEFINE x == On(a, d, "EXT2")
           y == On(a, d, "EXT3")
           z == On(a, d, "MAIN")
<1>1. {"MAIN", "EXT2", "EXT3"} \subseteq Pages
  BY DEF Pages
<1>2. /\ x \in Situation /\ y \in Situation /\ z \in Situation
      /\ On(x, d, "EXT3") = y /\ On(y, d, "MAIN") = z /\ On(z, d, "MAIN") = z
  BY <1>1, OnAndIdle, BackOnMain
<1>3. z = [page |-> AllMain, idle |-> a.idle]
  BY <1>1, <1>2, BackOnMain DEF Situation
<1>4. /\ Runs(Use(d, "EXT2"), a, x) /\ Runs(Use(d, "EXT3"), x, y)
      /\ Runs(Use(d, "MAIN"), y, z)
      /\ Runs(<<Select(d, "MAIN"), Access(d, "EXT1")>>, z, z)
  BY <1>1, <1>2, SelectRuns
<1> HIDE DEF x, y, z
<1>5. Runs(Use(d, "EXT2") \o Use(d, "EXT3"), a, y)
  BY <1>2, <1>4, OneAfterAnother
<1>6. Runs(Use(d, "EXT2") \o Use(d, "EXT3") \o Use(d, "MAIN"), a, z)
  BY <1>2, <1>4, <1>5, OneAfterAnother
<1>7. Runs(DefaultPortInit(d), a, z)
  BY <1>2, <1>4, <1>6, OneAfterAnother DEF DefaultPortInit
<1> QED
  BY <1>3, <1>7

LEMMA HealthCheckRuns ==
  ASSUME NEW a \in Situation, a.page = AllMain, NEW d \in MdioPorts
  PROVE  Runs(SelectMainPage, a, a) /\ Runs(PortHealthCheck(d), a, a)
<1>1. "MAIN" \in Pages
  BY DEF Pages
<1>2. Runs(SelectMainPage, a, a)
  BY <1>1, ZeroIsAPort, SelectRuns, BackOnMain DEF SelectMainPage
<1>3. Runs(<<Access(d, "MAIN"), Access(d, "MAIN"), Check>>, a, a)
  BY TestRuns
<1> QED
  BY <1>2, <1>3, OneAfterAnother DEF PortHealthCheck

-----------------------------------------------------------------------------
(* The three routines that are called.                                     *)

(* A routine that may start whenever the main page is selected everywhere, *)
(* whatever the MCU does, and leaves it so.                                *)
MainToMain(r) ==
  \E b \in Situation : Runs(r, [page |-> AllMain, idle |-> FALSE], b) /\ b.page = AllMain

LEMMA StartIsSituation ==
  \A x \in BOOLEAN : [page |-> AllMain, idle |-> x] \in Situation
BY DEF AllMain, Situation, Pages

LEMMA InitRoutineRuns == MainToMain(InitRoutine)
<1> DEFINE a == [page |-> AllMain, idle |-> FALSE]
           m == [page |-> AllMain, idle |-> TRUE]
           g == Idle(On(a, 0, "GENERAL_PURPOSE"))
<1>1. a \in Situation /\ m \in Situation /\ a.page = AllMain /\ m.page = AllMain
  BY StartIsSituation
<1>2. g \in Situation /\ InCharge(g) /\ Runs(PrepareForMCUAccess, a, g)
  BY <1>1, PrepareRuns
<1>3. g.idle = TRUE /\ \A e \in MdioPorts \ {0} : g.page[e] = "MAIN"
  BY DEF Idle, On, AllMain
<1>4. Runs(IDCheck, a, a)
  BY <1>1, ZeroIsAPort, TestRuns DEF IDCheck
<1>5. Runs(MagicInitScript, a, a)
  BY <1>1, MagicRuns
<1>6. Runs(SelectQSGMIIToBaseTMode, a, g)
  <2> DEFINE access == Access(0, "GENERAL_PURPOSE")
  <2>1. Runs(SendCommandToMCU("mode", "QSGMII", FALSE), g, g)
    <3> HIDE DEF g
    <3>1. "mode" \in Words /\ "QSGMII" \in Words
      BY DEF Words
    <3> QED
      BY <1>2, <3>1, CommandRuns
  <2>2. access \in Instruction
    BY ZeroIsAPort DEF Access, Instruction, Pages
  <2>3. Fits(access, g) /\ After(access, g) = g
    BY <1>2 DEF Access, Fits, After, InCharge, Situation, UsedPage
  <2> HIDE DEF access, g
  <2>4. Runs(<<access>>, g, g)
    BY <1>2, <2>2, <2>3, OneRuns
  <2>5. Runs(PrepareForMCUAccess \o SendCommandToMCU("mode", "QSGMII", FALSE), a, g)
    BY <1>1, <1>2, <2>1, OneAfterAnother
  <2> QED
    BY <1>1, <1>2, <2>4, <2>5, OneAfterAnother DEF SelectQSGMIIToBaseTMode, access
<1> HIDE DEF g
<1>7. Runs(AllPorts([d \in MdioPorts |-> DefaultPortInit(d)]), g, m)
  <2> DEFINE routine == [d \in MdioPorts |-> DefaultPortInit(d)]
  <2>1. Runs(routine[0], g, m)
    BY <1>2, <1>3, ZeroIsAPort, PortInitRuns
  <2>2. ASSUME NEW d \in MdioPorts PROVE Runs(routine[d], m, m)
    <3>1. \A e \in MdioPorts \ {d} : m.page[e] = "MAIN"
      BY DEF AllMain
    <3> QED
      BY <1>1, <3>1, PortInitRuns
  <2> HIDE DEF routine, m
  <2>3. Runs(AllPorts(routine), g, m)
    BY <1>1, <1>2, <2>1, <2>2, EveryPortRuns
  <2> QED
    BY <2>3 DEF routine
<1>8. Runs(InitTempSensor, m, m)
  BY <1>1, TemperatureRuns
<1>9. Runs(AllPorts([d \in MdioPorts |-> PortHealthCheck(d)]), m, m)
  <2> DEFINE routine == [d \in MdioPorts |-> PortHealthCheck(d)]
  <2>1. ASSUME NEW d \in MdioPorts PROVE Runs(routine[d], m, m)
    BY <1>1, HealthCheckRuns
  <2> HIDE DEF routine, m
  <2>2. Runs(AllPorts(routine), m, m)
    BY <1>1, <2>1, ZeroIsAPort, EveryPortRuns
  <2> QED
    BY <2>2 DEF routine
<1>10. Runs(SelectMainPage, m, m)
  BY <1>1, ZeroIsAPort, HealthCheckRuns
<1> HIDE DEF a, m
<1> DEFINE inits == AllPorts([d \in MdioPorts |-> DefaultPortInit(d)])
           checks == AllPorts([d \in MdioPorts |-> PortHealthCheck(d)])
<1>11. Runs(inits, g, m) /\ Runs(checks, m, m)
  BY <1>7, <1>9
<1>12. InitRoutine = IDCheck \o MagicInitScript \o SelectQSGMIIToBaseTMode
                       \o inits \o InitTempSensor \o checks \o SelectMainPage
  BY Zenon DEF InitRoutine
<1> HIDE DEF inits, checks
<1>13. Runs(IDCheck \o MagicInitScript, a, a)
  BY <1>1, <1>4, <1>5, OneAfterAnother
<1>14. Runs(IDCheck \o MagicInitScript \o SelectQSGMIIToBaseTMode, a, g)
  BY <1>1, <1>2, <1>6, <1>13, OneAfterAnother
<1>15. Runs(IDCheck \o MagicInitScript \o SelectQSGMIIToBaseTMode \o inits, a, m)
  BY <1>1, <1>2, <1>11, <1>14, OneAfterAnother
<1>16. Runs(IDCheck \o MagicInitScript \o SelectQSGMIIToBaseTMode \o inits
              \o InitTempSensor, a, m)
  BY <1>1, <1>8, <1>15, OneAfterAnother
<1>17. Runs(IDCheck \o MagicInitScript \o SelectQSGMIIToBaseTMode \o inits
              \o InitTempSensor \o checks, a, m)
  BY <1>1, <1>11, <1>16, OneAfterAnother
<1>18. Runs(InitRoutine, a, m)
  BY <1>1, <1>10, <1>12, <1>17, OneAfterAnother
<1> QED
  BY <1>1, <1>18 DEF MainToMain, a

LEMMA TemperatureRoutineRuns == MainToMain(GetTemperature)
BY StartIsSituation, TemperatureRuns DEF MainToMain

LEMMA TapRoutineRuns == MainToMain(SetTapRoutine)
<1> DEFINE a == [page |-> AllMain, idle |-> FALSE]
           g == Idle(On(a, 0, "GENERAL_PURPOSE"))
           m == On(g, 0, "MAIN")
<1>1. a \in Situation
  BY StartIsSituation
<1>2. g \in Situation /\ InCharge(g) /\ Runs(PrepareForMCUAccess, a, g)
  BY <1>1, PrepareRuns
<1>3. m \in Situation /\ m.page = AllMain /\ Runs(SelectMainPage, g, m)
  <2>1. "MAIN" \in Pages
    BY DEF Pages
  <2>2. \A e \in MdioPorts \ {0} : g.page[e] = "MAIN"
    BY DEF Idle, On, AllMain
  <2> HIDE DEF g
  <2> QED
    BY <1>2, <2>1, <2>2, ZeroIsAPort, OnAndIdle, BackOnMain, SelectRuns DEF SelectMainPage
<1> HIDE DEF a, g, m
<1>4. \A x, y \in Words : \A inc \in BOOLEAN : Runs(SendCommandToMCU(x, y, inc), g, g)
  BY <1>2, CommandRuns
<1>5. /\ "point" \in Words /\ "peek" \in Words /\ "poke" \in Words /\ "read" \in Words
      /\ "push" \in Words /\ "MCB" \in Words
  BY DEF Words
<1>6. \A x \in Words :
        Runs(SetIndirectAccessPointer(x), g, g) /\ \A inc \in BOOLEAN : Runs(MCUPokeByte(x, inc), g, g)
  BY <1>4, <1>5 DEF SetIndirectAccessPointer, MCUPokeByte
<1>7. \A x \in Words : Runs(MCUPeekByte(x), g, g)
  <2> SUFFICES ASSUME NEW x \in Words PROVE Runs(MCUPeekByte(x), g, g)
    OBVIOUS
  <2>1. Runs(SendCommandToMCU("peek", x, FALSE), g, g) /\ Runs(<<Reply(x)>>, g, g)
    BY <1>2, <1>4, <1>5, ReplyRuns
  <2> QED
    BY <1>2, <2>1, OneAfterAnother DEF MCUPeekByte
<1>8. \A r, t : Runs(r, a, g) /\ Runs(t, g, g) => Runs(r \o t, a, g)
  BY <1>1, <1>2, OneAfterAnother
<1> DEFINE r1 == PrepareForMCUAccess \o SendCommandToMCU("read", "MCB", FALSE)
           r2 == r1 \o SetIndirectAccessPointer("cfg9")
           r3 == r2 \o MCUPeekByte("low")
           r4 == r3 \o MCUPokeByte("low", TRUE)
           r5 == r4 \o MCUPeekByte("high")
           r6 == r5 \o MCUPokeByte("high", FALSE)
           r7 == r6 \o SetIndirectAccessPointer("addr_vec")
           r8 == r7 \o MCUPokeByte("lanes", FALSE)
           r9 == r8 \o SendCommandToMCU("push", "MCB", FALSE)
<1>9. SetTapRoutine = r9 \o SelectMainPage
  BY Zenon DEF SetTapRoutine
<1> HIDE DEF r9
<1>10. Runs(r9, a, g)
  <2> USE DEF Words
  <2>1. Runs(r1, a, g)
    BY <1>2, <1>4, <1>8
  <2> HIDE DEF r1
  <2>2. Runs(r2, a, g)
    BY <1>6, <1>8, <2>1
  <2> HIDE DEF r2
  <2>3. Runs(r3, a, g)
    BY <1>7, <1>8, <2>2
  <2> HIDE DEF r3
  <2>4. Runs(r4, a, g)
    BY <1>6, <1>8, <2>3
  <2> HIDE DEF r4
  <2>5. Runs(r5, a, g)
    BY <1>7, <1>8, <2>4
  <2> HIDE DEF r5
  <2>6. Runs(r6, a, g)
    BY <1>6, <1>8, <2>5
  <2> HIDE DEF r6
  <2>7. Runs(r7, a, g)
    BY <1>6, <1>8, <2>6
  <2> HIDE DEF r7
  <2>8. Runs(r8, a, g)
    BY <1>6, <1>8, <2>7
  <2> HIDE DEF r8
  <2> QED
    BY <1>4, <1>8, <2>8 DEF r9
<1>11. Runs(SetTapRoutine, a, m)
  BY <1>1, <1>2, <1>3, <1>9, <1>10, OneAfterAnother
<1> QED
  BY <1>3, <1>11 DEF MainToMain, a

-----------------------------------------------------------------------------
LEMMA PhyInitInv == PhyInit => PhyInv
<1> SUFFICES ASSUME PhyInit PROVE PhyInv
  OBVIOUS
<1> DEFINE a == [page |-> AllMain, idle |-> FALSE]
<1>1. a \in Situation /\ Runs(<<>>, a, a)
  BY StartIsSituation, NothingRuns
<1>2. page \in [MdioPorts -> Pages] /\ busy \in BOOLEAN /\ todo = <<>> /\ a.page = page
  BY DEF PhyInit, Pages, AllMain
<1> QED
  BY <1>1, <1>2 DEF PhyInv

(* A routine that ran to its end has left the main page everywhere.        *)
LEMMA NothingLeft ==
  ASSUME PhyInv, todo = <<>>
  PROVE  page = AllMain
<1>1. PICK a, b \in Situation : Runs(<<>>, a, b) /\ a.page = page /\ b.page = AllMain
  BY DEF PhyInv
<1>2. a = b
  <2>1. Len(<<>>) = 0
    OBVIOUS
  <2> QED
    BY <1>1, <2>1 DEF Runs
<1> QED
  BY <1>1, <1>2

LEMMA CallKeepsInv ==
  ASSUME PhyInv, NEW r, MainToMain(r), Call(r)
  PROVE  PhyInv'
<1> DEFINE a == [page |-> AllMain, idle |-> FALSE]
<1>1. PICK b \in Situation : Runs(r, a, b) /\ b.page = AllMain
  BY DEF MainToMain
<1>2. a \in Situation /\ page = AllMain
  BY StartIsSituation, NothingLeft DEF Call
<1>3. todo' = r /\ page' = page /\ busy' = busy
  BY DEF Call, mcuVars
<1> QED
  BY <1>1, <1>2, <1>3 DEF PhyInv

LEMMA PhyNextInv == PhyInv /\ [PhyNext]_phyVars => PhyInv'
<1> SUFFICES ASSUME PhyInv, [PhyNext]_phyVars PROVE PhyInv'
  OBVIOUS
<1>1. CASE Init
  BY <1>1, InitRoutineRuns, CallKeepsInv DEF Init
<1>2. CASE ReadTemperature
  BY <1>2, TemperatureRoutineRuns, CallKeepsInv DEF ReadTemperature
<1>3. CASE \E t \in Taps : SetSerdes6GPostCursor0Tap(t)
  BY <1>3, TapRoutineRuns, CallKeepsInv DEF SetSerdes6GPostCursor0Tap
<1>4. CASE McuDone
  BY <1>4 DEF McuDone, PhyInv
<1>5. CASE UNCHANGED phyVars
  BY <1>5 DEF phyVars, PhyInv
<1>6. ASSUME todo # <<>>,
             SelectPage \/ AccessRegister \/ CheckRegister \/ SendCommand \/ WaitForMCU \/ ReadReply
      PROVE  PhyInv'
  <2>1. PICK a, b \in Situation :
          Runs(todo, a, b) /\ a.page = page /\ b.page = AllMain /\ (a.idle => ~busy)
    BY DEF PhyInv
  <2> DEFINE i == Head(todo)
             c == After(i, a)
  <2>2. /\ Fits(i, a) /\ i \in Instruction /\ c \in Situation
        /\ Runs(Tail(todo), c, b)
    BY <1>6, <2>1, FirstRuns, AfterIsSituation
  <2>3. page \in [MdioPorts -> Pages] /\ busy \in BOOLEAN
    BY DEF PhyInv
  <2> HIDE DEF c
  <2>4. ASSUME todo' = Tail(todo), page' = c.page, busy' \in BOOLEAN, c.idle => ~busy'
        PROVE  PhyInv'
    <3>1. page' \in [MdioPorts -> Pages]
      BY <2>2, <2>4 DEF Situation
    <3> QED
      BY <2>1, <2>2, <2>4, <3>1 DEF PhyInv
  <2>5. CASE SelectPage
    <3>1. page' = c.page /\ c.idle = a.idle
      BY <2>1, <2>2, <2>5 DEF SelectPage, Doing, After, c, Situation
    <3> QED
      BY <2>1, <2>3, <2>4, <2>5, <3>1 DEF SelectPage, mcuVars
  <2>6. CASE AccessRegister \/ ReadReply
    <3>1. page' = c.page /\ c.idle = a.idle /\ todo' = Tail(todo) /\ busy' = busy
      BY <2>1, <2>2, <2>6 DEF AccessRegister, ReadReply, Doing, After, c, Situation, mcuVars
    <3> QED
      BY <2>1, <2>3, <2>4, <3>1
  <2>7. CASE CheckRegister
    <3>1. page' = c.page /\ c.idle = a.idle /\ busy' = busy /\ page' = a.page /\ a.page = AllMain
      BY <2>1, <2>2, <2>7 DEF CheckRegister, Doing, Fits, After, c, Situation, mcuVars
    <3>2. CASE todo' = Tail(todo)
      BY <2>1, <2>3, <2>4, <3>1, <3>2
    <3>3. CASE todo' = <<>>
      <4>1. Runs(todo', a, a)
        BY <3>3, NothingRuns
      <4> QED
        BY <2>1, <2>3, <3>1, <4>1 DEF PhyInv
    <3> QED
      BY <2>7, <3>2, <3>3 DEF CheckRegister
  <2>8. CASE SendCommand
    <3>1. page' = c.page /\ c.idle = FALSE /\ todo' = Tail(todo) /\ busy' = TRUE
      BY <2>1, <2>2, <2>8 DEF SendCommand, Doing, After, c, Situation
    <3> QED
      BY <2>4, <3>1
  <2>9. CASE WaitForMCU
    <3>1. page' = c.page /\ todo' = Tail(todo) /\ busy' = busy /\ ~busy
      BY <2>1, <2>2, <2>9 DEF WaitForMCU, Doing, After, c, Situation, mcuVars
    <3> QED
      BY <2>3, <2>4, <3>1
  <2> QED
    BY <1>6, <2>5, <2>6, <2>7, <2>8, <2>9
<1> QED
  BY <1>1, <1>2, <1>3, <1>4, <1>5, <1>6
  DEF PhyNext, SelectPage, AccessRegister, CheckRegister, SendCommand, WaitForMCU, ReadReply, Doing

(* The driver reads and writes every register on its page, but for the LED *)
(* mode, which it always writes on the main page instead; it gives a       *)
(* command to an MCU that waits for one, and leaves the main page selected *)
(* whatever it was called for and wherever it gave up (RegistersOnPage).   *)
THEOREM RegistersAreOnPage == PhySpec => []RegistersOnPage
<1>1. PhyInv => RegistersOnPage
  <2> SUFFICES ASSUME PhyInv PROVE RegistersOnPage
    OBVIOUS
  <2>1. todo = <<>> => \A d \in MdioPorts : page[d] = "MAIN"
    BY NothingLeft DEF AllMain
  <2>2. ASSUME todo # <<>>
        PROVE  /\ Head(todo).op \notin {"select", "check"} => Selected = UsedPage(Head(todo))
               /\ Head(todo).op = "send" => ~busy
    <3>1. PICK a, b \in Situation :
            Runs(todo, a, b) /\ a.page = page /\ (a.idle => ~busy)
      BY DEF PhyInv
    <3>2. Fits(Head(todo), a) /\ Head(todo) \in Instruction
      BY <2>2, <3>1, FirstRuns
    <3>3. Head(todo).op \in {"select", "access", "wait", "check", "send", "reply"}
      BY <3>2 DEF Instruction
    <3> QED
      BY <3>1, <3>2, <3>3 DEF Fits, Selected
  <2> QED
    BY <2>1, <2>2 DEF RegistersOnPage, OnRegister, Doing
<1> QED
  BY PhyInitInv, PhyNextInv, <1>1, PTL DEF PhySpec

-----------------------------------------------------------------------------
(* The table of IPC channels and the start of the cores.                   *)

TableTypeOK ==
  /\ channels \in [ChannelIndex -> [name : Names \cup {NoName},
                                    fifos : SUBSET {"primary", "secondary"}]]
  /\ firstFree \in 0 .. NumChannels + 1 /\ filling \in 0 .. NumChannels
  /\ toAllocate \subseteq Names /\ initStage \in {0, 1}
  /\ at \in [Core -> {"reset", "init", "main"}]
  /\ logChannel \in [Core -> 0 .. NumChannels]

(* Once the primary core has cleared the table, channels below firstFree   *)
(* are whole, but for the one AllocateChannel() is at work on, and those   *)
(* above are clear; a name that has been asked for has a channel, unless   *)
(* the table ran full.                                                     *)
Begun(ch) == ch.fifos = {} \/ (ch.fifos = {"primary"} /\ ch.name # NoName)

ChannelsInv ==
  /\ firstFree = 0 => toAllocate = Names /\ filling = 0
  /\ filling # 0 => filling + 1 = firstFree /\ Begun(channels[filling])
  /\ firstFree > 0 =>
       \A i \in ChannelIndex :
         IF i < firstFree
         THEN i # filling => channels[i].name \in Names
                             /\ channels[i] = Whole(channels[i].name)
         ELSE channels[i] = Clear
  /\ firstFree <= NumChannels =>
       \A n \in Names \ toAllocate : \E i \in ChannelIndex : channels[i].name = n

(* The other CPU comes to a table nobody writes to any more; its core 1    *)
(* runs when core 0 has found both channels.                               *)
StartInv ==
  /\ started => toAllocate = {} /\ filling = 0
  /\ \A c \in Core : /\ at[c] # "reset" => started
                     /\ at[c] = "main" => initStage = 1
  /\ initStage = 1 => /\ at[0] # "reset"
                      /\ \A c \in Core : logChannel[c] = FindChannel(LogName[c])

TableInv == TableTypeOK /\ ChannelsInv /\ StartInv

LEMMA TableInitInv == TableInit => TableInv
<1> SUFFICES ASSUME TableInit PROVE TableInv
  OBVIOUS
<1>1. LogName[0] \in Names
  BY DEF Names, Core
<1>2. channels \in [ChannelIndex -> [name : Names \cup {NoName},
                                     fifos : SUBSET {"primary", "secondary"}]]
  <2>1. PICK ch \in {Clear, Whole(LogName[0])} : channels = [i \in ChannelIndex |-> ch]
    BY DEF TableInit
  <2>2. ch \in [name : Names \cup {NoName}, fifos : SUBSET {"primary", "secondary"}]
    BY <1>1 DEF Clear, Whole
  <2> QED
    BY <2>1, <2>2
<1> QED
  BY <1>2, TableAssumption
     DEF TableInit, TableInv, TableTypeOK, ChannelsInv, StartInv, Core

(* FindChannel() finds a channel of the name, or there is none.            *)
LEMMA ChannelFound ==
  ASSUME NEW n
  PROVE  IF \E i \in ChannelIndex : channels[i].name = n
         THEN /\ FindChannel(n) \in ChannelIndex /\ FindChannel(n) # 0
              /\ channels[FindChannel(n)].name = n
         ELSE FindChannel(n) = 0
<1> DEFINE found == {i \in ChannelIndex : channels[i].name = n}
<1>1. found \subseteq ChannelIndex /\ ChannelIndex \subseteq Nat /\ 0 \notin ChannelIndex
  BY DEF ChannelIndex
<1>2. CASE found = {}
  BY <1>2 DEF FindChannel
<1>3. CASE found # {}
  <2>1. Min(found) \in found
    BY <1>1, <1>3, LeastNumber
  <2> QED
    BY <1>1, <1>3, <2>1 DEF FindChannel
<1> QED
  BY <1>2, <1>3

(* The steps of the primary core.                                          *)
LEMMA PrimaryKeepsInv ==
  ASSUME TableInv, Construct \/ AllocateChannel \/ SetName \/ InitializeFifo
  PROVE  TableInv'
<1> USE TableAssumption DEF TableInv, TableTypeOK
<1>1. ~started /\ UNCHANGED secondaryVars
  BY DEF Construct, AllocateChannel, SetName, InitializeFifo, ChannelsInv, StartInv,
         Names, Core
<1>2. StartInv' /\ UNCHANGED <<initStage, at, logChannel>>
  <2>1. UNCHANGED <<started, initStage, at, logChannel>>
    BY <1>1 DEF secondaryVars
  <2>2. initStage # 1
    BY <1>1 DEF StartInv, Core
  <2> QED
    BY <1>1, <2>1, <2>2 DEF StartInv
<1>3. CASE Construct
  BY <1>2, <1>3 DEF Construct, ChannelsInv, Clear, ChannelIndex
<1>4. CASE AllocateChannel
  <2>1. CASE firstFree > NumChannels
    BY <1>2, <1>4, <2>1 DEF AllocateChannel, ChannelsInv
  <2>2. CASE firstFree <= NumChannels
    <3>1. /\ filling' = firstFree /\ firstFree' = firstFree + 1
          /\ UNCHANGED <<toAllocate, channels>> /\ firstFree > 0 /\ filling = 0
      BY <1>4, <2>2 DEF AllocateChannel
    <3>2. TableTypeOK'
      BY <1>2, <2>2, <3>1
    <3>3. channels[firstFree] = Clear
      BY <2>2, <3>1 DEF ChannelsInv, ChannelIndex
    <3>4. ChannelsInv'
      BY <2>2, <3>1, <3>3 DEF ChannelsInv, ChannelIndex, Begun, Clear
    <3> QED
      BY <1>2, <3>2, <3>4
  <2> QED
    BY <2>1, <2>2
<1>5. CASE SetName
  <2>1. PICK n \in toAllocate :
          /\ channels' = [channels EXCEPT ![filling].name = n]
          /\ toAllocate' = toAllocate \ {n}
    BY <1>5 DEF SetName
  <2>2. /\ filling \in ChannelIndex /\ channels[filling].name = NoName
        /\ UNCHANGED <<firstFree, filling>> /\ filling + 1 = firstFree
    BY <1>5 DEF SetName, ChannelIndex, ChannelsInv
  <2>3. channels[filling].fifos = {}
    BY <2>2 DEF ChannelsInv, Begun, ChannelIndex
  <2>4. /\ channels' \in [ChannelIndex -> [name : Names \cup {NoName},
                                          fifos : SUBSET {"primary", "secondary"}]]
        /\ channels'[filling].name = n /\ channels'[filling].fifos = {}
    BY <2>1, <2>2, <2>3
  <2>5. TableTypeOK'
    BY <1>2, <2>1, <2>2, <2>4
  <2>6. Begun(channels'[filling])
    BY <2>4 DEF Begun
  <2>7. \A i \in ChannelIndex : i # filling => channels'[i] = channels[i]
    BY <2>1, <2>2
  <2>8. channels'[filling].name = n
    BY <2>4
  <2>9. \A m \in Names \ toAllocate' :
          (\E i \in ChannelIndex : channels[i].name = m)
            => \E i \in ChannelIndex : channels'[i].name = m
    BY <2>2, <2>7, TableAssumption DEF Names, Core
  <2>10. firstFree' <= NumChannels =>
           \A m \in Names \ toAllocate' : \E i \in ChannelIndex : channels'[i].name = m
    BY <2>1, <2>2, <2>8, <2>9 DEF ChannelsInv
  <2>11. ChannelsInv'
    BY <2>2, <2>6, <2>7, <2>10 DEF ChannelsInv, ChannelIndex
  <2> QED
    BY <1>2, <2>5, <2>11
<1>6. CASE InitializeFifo
  <2> DEFINE fifo == IF channels[filling].fifos = {} THEN "primary" ELSE "secondary"
  <2>1. /\ filling \in ChannelIndex /\ channels[filling].name # NoName
        /\ channels' = [channels EXCEPT ![filling].fifos = @ \cup {fifo}]
        /\ filling' = IF fifo = "primary" THEN filling ELSE 0
        /\ UNCHANGED <<firstFree, toAllocate>> /\ filling + 1 = firstFree
    BY <1>6 DEF InitializeFifo, ChannelIndex, ChannelsInv
  <2> DEFINE n == channels[filling].name
  <2>2. /\ n \in Names
        /\ channels[filling].fifos = {} \/ channels[filling].fifos = {"primary"}
    BY <2>1 DEF ChannelsInv, Begun, ChannelIndex
  <2>3. /\ channels' \in [ChannelIndex -> [name : Names \cup {NoName},
                                          fifos : SUBSET {"primary", "secondary"}]]
        /\ channels'[filling].name = n
        /\ channels'[filling].fifos = IF fifo = "primary" THEN {"primary"}
                                      ELSE {"primary", "secondary"}
        /\ \A i \in ChannelIndex : i # filling => channels'[i] = channels[i]
    BY <2>1, <2>2
  <2>4. TableTypeOK'
    BY <1>2, <2>1, <2>3
  <2>5. \A i \in ChannelIndex : channels'[i].name = channels[i].name
    BY <2>3
  <2>6. CASE fifo = "primary"
    <3>1. filling' = filling /\ Begun(channels'[filling])
      BY <2>1, <2>2, <2>3, <2>6 DEF Begun
    <3> QED
      BY <1>2, <2>1, <2>3, <2>4, <2>5, <3>1 DEF ChannelsInv, ChannelIndex
  <2>7. CASE fifo # "primary"
    <3>1. filling' = 0 /\ channels'[filling] = Whole(n)
      BY <2>1, <2>3, <2>7 DEF Whole
    <3>2. channels'[filling].name \in Names
          /\ channels'[filling] = Whole(channels'[filling].name)
      BY <2>2, <2>3, <3>1
    <3>3. \A i \in ChannelIndex :
            IF i < firstFree
            THEN channels'[i].name \in Names /\ channels'[i] = Whole(channels'[i].name)
            ELSE channels'[i] = Clear
      BY <2>1, <2>3, <3>2 DEF ChannelsInv, ChannelIndex
    <3>4. ChannelsInv'
      BY <2>1, <2>5, <3>1, <3>3 DEF ChannelsInv, ChannelIndex
    <3> QED
      BY <1>2, <2>4, <3>4
  <2> QED
    BY <2>6, <2>7
<1> QED
  BY <1>3, <1>4, <1>5, <1>6

(* The steps that start and make up the secondary CPU.                     *)
LEMMA SecondaryKeepsInv ==
  ASSUME TableInv,
         \/ StartSecondary \/ Core0Construct \/ Core0Init \/ Core0Main \/ Core1Wait
         \/ CoreMain \/ UNCHANGED tableVars
  PROVE  TableInv'
<1> USE TableAssumption DEF TableInv, TableTypeOK, Core
<1>1. UNCHANGED <<channels, firstFree, filling, toAllocate>>
  BY DEF StartSecondary, Core0Construct, SecondaryConstruct, Core0Init, Core0Main,
         Core1Wait, CoreMain, tableVars
<1>2. ChannelsInv' /\ \A n : FindChannel(n)' = FindChannel(n)
  BY <1>1 DEF ChannelsInv, FindChannel
<1>3. CASE StartSecondary
  BY <1>2, <1>3 DEF StartSecondary, StartInv, FindChannel
<1>4. CASE Core0Construct
  <2>1. initStage = 0
    BY <1>4 DEF Core0Construct, StartInv
  <2> QED
    BY <1>1, <1>2, <1>4, <2>1 DEF Core0Construct, StartInv
<1>5. CASE Core0Init
  <2>1. \A n : FindChannel(n) \in 0 .. NumChannels
    BY ChannelFound DEF ChannelIndex
  <2> QED
    BY <1>1, <1>2, <1>5, <2>1 DEF Core0Init, StartInv
<1>6. CASE Core0Main
  BY <1>1, <1>2, <1>6 DEF Core0Main, StartInv
<1>7. CASE Core1Wait
  BY <1>1, <1>2, <1>7 DEF Core1Wait, StartInv
<1>8. CASE UNCHANGED tableVars
  BY <1>2, <1>8 DEF tableVars, StartInv
<1> QED
  BY <1>3, <1>4, <1>5, <1>6, <1>7, <1>8 DEF CoreMain

THEOREM TableInvariance == TableSpec => []TableInv
<1>1. TableInv /\ [TableNext]_tableVars => TableInv'
  BY PrimaryKeepsInv, SecondaryKeepsInv DEF TableNext
<1> QED
  BY TableInitInv, <1>1, PTL DEF TableSpec

(* A secondary core that runs its tasks has the channel of its own name,   *)
(* with both FIFOs set up, or the table was too small (LogChannelsWhole):  *)
(* for any number of channels and any other names in the table.            *)
THEOREM LogChannelsAreWhole == TableSpec => []LogChannelsWhole
<1>1. ASSUME TableInv, NEW c \in Core, at[c] = "main"
      PROVE  IF logChannel[c] = 0
             THEN \A i \in ChannelIndex : channels[i].name \in Names \ {LogName[c]}
             ELSE channels[logChannel[c]] = Whole(LogName[c])
  <2> DEFINE n == LogName[c]
  <2> USE TableAssumption DEF TableInv, TableTypeOK
  <2>1. /\ toAllocate = {} /\ filling = 0 /\ n \in Names /\ n # NoName
        /\ logChannel[c] = FindChannel(n)
    BY <1>1 DEF StartInv, Names, Core
  <2>2. firstFree > 0
    BY <1>1, <2>1 DEF ChannelsInv
  <2>3. CASE \E i \in ChannelIndex : channels[i].name = n
    <3>1. /\ logChannel[c] \in ChannelIndex /\ logChannel[c] # 0
          /\ channels[logChannel[c]].name = n
      BY <2>1, <2>3, ChannelFound
    <3> QED
      BY <1>1, <2>1, <2>2, <3>1 DEF ChannelsInv, ChannelIndex, Clear
  <2>4. CASE ~ \E i \in ChannelIndex : channels[i].name = n
    <3>1. logChannel[c] = 0
      BY <2>1, <2>4, ChannelFound
    <3>2. firstFree = NumChannels + 1
      BY <1>1, <2>1, <2>4 DEF ChannelsInv
    <3>3. \A i \in ChannelIndex : channels[i].name \in Names
      BY <1>1, <2>1, <3>2 DEF ChannelsInv, ChannelIndex
    <3> QED
      BY <2>4, <3>1, <3>3
  <2> QED
    BY <2>3, <2>4
<1>2. TableInv => LogChannelsWhole
  BY <1>1 DEF LogChannelsWhole
<1> QED
  BY TableInvariance, <1>2, PTL

-----------------------------------------------------------------------------
(* Definitions by recursion from each number to the next.                  *)

(* The functions that go from each number to the next by a step; there is  *)
(* one.                                                                    *)
Iterated(n, T, base, step) ==
  {f \in [0 .. n -> T] : f[0] = base /\ \A i \in 1 .. n : f[i] = step[i][f[i - 1]]}

(* There is such a function: what recursion defines has its steps.         *)
LEMMA Recursion ==
  ASSUME NEW n \in Nat, NEW T, NEW base \in T, NEW step \in [1 .. n -> [T -> T]]
  PROVE  Iterated(n, T, base, step) # {}
<1> DEFINE S == {k \in 0 .. n : Iterated(k, T, base, step) # {}}
<1>1. 0 \in S
  <2> DEFINE f == [i \in 0 .. 0 |-> base]
  <2>1. f \in [0 .. 0 -> T] /\ f[0] = base /\ 1 .. 0 = {}
    OBVIOUS
  <2>2. f \in Iterated(0, T, base, step)
    <3> HIDE DEF f
    <3> QED
      BY <2>1 DEF Iterated
  <2> HIDE DEF f
  <2> QED
    BY <2>2
<1>2. ASSUME NEW k \in 0 .. n, k # 0, k - 1 \in S PROVE k \in S
  <2> k \in 1 .. n
    BY <1>2
  <2>1. PICK f \in [0 .. k - 1 -> T] :
          f[0] = base /\ \A i \in 1 .. k - 1 : f[i] = step[i][f[i - 1]]
    BY <1>2 DEF Iterated
  <2> DEFINE g == [i \in 0 .. k |-> IF i = k THEN step[k][f[k - 1]] ELSE f[i]]
  <2>2. step[k][f[k - 1]] \in T
    OBVIOUS
  <2>3. g \in [0 .. k -> T]
    BY <2>2
  <2>4. g[0] = base /\ \A i \in 1 .. k : g[i] = step[i][g[i - 1]]
    <3>1. /\ 0 \in 0 .. k /\ 0 # k /\ 0 \in 0 .. k - 1
          /\ k \in 0 .. k /\ k - 1 \in 0 .. k /\ k - 1 # k
          /\ \A i \in 1 .. k : i \in 1 .. k - 1 \/ i = k
          /\ \A i \in 1 .. k - 1 : i \in 0 .. k /\ i - 1 \in 0 .. k /\ i # k /\ i - 1 # k
      OBVIOUS
    <3>2. /\ g[0] = f[0] /\ g[k] = step[k][f[k - 1]] /\ g[k - 1] = f[k - 1]
          /\ \A i \in 1 .. k - 1 : g[i] = f[i] /\ g[i - 1] = f[i - 1]
      BY <3>1, Zenon
    <3> HIDE DEF g
    <3>3. ASSUME NEW i \in 1 .. k - 1 PROVE g[i] = step[i][g[i - 1]]
      <4>1. g[i] = f[i] /\ g[i - 1] = f[i - 1] /\ f[i] = step[i][f[i - 1]]
        BY <2>1, <3>2
      <4> QED
        BY <4>1, Zenon
    <3>4. g[k] = step[k][g[k - 1]]
      BY <3>2, Zenon
    <3>5. g[0] = base
      BY <2>1, <3>2
    <3>6. ASSUME NEW i \in 1 .. k PROVE g[i] = step[i][g[i - 1]]
      <4>1. i \in 1 .. k - 1 \/ i = k
        BY <3>1
      <4> QED
        BY <3>3, <3>4, <4>1, Zenon
    <3> QED
      BY <3>5, <3>6, Zenon
  <2>5. g \in Iterated(k, T, base, step)
    <3> HIDE DEF g
    <3> QED
      BY <2>3, <2>4, Zenon DEF Iterated
  <2>6. Iterated(k, T, base, step) # {} /\ k \in 0 .. n
    <3> HIDE DEF g
    <3> QED
      BY <2>5
  <2> QED
    BY <2>6
<1>3. n \in S
  <2> HIDE DEF S
  <2>1. 0 .. n \subseteq S
    BY <1>1, <1>2, Induction
  <2> QED
    BY <2>1
<1> QED
  BY <1>3

(* An address is as wide as its octets, and each lies within it.           *)
LEMMA Sizes ==
  /\ Octets \in Nat \ {0} /\ Bits \in Nat \ {0} /\ Word \in Nat \ {0}
  /\ Width \in Nat /\ Bits <= Width
  /\ \A i \in Octet : i \in Nat /\ i * Bits \in Nat /\ i * Bits <= Width
                      /\ Width - i * Bits \in 0 .. Width
                      /\ (Width - i * Bits) + Bits \in 0 .. Width
                      /\ (i - 1) * Bits = i * Bits - Bits
<1>1. Octets \in Nat \ {0} /\ Bits \in Nat \ {0} /\ Word \in Nat \ {0}
  BY AddressAssumption
<1>2. Width \in Nat /\ Bits <= Width
  BY <1>1 DEF Width
<1>3. ASSUME NEW i \in Octet
      PROVE  /\ i \in Nat /\ i * Bits \in Nat /\ i * Bits <= Width /\ i * Bits >= Bits
             /\ (i - 1) * Bits = i * Bits - Bits
  BY <1>1 DEF Octet, Width
<1> QED
  BY <1>1, <1>2, <1>3

(* Powers of two.                                                          *)
LEMMA PowerStep ==
  /\ Pow2[0] = 1
  /\ \A n \in 1 .. Width : Pow2[n] = 2 * Pow2[n - 1]
<1> DEFINE Def(f) == f = [n \in 0 .. Width |-> IF n = 0 THEN 1 ELSE 2 * f[n - 1]]
           step == [n \in 1 .. Width |-> [v \in Nat |-> 2 * v]]
<1>1. Width \in Nat
  BY Sizes
<1>2. step \in [1 .. Width -> [Nat -> Nat]]
  OBVIOUS
<1>3. \A n \in 1 .. Width : \A v \in Nat : step[n][v] = 2 * v
  OBVIOUS
<1> HIDE DEF step
<1>4. PICK f \in [0 .. Width -> Nat] :
        f[0] = 1 /\ \A n \in 1 .. Width : f[n] = step[n][f[n - 1]]
  <2>1. Iterated(Width, Nat, 1, step) # {}
    BY <1>1, <1>2, Recursion
  <2> QED
    BY <2>1 DEF Iterated
<1>5. Def(f)
  <2>1. \A n \in 0 .. Width : f[n] = IF n = 0 THEN 1 ELSE 2 * f[n - 1]
    <3>1. \A n \in 1 .. Width : n - 1 \in 0 .. Width
      BY <1>1
    <3>2. \A n \in 1 .. Width : f[n] = 2 * f[n - 1]
      BY <1>3, <1>4, <3>1, Zenon
    <3>3. \A n \in 0 .. Width : n = 0 \/ n \in 1 .. Width
      BY <1>1
    <3>4. \A n \in 1 .. Width : n # 0
      OBVIOUS
    <3> QED
      BY <1>4, <3>2, <3>3, <3>4, Zenon
  <2>2. f = [n \in 0 .. Width |-> f[n]]
    OBVIOUS
  <2> QED
    BY <2>1, <2>2, Zenon
<1>6. Def(Pow2)
  <2>1. Pow2 = CHOOSE g : Def(g)
    BY DEF Pow2
  <2> HIDE DEF Def
  <2> QED
    BY <1>5, <2>1
<1>7. \A n \in 0 .. Width : Pow2[n] = IF n = 0 THEN 1 ELSE 2 * Pow2[n - 1]
  BY <1>6, Zenon
<1>8. 0 \in 0 .. Width /\ \A n \in 1 .. Width : n \in 0 .. Width /\ n # 0
  BY <1>1
<1> QED
  BY <1>7, <1>8, Zenon

LEMMA PowerType ==
  ASSUME NEW n \in 0 .. Width
  PROVE  Pow2[n] \in Nat \ {0}
<1> DEFINE S == {k \in 0 .. Width : Pow2[k] \in Nat \ {0}}
<1>1. Width \in Nat /\ 0 \in S
  BY Sizes, PowerStep
<1>2. \A k \in 1 .. Width : k - 1 \in S => k \in S
  BY <1>1, PowerStep
<1>3. 0 .. Width \subseteq S
  <2> HIDE DEF S
  <2> QED
    BY <1>1, <1>2, Induction
<1> QED
  BY <1>3

(* The power of a sum is the product of the powers.                        *)
LEMMA PowerOfSum ==
  ASSUME NEW a \in Nat, NEW b \in Nat, a + b <= Width
  PROVE  Pow2[a + b] = Pow2[a] * Pow2[b]
<1> DEFINE S == {k \in 0 .. b : Pow2[a + k] = Pow2[a] * Pow2[k]}
<1>1. Width \in Nat /\ a \in 0 .. Width
  BY Sizes
<1>2. 0 \in S
  BY <1>1, PowerStep, PowerType
<1>3. ASSUME NEW k \in 1 .. b, k - 1 \in S PROVE k \in S
  <2>1. /\ k \in 1 .. Width /\ a + k \in 1 .. Width /\ (a + k) - 1 = a + (k - 1)
        /\ k - 1 \in 0 .. Width
    BY <1>1
  <2>2. Pow2[k] = 2 * Pow2[k - 1] /\ Pow2[a + k] = 2 * Pow2[a + (k - 1)]
    BY <2>1, PowerStep
  <2>3. Pow2[a + (k - 1)] = Pow2[a] * Pow2[k - 1]
    BY <1>3
  <2>4. Pow2[a] \in Nat /\ Pow2[k - 1] \in Nat
    BY <1>1, <2>1, PowerType
  <2>5. 2 * (Pow2[a] * Pow2[k - 1]) = Pow2[a] * (2 * Pow2[k - 1])
    BY <2>4
  <2> QED
    BY <2>2, <2>3, <2>5
<1>4. b \in S
  <2> HIDE DEF S
  <2>1. 0 .. b \subseteq S
    BY <1>2, <1>3, Induction
  <2> QED
    BY <2>1
<1> QED
  BY <1>4

-----------------------------------------------------------------------------
(* Arithmetic of masks: remainders, and the last number of a block.        *)

(* Remainders.                                                             *)
LEMMA RemainderType ==
  ASSUME NEW v \in Nat, NEW d \in Nat \ {0}
  PROVE  v \div d \in Nat /\ v % d \in 0 .. d - 1
OBVIOUS

LEMMA Remainder ==
  ASSUME NEW v \in Nat, NEW d \in Nat \ {0}
  PROVE  v = d * (v \div d) + (v % d)
OBVIOUS

(* There is no other quotient and remainder.                               *)
LEMMA RemainderIs ==
  ASSUME NEW q \in Nat, NEW d \in Nat \ {0}, NEW r \in 0 .. d - 1
  PROVE  (d * q + r) \div d = q /\ (d * q + r) % d = r
OBVIOUS

(* One digit of a number: what the remainders by two powers differ in.     *)
LEMMA Slice ==
  ASSUME NEW v \in Nat, NEW p \in Nat \ {0}, NEW q \in Nat \ {0},
         NEW t, t = p * q
  PROVE  /\ p * ((v \div p) % q) = (v % t) - (v % p)
         /\ (v % t) % p = v % p
<1> DEFINE a == v \div p
           r == v % p
           e == a \div q
           s == a % q
<1>1. a \in Nat /\ r \in 0 .. p - 1 /\ v = p * a + r
  BY Remainder, RemainderType
<1>2. e \in Nat /\ s \in 0 .. q - 1 /\ a = q * e + s
  BY <1>1, Remainder, RemainderType
<1> HIDE DEF a, r, e, s
<1>3. t \in Nat \ {0}
  OBVIOUS
<1>4. v = t * e + (p * s + r)
  BY <1>1, <1>2
<1>5. p * s + r \in 0 .. t - 1
  <2>1. s \in Nat /\ r \in Nat /\ p * s \in Nat /\ p * s + r \in Nat
    BY <1>1, <1>2
  <2>2. p * s <= p * (q - 1)
    BY <1>2
  <2>3. p * (q - 1) = p * q - p
    OBVIOUS
  <2> QED
    BY <1>1, <2>1, <2>2, <2>3
<1>6. v % t = p * s + r
  BY <1>2, <1>3, <1>4, <1>5, RemainderIs
<1>7. (p * s + r) % p = r
  BY <1>1, <1>2, RemainderIs
<1>8. p * s = (v % t) - r
  <2>1. p * s \in Int /\ r \in Int
    BY <1>1, <1>2
  <2> QED
    BY <1>6, <2>1
<1>9. (v % t) % p = r
  BY <1>6, <1>7
<1> QED
  BY <1>8, <1>9 DEF a, r, s

LEMMA SliceLow ==
  ASSUME NEW v \in Nat, NEW p \in Nat \ {0}, NEW q \in Nat \ {0}
  PROVE  (v % (p * q)) % p = v % p
<1> DEFINE t == p * q
           w == v % t
           e == v \div t
           a == w \div p
           r == w % p
<1>1. t \in Nat \ {0} /\ t = p * q
  OBVIOUS
<1> HIDE DEF t
<1>2. v = t * e + w /\ e \in Nat /\ w \in Nat
  <2>1. e \in Nat /\ w \in 0 .. t - 1
    BY <1>1, RemainderType
  <2>2. v = t * e + w
    BY <1>1, Remainder
  <2> QED
    BY <1>1, <2>1, <2>2
<1> HIDE DEF w, e
<1>3. w = p * a + r /\ a \in Nat /\ r \in 0 .. p - 1
  BY <1>2, Remainder, RemainderType
<1> HIDE DEF a, r
<1>4. v = p * (q * e + a) + r /\ q * e + a \in Nat
  BY <1>1, <1>2, <1>3
<1>5. v % p = r
  BY <1>3, <1>4, RemainderIs
<1> QED
  BY <1>5 DEF r, w, t

LEMMA Cancel ==
  ASSUME NEW p \in Nat \ {0}, NEW x \in Int, NEW y \in Int, p * x = p * y
  PROVE  x = y
OBVIOUS

(* The last of the powers is the largest.                                  *)
LEMMA PowerDifference ==
  ASSUME NEW a \in 0 .. Width, NEW b \in a .. Width
  PROVE  /\ Pow2[a] \in Nat \ {0} /\ Pow2[b] \in Nat \ {0} /\ Pow2[b - a] \in Nat \ {0}
         /\ Pow2[b] = Pow2[a] * Pow2[b - a] /\ Pow2[a] <= Pow2[b]
<1>1. /\ Width \in Nat /\ b - a \in 0 .. Width /\ b \in 0 .. Width
      /\ a \in Nat /\ b - a \in Nat /\ a + (b - a) = b /\ a + (b - a) <= Width
  BY Sizes
<1>2. Pow2[a] \in Nat \ {0} /\ Pow2[b] \in Nat \ {0} /\ Pow2[b - a] \in Nat \ {0}
  BY <1>1, PowerType
<1>3. Pow2[b] = Pow2[a] * Pow2[b - a]
  BY <1>1, PowerOfSum
<1>4. ASSUME NEW x \in Nat \ {0}, NEW y \in Nat \ {0} PROVE x <= x * y
  OBVIOUS
<1> QED
  BY <1>2, <1>3, <1>4

(* The low bits of a network mask, and of a broadcast address.             *)
LEMMA NetmaskLow ==
  ASSUME NEW h \in 0 .. Width, NEW m \in 0 .. Width
  PROVE  /\ Pow2[Width] - Pow2[h] \in Nat
         /\ (Pow2[Width] - Pow2[h]) % Pow2[m] = IF m <= h THEN 0 ELSE Pow2[m] - Pow2[h]
<1> DEFINE v == Pow2[Width] - Pow2[h]
<1>1. Width \in Nat /\ Width \in h .. Width /\ Width \in m .. Width
  BY Sizes
<1>2. Pow2[Width] \in Nat /\ Pow2[h] \in Nat \ {0} /\ Pow2[h] <= Pow2[Width]
  BY <1>1, PowerDifference
<1>3. v \in Nat
  BY <1>2
<1>4. /\ Pow2[m] \in Nat \ {0} /\ Pow2[Width - m] \in Nat \ {0}
      /\ Pow2[Width] = Pow2[m] * Pow2[Width - m]
  BY <1>1, PowerDifference
<1>5. CASE m <= h
  <2>1. h \in m .. Width
    BY <1>5, <1>1
  <2>2. Pow2[h - m] \in Nat \ {0} /\ Pow2[h] = Pow2[m] * Pow2[h - m]
    BY <2>1, PowerDifference
  <2>3. Pow2[m] * (Pow2[Width - m] - Pow2[h - m]) = v
    BY <1>4, <2>2
  <2>4. Pow2[Width - m] - Pow2[h - m] \in Nat
    <3>1. ASSUME NEW p \in Nat \ {0}, NEW x \in Int, p * x \in Nat PROVE x \in Nat
      BY <3>1
    <3>2. Pow2[Width - m] - Pow2[h - m] \in Int
      BY <1>4, <2>2
    <3> HIDE DEF v
    <3> QED
      BY <1>3, <1>4, <2>3, <3>1, <3>2
  <2>5. \A p \in Nat \ {0} : \A x \in Nat : (p * x) % p = 0
    OBVIOUS
  <2>6. v % Pow2[m] = 0
    <3> HIDE DEF v
    <3> QED
      BY <1>4, <2>3, <2>4, <2>5
  <2> QED
    BY <1>3, <1>5, <2>6
<1>6. CASE ~(m <= h)
  <2>1. m - 1 \in h .. Width /\ m \in h .. Width /\ m \in 1 .. Width /\ m - 1 \in 0 .. Width
    BY <1>1, <1>6
  <2>2. Pow2[h] <= Pow2[m - 1] /\ Pow2[m] = 2 * Pow2[m - 1] /\ Pow2[m - 1] \in Nat \ {0}
    BY <2>1, PowerDifference, PowerStep
  <2>3. Pow2[m] - Pow2[h] \in 0 .. Pow2[m] - 1
    BY <1>2, <1>4, <2>2
  <2>4. v = Pow2[m] * (Pow2[Width - m] - 1) + (Pow2[m] - Pow2[h])
    <3>1. \A p, x \in Nat \ {0} : p * (x - 1) = p * x - p
      OBVIOUS
    <3> QED
      BY <1>2, <1>4, <3>1
  <2>5. Pow2[Width - m] - 1 \in Nat
    BY <1>4
  <2>6. v % Pow2[m] = Pow2[m] - Pow2[h]
    <3> HIDE DEF v
    <3> QED
      BY <1>4, <2>3, <2>4, <2>5, RemainderIs
  <2> QED
    BY <1>3, <1>6, <2>6
<1> QED
  BY <1>5, <1>6

(* The last number of a block of d, as a broadcast address is: its         *)
(* remainder by what d is a multiple of, and by a multiple of d.           *)
LEMMA LastLow ==
  ASSUME NEW v \in Nat, NEW p \in Nat \ {0}, NEW k \in Nat \ {0},
         NEW d \in Nat \ {0}, d = p * k
  PROVE  /\ (v \div d) * d + d - 1 \in Nat
         /\ ((v \div d) * d + d - 1) % p = p - 1
<1> DEFINE e == v \div d
           last == e * d + d - 1
<1>1. e \in Nat
  BY RemainderType
<1> HIDE DEF e
<1>2. last \in Nat
  <2>1. e * d \in Nat
    BY <1>1
  <2> QED
    BY <2>1
<1>3. k * (e + 1) \in Nat \ {0} /\ k * (e + 1) - 1 \in Nat
  <2>1. k * (e + 1) \in Nat \ {0}
    BY <1>1
  <2> QED
    BY <2>1
<1>4. p * (k * (e + 1)) = e * d + d /\ e * d \in Nat
  BY <1>1
<1>5. p * (k * (e + 1) - 1) = p * (k * (e + 1)) - p
  <2>1. \A x \in Nat \ {0} : p * (x - 1) = p * x - p
    OBVIOUS
  <2> QED
    BY <1>3, <2>1
<1>6. last = p * (k * (e + 1) - 1) + (p - 1)
  BY <1>4, <1>5
<1> HIDE DEF last
<1>7. last % p = p - 1
  <2> DEFINE q == k * (e + 1) - 1
             r == p - 1
  <2>1. q \in Nat /\ r \in 0 .. p - 1 /\ last = p * q + r
    BY <1>3, <1>6
  <2> HIDE DEF q, r
  <2>2. last % p = r
    BY <2>1, RemainderIs
  <2> QED
    BY <2>2 DEF r
<1> QED
  BY <1>2, <1>7 DEF e, last

LEMMA LastHigh ==
  ASSUME NEW v \in Nat, NEW d \in Nat \ {0}, NEW k \in Nat \ {0},
         NEW t \in Nat \ {0}, t = d * k
  PROVE  ((v \div d) * d + d - 1) % t = (v % t) - (v % d) + d - 1
<1> DEFINE e == v \div d
           last == e * d + d - 1
           a == e \div k
           s == e % k
           r == d * s + d - 1
<1>1. e \in Nat /\ (v % t) \in Int /\ (v % d) \in Int
  BY RemainderType
<1>2. d * s = (v % t) - (v % d)
  BY Slice
<1> HIDE DEF e
<1>3. a \in Nat /\ s \in 0 .. k - 1 /\ e = k * a + s
  BY <1>1, Remainder, RemainderType
<1> HIDE DEF a, s
<1>4. d * s \in Nat /\ d * s <= t - d
  <2>1. \A x \in Nat \ {0} : \A y \in Nat : \A z \in 0 .. y - 1 :
          x * z \in Nat /\ x * z <= x * (y - 1) /\ x * (y - 1) = x * y - x
    OBVIOUS
  <2> QED
    BY <1>3, <2>1
<1>5. last = t * a + r
  <2>1. e * d = t * a + d * s
    BY <1>3
  <2>2. t * a \in Nat /\ e * d \in Nat
    BY <1>1, <1>3
  <2> QED
    BY <1>4, <2>1, <2>2
<1>6. r \in 0 .. t - 1
  BY <1>4
<1>7. last % t = r
  <2> HIDE DEF last, r
  <2> QED
    BY <1>3, <1>5, <1>6, RemainderIs
<1> HIDE DEF last
<1>8. r = (v % t) - (v % d) + d - 1
  BY <1>1, <1>2
<1> QED
  BY <1>7, <1>8 DEF e, last

(* The low bits of the last address of a network.                          *)
LEMMA BroadcastLow ==
  ASSUME NEW v \in Nat, NEW h \in 0 .. Width, NEW m \in 0 .. Width
  PROVE  LET last == (v \div Pow2[h]) * Pow2[h] + Pow2[h] - 1 IN
         /\ last \in Nat
         /\ m <= h => last % Pow2[m] = Pow2[m] - 1
         /\ h <= m => last % Pow2[m] = (v % Pow2[m]) - (v % Pow2[h]) + Pow2[h] - 1
<1> DEFINE d == Pow2[h]
           t == Pow2[m]
           last == (v \div d) * d + d - 1
<1>1. Width \in Nat /\ d \in Nat \ {0} /\ t \in Nat \ {0} /\ d = d * 1
  BY Sizes, PowerType
<1>2. ASSUME m <= h
      PROVE  \E k \in Nat \ {0} : d = t * k
  <2>1. h \in m .. Width
    BY <1>1, <1>2
  <2> QED
    BY <2>1, PowerDifference
<1>3. ASSUME h <= m
      PROVE  \E k \in Nat \ {0} : t = d * k
  <2>1. m \in h .. Width
    BY <1>1, <1>3
  <2> QED
    BY <2>1, PowerDifference
<1> HIDE DEF d, t
<1>4. last \in Nat
  <2>1. 1 \in Nat \ {0} /\ d = 1 * d
    BY <1>1
  <2> QED
    BY <1>1, <2>1, LastLow
<1>5. m <= h => last % t = t - 1
  BY <1>1, <1>2, LastLow
<1>6. h <= m => last % t = (v % t) - (v % d) + d - 1
  BY <1>1, <1>3, LastHigh
<1> QED
  BY <1>4, <1>5, <1>6 DEF d, t

-----------------------------------------------------------------------------
(* The octets of a mask and of a broadcast address.                        *)

(* An octet of a number, and what of a prefix's host bits is in an octet.  *)
Shift(i) == Width - i * Bits
HostBits(h, i) ==
  IF h <= Shift(i) THEN 0
  ELSE IF Shift(i) + Bits <= h THEN Bits ELSE h - Shift(i)

LEMMA OctetOf ==
  ASSUME NEW v \in Nat, NEW i \in Octet
  PROVE  /\ Shift(i) \in 0 .. Width /\ Shift(i) + Bits \in 0 .. Width
         /\ Pow2[Shift(i)] \in Nat \ {0} /\ Pow2[Bits] \in Nat \ {0}
         /\ Pow2[Shift(i) + Bits] = Pow2[Shift(i)] * Pow2[Bits]
         /\ OctetsOf(v)[i] \in 0 .. OctetMax
         /\ Pow2[Shift(i)] * OctetsOf(v)[i] =
              (v % Pow2[Shift(i) + Bits]) - (v % Pow2[Shift(i)])
<1> DEFINE p == Pow2[Shift(i)]
           q == Pow2[Bits]
           t == Pow2[Shift(i) + Bits]
<1>1. Shift(i) \in 0 .. Width /\ Shift(i) + Bits \in 0 .. Width
  BY Sizes DEF Shift
<1>2. p \in Nat \ {0} /\ q \in Nat \ {0} /\ t = p * q
  BY <1>1, Sizes, PowerType, PowerOfSum
<1>3. OctetsOf(v)[i] = (v \div p) % q
  BY DEF OctetsOf, Shift
<1>4. OctetMax = q - 1
  BY DEF OctetMax
<1> HIDE DEF p, q, t
<1>5. (v \div p) % q \in 0 .. q - 1
  <2>1. v \div p \in Nat
    BY <1>2, RemainderType
  <2> QED
    BY <1>2, <2>1, RemainderType
<1>6. p * ((v \div p) % q) = (v % t) - (v % p)
  BY <1>2, Slice
<1>7. OctetsOf(v)[i] \in 0 .. OctetMax
  BY <1>3, <1>4, <1>5
<1>8. p * OctetsOf(v)[i] = (v % t) - (v % p)
  BY <1>3, <1>6
<1> QED
  BY <1>1, <1>2, <1>7, <1>8 DEF p, q, t

LEMMA HostBitsType ==
  ASSUME NEW h \in 0 .. Width, NEW i \in Octet
  PROVE  HostBits(h, i) \in 0 .. Bits
<1>1. Shift(i) \in 0 .. Width /\ Bits \in Nat /\ Width \in Nat
  BY Sizes DEF Shift
<1> QED
  BY <1>1 DEF HostBits

(* An octet of a mask has ones but for its host bits.                      *)
LEMMA NetmaskOctet ==
  ASSUME NEW h \in 0 .. Width, NEW i \in Octet
  PROVE  OctetsOf(Pow2[Width] - Pow2[h])[i] = Pow2[Bits] - Pow2[HostBits(h, i)]
<1> DEFINE v == Pow2[Width] - Pow2[h]
           c == Shift(i)
           p == Pow2[c]
           q == Pow2[Bits]
           t == Pow2[c + Bits]
           x == OctetsOf(v)[i]
           k == HostBits(h, i)
<1>1. Bits \in Nat \ {0} /\ Width \in Nat /\ c \in 0 .. Width /\ c + Bits \in 0 .. Width
  BY Sizes DEF Shift
<1>2. /\ v \in Nat
      /\ v % p = IF c <= h THEN 0 ELSE p - Pow2[h]
      /\ v % t = IF c + Bits <= h THEN 0 ELSE t - Pow2[h]
  BY <1>1, NetmaskLow
<1>3. /\ p \in Nat \ {0} /\ q \in Nat \ {0} /\ t = p * q
      /\ x \in Int /\ p * x = (v % t) - (v % p)
  <2> HIDE DEF v
  <2> QED
    BY <1>2, OctetOf
<1>4. Pow2[0] = 1 /\ Pow2[h] \in Nat \ {0} /\ k \in 0 .. Bits /\ Pow2[k] \in Nat \ {0}
  BY Sizes, PowerStep, PowerType, HostBitsType
<1> HIDE DEF v, x
<1>5. p * (q - Pow2[k]) = t - p * Pow2[k]
  BY <1>3, <1>4
<1>6. p * x = t - p * Pow2[k]
  <2>1. CASE h <= c
    <3>1. k = 0
      BY <2>1 DEF HostBits
    <3>2. v % t = t - Pow2[h] /\ v % p = p - Pow2[h]
      <4>1. ~(c + Bits <= h) /\ (c <= h => c = h)
        BY <1>1, <2>1
      <4>2. c = h => p - Pow2[h] = 0
        BY <1>3
      <4> QED
        BY <1>2, <4>1, <4>2
    <3>3. (t - Pow2[h]) - (p - Pow2[h]) = t - p
      BY <1>3, <1>4
    <3> QED
      BY <1>3, <1>4, <3>1, <3>2, <3>3
  <2>2. CASE c + Bits <= h
    <3>1. Pow2[k] = q
      BY <1>1, <1>4, <2>2 DEF HostBits
    <3>2. v % t = 0 /\ v % p = 0
      BY <1>1, <1>2, <2>2
    <3> QED
      BY <1>3, <3>1, <3>2
  <2>3. CASE ~(h <= c) /\ ~(c + Bits <= h)
    <3>1. k = h - c /\ h \in c .. Width
      BY <1>1, <2>3 DEF HostBits
    <3>2. Pow2[h] = p * Pow2[k]
      BY <1>1, <3>1, PowerDifference
    <3>3. v % t = t - Pow2[h] /\ v % p = 0
      BY <1>1, <1>2, <2>3
    <3>4. (t - Pow2[h]) - 0 = t - Pow2[h]
      BY <1>3, <1>4
    <3> QED
      BY <1>3, <3>2, <3>3, <3>4
  <2> QED
    BY <2>1, <2>2, <2>3
<1>7. x = q - Pow2[k]
  BY <1>3, <1>4, <1>5, <1>6, Cancel
<1> QED
  BY <1>7 DEF x, v

(* Oring ones into the low bits of an octet.                               *)
LEMMA OrSteps ==
  ASSUME NEW x, NEW y
  PROVE  /\ OrOfLow(x, y)[0] = 0
         /\ \A b \in 1 .. Bits :
              OrOfLow(x, y)[b] = OrOfLow(x, y)[b - 1]
                + (IF Bit(x, b - 1) = 1 \/ Bit(y, b - 1) = 1 THEN Pow2[b - 1] ELSE 0)
<1> DEFINE Add(b) == IF Bit(x, b - 1) = 1 \/ Bit(y, b - 1) = 1 THEN Pow2[b - 1] ELSE 0
           Def(f) == f = [b \in 0 .. Bits |-> IF b = 0 THEN 0 ELSE f[b - 1] + Add(b)]
           step == [b \in 1 .. Bits |-> [v \in Nat |-> v + Add(b)]]
<1>1. /\ Bits \in Nat
      /\ \A b \in 1 .. Bits : b - 1 \in 0 .. Width /\ b - 1 \in 0 .. Bits /\ b # 0
                              /\ b \in 0 .. Bits
      /\ 0 \in 0 .. Bits
      /\ \A b \in 0 .. Bits : b = 0 \/ b \in 1 .. Bits
  BY Sizes
<1>2. \A b \in 1 .. Bits : Add(b) \in Nat
  BY <1>1, PowerType
<1> HIDE DEF Add
<1>3. step \in [1 .. Bits -> [Nat -> Nat]]
  BY <1>2
<1>4. \A b \in 1 .. Bits : \A v \in Nat : step[b][v] = v + Add(b)
  OBVIOUS
<1> HIDE DEF step
<1>5. PICK f \in [0 .. Bits -> Nat] :
        f[0] = 0 /\ \A b \in 1 .. Bits : f[b] = step[b][f[b - 1]]
  <2>1. Iterated(Bits, Nat, 0, step) # {}
    BY <1>1, <1>3, Recursion
  <2> QED
    BY <2>1 DEF Iterated
<1>6. Def(f)
  <2>1. \A b \in 1 .. Bits : f[b] = f[b - 1] + Add(b)
    BY <1>1, <1>4, <1>5, Zenon
  <2>2. \A b \in 0 .. Bits : f[b] = IF b = 0 THEN 0 ELSE f[b - 1] + Add(b)
    BY <1>1, <1>5, <2>1, Zenon
  <2>3. f = [b \in 0 .. Bits |-> f[b]]
    OBVIOUS
  <2> QED
    BY <2>2, <2>3, Zenon
<1>7. Def(OrOfLow(x, y))
  <2>1. OrOfLow(x, y) = CHOOSE g : Def(g)
    BY Zenon DEF OrOfLow, Add
  <2> HIDE DEF Def
  <2> QED
    BY <1>6, <2>1
<1>8. \A b \in 0 .. Bits :
        OrOfLow(x, y)[b] = IF b = 0 THEN 0 ELSE OrOfLow(x, y)[b - 1] + Add(b)
  BY <1>7, Zenon
<1> QED
  BY <1>1, <1>8, Zenon DEF Add

(* A bit of a number, and of a number of ones.                             *)
LEMMA BitOf ==
  ASSUME NEW v \in Nat, NEW b \in 1 .. Width
  PROVE  /\ Pow2[b] \in Nat /\ Pow2[b - 1] \in Nat \ {0} /\ Pow2[b] = 2 * Pow2[b - 1]
         /\ Bit(v, b - 1) \in {0, 1}
         /\ Pow2[b - 1] * Bit(v, b - 1) = (v % Pow2[b]) - (v % Pow2[b - 1])
<1> DEFINE p == Pow2[b - 1]
           t == Pow2[b]
<1>1. b - 1 \in 0 .. Width
  BY Sizes
<1>2. p \in Nat \ {0} /\ t = 2 * p
  BY <1>1, PowerType, PowerStep
<1>3. Bit(v, b - 1) = (v \div p) % 2
  BY DEF Bit
<1> HIDE DEF p, t
<1>4. (v \div p) % 2 \in {0, 1}
  <2>1. v \div p \in Nat
    BY <1>2, RemainderType
  <2> QED
    BY <2>1
<1>5. p * ((v \div p) % 2) = (v % t) - (v % p)
  <2>1. 2 \in Nat \ {0} /\ t = p * 2
    BY <1>2
  <2> QED
    BY <1>2, <2>1, Slice
<1>6. t \in Nat
  BY <1>2
<1> QED
  BY <1>2, <1>3, <1>4, <1>5, <1>6 DEF p, t

LEMMA BitOfOnes ==
  ASSUME NEW k \in 0 .. Width, NEW b \in 1 .. Width
  PROVE  Bit(Pow2[k] - 1, b - 1) = IF b <= k THEN 1 ELSE 0
<1> DEFINE p == Pow2[b - 1]
           v == Pow2[k] - 1
<1>1. /\ b \in Nat /\ k \in Nat /\ Width \in Nat /\ b - 1 \in 0 .. Width
      /\ b <= k => k \in b .. Width
      /\ k < b => b - 1 \in k .. Width
  BY Sizes
<1>2. p \in Nat \ {0} /\ Pow2[b] = 2 * p /\ Pow2[k] \in Nat \ {0}
  BY <1>1, PowerType, PowerStep
<1>3. Bit(v, b - 1) = (v \div p) % 2
  BY DEF Bit
<1>4. CASE b <= k
  <2> DEFINE m == Pow2[k - b]
             q == 2 * m - 1
             r == p - 1
  <2>1. m \in Nat \ {0} /\ Pow2[k] = Pow2[b] * m
    BY <1>1, <1>4, PowerDifference
  <2> HIDE DEF m
  <2>2. p * (2 * m) = Pow2[k] /\ p * (2 * m) - p = p * (2 * m - 1)
    BY <1>2, <2>1
  <2>3. q \in Nat /\ r \in 0 .. p - 1 /\ v = p * q + r
    <3>1. p * (2 * m - 1) \in Int
      BY <1>2, <2>1
    <3> QED
      BY <1>2, <2>1, <2>2, <3>1
  <2> HIDE DEF p, v, q, r
  <2>4. v \div p = q
    BY <1>2, <2>3, RemainderIs
  <2>5. q % 2 = 1
    BY <2>1 DEF q
  <2> QED
    BY <1>3, <1>4, <2>4, <2>5 DEF v
<1>5. CASE ~(b <= k)
  <2>1. Pow2[k] <= p
    BY <1>1, <1>5, PowerDifference
  <2>2. v \in 0 .. p - 1 /\ v = p * 0 + v
    BY <1>2, <2>1
  <2> HIDE DEF p, v
  <2>3. v \div p = 0
    BY <1>2, <2>2, RemainderIs
  <2> QED
    BY <1>3, <1>5, <2>3 DEF v
<1> QED
  BY <1>4, <1>5

(* The or of an octet and k ones is the last number of its block of 2^k.   *)
LEMMA OrOfOnes ==
  ASSUME NEW x \in 0 .. OctetMax, NEW k \in 0 .. Bits
  PROVE  Or(x, Pow2[k] - 1) = x - (x % Pow2[k]) + Pow2[k] - 1
<1> DEFINE y == Pow2[k] - 1
           or == OrOfLow(x, y)
           Low(b) == IF b <= k THEN Pow2[b] - 1
                     ELSE (x % Pow2[b]) - (x % Pow2[k]) + Pow2[k] - 1
           S == {b \in 0 .. Bits : or[b] = Low(b)}
<1>1. /\ Bits \in Nat \ {0} /\ k \in 0 .. Width /\ Bits \in 0 .. Width
      /\ Pow2[k] \in Nat \ {0} /\ Pow2[Bits] \in Nat \ {0} /\ Pow2[0] = 1
      /\ \A b \in 1 .. Bits : b \in 1 .. Width /\ b - 1 \in 0 .. Width
  BY Sizes, PowerType, PowerStep
<1>2. x \in Nat /\ x % Pow2[k] \in Int
  <2>1. x \in Nat
    BY <1>1 DEF OctetMax
  <2>2. \A d \in Nat \ {0} : x % d \in Int
    BY <2>1, RemainderType
  <2> QED
    BY <1>1, <2>1, <2>2
<1>3. 0 \in S
  BY <1>1, OrSteps
<1>4. ASSUME NEW b \in 1 .. Bits, b - 1 \in S PROVE b \in S
  <2> DEFINE p == Pow2[b - 1]
             t == Pow2[b]
             bit == Bit(x, b - 1)
  <2>1. /\ p \in Nat \ {0} /\ t = 2 * p /\ bit \in {0, 1}
        /\ p * bit = (x % t) - (x % p)
    BY <1>1, <1>2, BitOf
  <2>2. /\ x % t \in Int /\ x % p \in Int
    <3>1. \A d \in Nat \ {0} : x % d \in Int
      BY <1>2, RemainderType
    <3>2. t \in Nat \ {0}
      BY <2>1
    <3> QED
      BY <2>1, <3>1, <3>2
  <2>3. Bit(y, b - 1) = IF b <= k THEN 1 ELSE 0
    BY <1>1, BitOfOnes
  <2>4. or[b] = or[b - 1] + (IF bit = 1 \/ Bit(y, b - 1) = 1 THEN p ELSE 0)
    BY OrSteps
  <2>5. or[b - 1] = Low(b - 1)
    BY <1>4
  <2>6. b - 1 \in Nat /\ b \in Nat /\ k \in Nat /\ b \in 0 .. Bits
    BY <1>1
  <2> HIDE DEF p, t, bit, or, y
  <2>7. CASE b <= k
    <3>1. b - 1 <= k
      BY <2>6, <2>7
    <3>2. or[b - 1] = p - 1
      BY <2>5, <3>1 DEF p
    <3>3. or[b] = (p - 1) + p
      BY <2>3, <2>4, <2>7, <3>2
    <3>4. or[b] = t - 1
      BY <2>1, <3>3
    <3> QED
      BY <2>6, <2>7, <3>4 DEF t
  <2>8. CASE b = k + 1
    <3>1. b - 1 <= k /\ ~(b <= k) /\ b - 1 = k
      BY <2>6, <2>8
    <3>2. or[b - 1] = p - 1
      BY <2>5, <3>1 DEF p
    <3>3. or[b] = (p - 1) + p * bit
      BY <2>1, <2>3, <2>4, <3>1, <3>2
    <3>4. or[b] = (x % t) - (x % p) + p - 1
      BY <2>1, <2>2, <3>3
    <3> QED
      BY <2>6, <3>1, <3>4 DEF t, p
  <2>9. CASE k + 1 < b
    <3>1. ~(b - 1 <= k) /\ ~(b <= k)
      BY <2>6, <2>9
    <3>2. or[b - 1] = (x % p) - (x % Pow2[k]) + Pow2[k] - 1
      BY <2>5, <3>1 DEF p
    <3>3. or[b] = or[b - 1] + p * bit
      BY <2>1, <2>3, <2>4, <3>1, <3>2, <1>1, <1>2, <2>2
    <3>4. or[b] = (x % t) - (x % Pow2[k]) + Pow2[k] - 1
      BY <1>1, <1>2, <2>1, <2>2, <3>2, <3>3
    <3> QED
      BY <2>6, <3>1, <3>4 DEF t
  <2> QED
    BY <2>6, <2>7, <2>8, <2>9
<1>5. or[Bits] = Low(Bits)
  <2> HIDE DEF S
  <2>1. \A b \in 0 .. Bits : b # 0 /\ b - 1 \in S => b \in S
    <3>1. \A b \in 0 .. Bits : b # 0 => b \in 1 .. Bits
      BY <1>1
    <3> QED
      BY <1>4, <3>1, Zenon
  <2>3. 0 \in Nat /\ Bits \in Nat
    BY <1>1
  <2>4. 0 .. Bits \subseteq S
    BY <1>3, <2>1, <2>3, Induction, Zenon
  <2>2. Bits \in S
    BY <1>1, <2>4
  <2> QED
    BY <2>2 DEF S
<1>6. x % Pow2[Bits] = x
  BY <1>1 DEF OctetMax
<1>7. Low(Bits) = x - (x % Pow2[k]) + Pow2[k] - 1
  <2>1. CASE Bits = k
    BY <1>1, <1>2, <1>6, <2>1
  <2>2. CASE Bits # k
    <3>1. ~(Bits <= k)
      BY <1>1, <2>2
    <3> QED
      BY <1>6, <3>1
  <2> QED
    BY <2>1, <2>2
<1> QED
  BY <1>5, <1>7 DEF Or

(* The octets of a broadcast address are made from those of the address    *)
(* and of the mask.                                                        *)
LEMMA BroadcastOctet ==
  ASSUME NEW v \in Nat, NEW h \in 0 .. Width, NEW i \in Octet
  PROVE  OctetsOf((v \div Pow2[h]) * Pow2[h] + Pow2[h] - 1)[i] =
           Or(OctetsOf(v)[i], OctetMax - OctetsOf(Pow2[Width] - Pow2[h])[i])
<1> DEFINE H == Pow2[h]
           last == (v \div H) * H + H - 1
           c == Shift(i)
           p == Pow2[c]
           q == Pow2[Bits]
           t == Pow2[c + Bits]
           x == OctetsOf(v)[i]
           z == OctetsOf(last)[i]
           k == HostBits(h, i)
           K == Pow2[k]
           y == x - (x % K) + K - 1
<1>1. /\ Bits \in Nat \ {0} /\ Width \in Nat
      /\ c \in 0 .. Width /\ c + Bits \in 0 .. Width /\ Bits \in 0 .. Width
  BY Sizes DEF Shift
<1>2. /\ p \in Nat \ {0} /\ q \in Nat \ {0} /\ t \in Nat \ {0} /\ t = p * q
      /\ x \in 0 .. OctetMax /\ x \in 0 .. q - 1 /\ p * x = (v % t) - (v % p)
  BY <1>1, OctetOf, PowerType DEF OctetMax
<1>3. /\ last \in Nat
      /\ c <= h => last % p = p - 1
      /\ h <= c => last % p = (v % p) - (v % H) + H - 1
      /\ c + Bits <= h => last % t = t - 1
      /\ h <= c + Bits => last % t = (v % t) - (v % H) + H - 1
  BY <1>1, BroadcastLow
<1>4. z \in Int /\ p * z = (last % t) - (last % p)
  <2> HIDE DEF last
  <2> QED
    BY <1>3, OctetOf DEF OctetMax
<1>5. k \in 0 .. Bits /\ k \in 0 .. Width /\ K \in Nat \ {0} /\ H \in Nat \ {0} /\ Pow2[0] = 1
  BY <1>1, HostBitsType, PowerType, PowerStep
<1>6. Or(x, OctetMax - OctetsOf(Pow2[Width] - Pow2[h])[i]) = y
  <2>1. OctetsOf(Pow2[Width] - Pow2[h])[i] = q - K
    BY NetmaskOctet
  <2>2. (q - 1) - (q - K) = K - 1
    BY <1>2, <1>5
  <2>3. OctetMax - OctetsOf(Pow2[Width] - Pow2[h])[i] = K - 1
    BY <2>1, <2>2 DEF OctetMax
  <2> QED
    BY <1>2, <1>5, <2>3, OrOfOnes
<1>7. v % t \in Int /\ v % p \in Int /\ v % H \in Int
  <2>1. \A d \in Nat \ {0} : v % d \in Int
    BY RemainderType
  <2> QED
    BY <1>2, <1>5, <2>1
<1>8. /\ h <= c => k = 0
      /\ c + Bits <= h => k = Bits
      /\ c <= h /\ h <= c + Bits => h = c + k /\ k \in Nat /\ c \in Nat /\ Bits - k \in Nat
  BY <1>1 DEF HostBits
<1>9. y \in Int /\ p * y = p * z
  <2>1. CASE h <= c
    <3>1. K = 1
      BY <1>5, <1>8, <2>1
    <3>2. x % 1 = 0
      BY <1>2
    <3>3. y = x
      <4> HIDE DEF x
      <4> QED
        BY <1>2, <3>1, <3>2
    <3>4. h <= c + Bits
      BY <1>1, <2>1
    <3>5. p * z = (v % t) - (v % p)
      <4> HIDE DEF last, z, H, t, p
      <4> QED
        BY <1>3, <1>4, <1>5, <1>7, <2>1, <3>4
    <3> HIDE DEF y, x, z
    <3> QED
      BY <1>2, <3>3, <3>5
  <2>2. CASE c + Bits <= h
    <3>1. K = q
      BY <1>8, <2>2
    <3>2. x % q = x
      <4> HIDE DEF x, q
      <4> QED
        BY <1>2
    <3>3. y = q - 1
      <4> HIDE DEF x, q, K
      <4> QED
        BY <1>2, <3>1, <3>2
    <3>4. c <= h
      BY <1>1, <2>2
    <3>5. p * z = t - p
      <4> HIDE DEF last, z, H, t, p
      <4> QED
        BY <1>2, <1>3, <1>4, <2>2, <3>4
    <3>6. p * (q - 1) = p * q - p
      BY <1>2
    <3> HIDE DEF y, x, z
    <3> QED
      BY <1>2, <3>3, <3>5, <3>6
  <2>3. CASE ~(h <= c) /\ ~(c + Bits <= h)
    <3> DEFINE u == v \div p
    <3>1. c <= h /\ h <= c + Bits
      BY <1>1, <2>3
    <3>2. h = c + k /\ k \in Nat /\ c \in Nat /\ Bits - k \in Nat
      BY <1>8, <3>1
    <3>3. H = p * K /\ q = K * Pow2[Bits - k] /\ Pow2[Bits - k] \in Nat \ {0}
      <4>1. Pow2[c + k] = Pow2[c] * Pow2[k]
        BY <3>2, PowerOfSum
      <4>2. Bits \in k .. Width
        BY <1>1, <1>5
      <4> QED
        BY <1>5, <3>2, <4>1, <4>2, PowerDifference
    <3>4. u \in Nat /\ x = u % q
      <4>1. x = u % q
        BY DEF OctetsOf, Shift
      <4> HIDE DEF p
      <4> QED
        BY <1>2, <4>1, RemainderType
    <3>5. p * (u % K) = (v % H) - (v % p)
      <4> HIDE DEF p, K, H
      <4>1. p \in Nat \ {0} /\ K \in Nat \ {0} /\ H = p * K
        BY <1>2, <1>5, <3>3
      <4> QED
        BY <4>1, Slice
    <3> HIDE DEF u
    <3>6. x % K = u % K
      <4> HIDE DEF q, K, x
      <4>1. \A m \in Nat \ {0} : (u % (K * m)) % K = u % K
        BY <1>5, <3>4, SliceLow
      <4> QED
        BY <3>3, <3>4, <4>1
    <3>7. x % K \in Int
      <4> HIDE DEF x, K
      <4> QED
        BY <1>2, <1>5, RemainderType
    <3>8. p * z = ((v % t) - (v % H) + H - 1) - (p - 1)
      <4> HIDE DEF last, z, H, t, p
      <4> QED
        BY <1>3, <1>4, <3>1
    <3>9. p * z = (p * x) - (p * (x % K)) + p * K - p
      <4> HIDE DEF last, z, H, t, p, K, x
      <4> QED
        BY <1>2, <1>5, <1>7, <3>3, <3>5, <3>6, <3>8
    <3>10. y \in Int
      <4> HIDE DEF x, K
      <4> QED
        BY <1>2, <1>5, <3>7
    <3>11. p * y = (p * x) - (p * (x % K)) + p * K - p
      <4>1. \A a \in Nat \ {0} : \A b, d, e \in Int :
              a * (b - d + e - 1) = (a * b) - (a * d) + a * e - a
        OBVIOUS
      <4> HIDE DEF x, K, p
      <4> QED
        BY <1>2, <1>5, <3>7, <4>1
    <3> QED
      BY <3>9, <3>10, <3>11
  <2> QED
    BY <2>1, <2>2, <2>3
<1>10. z = y
  <2> HIDE DEF y, z, p
  <2> QED
    BY <1>2, <1>4, <1>9, Cancel
<1> QED
  BY <1>6, <1>10

(* The octets of the address, joined to a number, are those of the text.   *)
LEMMA JoinedSteps ==
  ASSUME NEW text, \A i \in Octet : Number(text, i) \in 0 .. OctetMax
  PROVE  /\ Joined(text)[0] = 0
         /\ \A i \in Octet :
              Joined(text)[i] = Joined(text)[i - 1] * Pow2[Bits] + Number(text, i)
<1> DEFINE q == Pow2[Bits]
           Def(f) == f = [i \in 0 .. Octets |-> IF i = 0 THEN 0
                                                ELSE f[i - 1] * q + Number(text, i)]
           step == [i \in 1 .. Octets |-> [v \in Nat |-> v * q + Number(text, i)]]
<1>1. /\ Octets \in Nat
      /\ \A i \in 1 .. Octets : i - 1 \in 0 .. Octets /\ i # 0 /\ i \in 0 .. Octets
      /\ 0 \in 0 .. Octets
      /\ \A i \in 0 .. Octets : i = 0 \/ i \in 1 .. Octets
  BY Sizes
<1>2. q \in Nat \ {0} /\ Octet = 1 .. Octets
  BY Sizes, PowerType DEF Octet
<1>3. \A i \in 1 .. Octets : Number(text, i) \in Nat
  BY <1>2 DEF OctetMax
<1> HIDE DEF q
<1>4. step \in [1 .. Octets -> [Nat -> Nat]]
  <2>1. \A i \in 1 .. Octets : \A v \in Nat : v * q + Number(text, i) \in Nat
    BY <1>2, <1>3
  <2> QED
    BY <2>1
<1>5. \A i \in 1 .. Octets : \A v \in Nat : step[i][v] = v * q + Number(text, i)
  OBVIOUS
<1> HIDE DEF step
<1>6. PICK f \in [0 .. Octets -> Nat] :
        f[0] = 0 /\ \A i \in 1 .. Octets : f[i] = step[i][f[i - 1]]
  <2>1. Iterated(Octets, Nat, 0, step) # {}
    BY <1>1, <1>4, Recursion
  <2> QED
    BY <2>1 DEF Iterated
<1>7. Def(f)
  <2>1. \A i \in 1 .. Octets : f[i] = f[i - 1] * q + Number(text, i)
    BY <1>1, <1>5, <1>6, Zenon
  <2>2. \A i \in 0 .. Octets :
          f[i] = IF i = 0 THEN 0 ELSE f[i - 1] * q + Number(text, i)
    BY <1>1, <1>6, <2>1, Zenon
  <2>3. f = [i \in 0 .. Octets |-> f[i]]
    OBVIOUS
  <2> QED
    BY <2>2, <2>3, Zenon
<1>8. Def(Joined(text))
  <2>1. Joined(text) = CHOOSE g : Def(g)
    BY Zenon DEF Joined, q
  <2> HIDE DEF Def
  <2> QED
    BY <1>7, <2>1
<1>9. \A i \in 0 .. Octets :
        Joined(text)[i] = IF i = 0 THEN 0 ELSE Joined(text)[i - 1] * q + Number(text, i)
  BY <1>8, Zenon
<1> QED
  BY <1>1, <1>2, <1>9, Zenon DEF q

LEMMA JoinedOctets ==
  ASSUME NEW text, \A i \in Octet : Number(text, i) \in 0 .. OctetMax
  PROVE  /\ Joined(text)[Octets] \in Nat
         /\ \A i \in Octet : OctetsOf(Joined(text)[Octets])[i] = Number(text, i)
<1> DEFINE J(i) == Joined(text)[i]
           N(i) == Number(text, i)
           P(k) == Pow2[k * Bits]
           q == Pow2[Bits]
<1>1. /\ Octets \in Nat /\ Bits \in Nat \ {0} /\ Octet = 1 .. Octets
      /\ Width = Octets * Bits /\ Width \in Nat
  BY Sizes DEF Octet, Width
<1>2. \A k \in 0 .. Octets : k * Bits \in 0 .. Width
  <2>1. \A a, b, d \in Nat : a <= b => a * d <= b * d /\ a * d \in Nat
    OBVIOUS
  <2> QED
    BY <1>1, <2>1
<1>3. /\ \A k \in 0 .. Octets : P(k) \in Nat \ {0}
      /\ q \in Nat \ {0} /\ P(0) = 1
  <2>1. \A k \in 0 .. Octets : P(k) \in Nat \ {0}
    BY <1>2, PowerType
  <2>2. q \in Nat \ {0}
    BY Sizes, PowerType
  <2>3. 0 * Bits = 0
    BY <1>1
  <2> QED
    BY <2>1, <2>2, <2>3, PowerStep
<1>4. \A k \in 1 .. Octets : P(k) = P(k - 1) * q
  <2> TAKE k \in 1 .. Octets
  <2>1. k - 1 \in 0 .. Octets /\ k \in 0 .. Octets /\ (k - 1) * Bits + Bits = k * Bits
    BY <1>1
  <2>2. (k - 1) * Bits \in Nat /\ (k - 1) * Bits + Bits <= Width
    BY <1>2, <2>1
  <2>3. Pow2[(k - 1) * Bits + Bits] = P(k - 1) * q
    BY <1>1, <2>2, PowerOfSum
  <2> QED
    BY <2>1, <2>3
<1>5. J(0) = 0 /\ \A i \in Octet : J(i) = J(i - 1) * q + N(i)
  BY JoinedSteps
<1>6. \A i \in Octet : N(i) \in 0 .. q - 1 /\ N(i) \in Nat
  BY <1>3 DEF OctetMax
<1> HIDE DEF J, N, P, q
<1>7. \A i \in 0 .. Octets : J(i) \in Nat
  <2> DEFINE S == {i \in 0 .. Octets : J(i) \in Nat}
  <2>1. 0 \in S
    BY <1>1, <1>5
  <2>2. ASSUME NEW i \in 0 .. Octets, i # 0, i - 1 \in S PROVE i \in S
    <3>1. i \in Octet
      BY <1>1, <2>2
    <3>2. J(i) = J(i - 1) * q + N(i) /\ N(i) \in Nat
      BY <1>5, <1>6, <3>1
    <3>3. J(i - 1) \in Nat
      BY <2>2
    <3>4. J(i - 1) * q + N(i) \in Nat
      BY <1>3, <3>2, <3>3
    <3> QED
      BY <3>2, <3>4
  <2>3. \A i \in 0 .. Octets : i # 0 /\ i - 1 \in S => i \in S
    BY <2>2, Zenon
  <2>4. 0 \in Nat
    OBVIOUS
  <2> HIDE DEF S
  <2>5. 0 .. Octets \subseteq S
    BY <1>1, <2>1, <2>3, <2>4, Induction, Zenon
  <2> QED
    BY <2>5 DEF S
<1>8. ASSUME NEW k \in 0 .. Octets
      PROVE  \E t \in 0 .. P(k) - 1 : J(Octets) = J(Octets - k) * P(k) + t
  <2> DEFINE Rest(n, t) == t \in 0 .. P(n) - 1 /\ J(Octets) = J(Octets - n) * P(n) + t
             S == {n \in 0 .. Octets : \E t \in Nat : Rest(n, t)}
  <2>1. 0 \in S
    <3>1. Octets - 0 = Octets /\ 0 \in 0 .. Octets /\ Octets \in 0 .. Octets
      BY <1>1
    <3>2. J(Octets) = J(Octets) * 1 + 0
      BY <1>7, <3>1
    <3>3. Rest(0, 0)
      BY <1>3, <3>1, <3>2
    <3> HIDE DEF Rest
    <3> QED
      BY <3>1, <3>3
  <2>2. ASSUME NEW n \in 0 .. Octets, n # 0, n - 1 \in S PROVE n \in S
    <3> DEFINE i == Octets - (n - 1)
               p == P(n - 1)
    <3>1. PICK t \in Nat : Rest(n - 1, t)
      BY <2>2
    <3>2. i \in Octet /\ i - 1 = Octets - n /\ i - 1 \in 0 .. Octets
          /\ n \in 1 .. Octets /\ n - 1 \in 0 .. Octets
      BY <1>1, <2>2
    <3>3. /\ J(i) = J(i - 1) * q + N(i) /\ N(i) \in 0 .. q - 1
          /\ J(i - 1) \in Nat /\ p \in Nat \ {0} /\ P(n) = p * q
      BY <1>3, <1>4, <1>5, <1>6, <1>7, <3>2
    <3>4. t \in 0 .. p - 1 /\ J(Octets) = J(i) * p + t
      BY <3>1
    <3> HIDE DEF i, p
    <3>5. J(Octets) = J(i - 1) * (p * q) + (N(i) * p + t)
      BY <1>3, <3>3, <3>4
    <3>6. N(i) * p + t \in 0 .. (p * q) - 1
      <4>1. \A a, b \in Nat \ {0} : \A d \in 0 .. b - 1 :
              d * a \in Nat /\ d * a <= (b - 1) * a /\ (b - 1) * a = a * b - a
        OBVIOUS
      <4>2. N(i) * p \in Nat /\ N(i) * p <= p * q - p
        BY <1>3, <3>3, <4>1
      <4> QED
        BY <1>3, <3>3, <3>4, <4>2
    <3>7. N(i) * p + t \in Nat /\ Rest(n, N(i) * p + t)
      BY <3>2, <3>3, <3>5, <3>6
    <3> HIDE DEF Rest
    <3> QED
      BY <3>7
  <2>3. \A n \in 0 .. Octets : n # 0 /\ n - 1 \in S => n \in S
    BY <2>2, Zenon
  <2>4. 0 \in Nat
    OBVIOUS
  <2> HIDE DEF S
  <2>5. 0 .. Octets \subseteq S
    BY <1>1, <2>1, <2>3, <2>4, Induction, Zenon
  <2>6. k \in S
    BY <2>5
  <2>7. PICK t \in Nat : Rest(k, t)
    BY <2>6 DEF S
  <2> QED
    BY <2>7
<1>9. ASSUME NEW i \in Octet PROVE OctetsOf(J(Octets))[i] = N(i)
  <2> DEFINE k == Octets - i
             p == P(k)
             v == J(Octets)
  <2>1. /\ k \in 0 .. Octets /\ Octets - k = i /\ i - 1 \in 0 .. Octets
        /\ i \in 0 .. Octets /\ k * Bits = Shift(i)
    BY <1>1 DEF Shift
  <2>2. PICK t \in 0 .. p - 1 : v = J(i) * p + t
    BY <1>8, <2>1
  <2>3. p \in Nat \ {0} /\ J(i) \in Nat /\ J(i - 1) \in Nat /\ N(i) \in 0 .. q - 1
        /\ J(i) = J(i - 1) * q + N(i)
    BY <1>3, <1>5, <1>6, <1>7, <2>1
  <2>4. OctetsOf(v)[i] = (v \div p) % q
    BY <2>1 DEF OctetsOf, Shift, P, q
  <2> HIDE DEF p, v
  <2>5. v \div p = J(i)
    <3>1. v = p * J(i) + t
      BY <2>2, <2>3
    <3> QED
      BY <2>3, <3>1, RemainderIs
  <2>6. J(i) % q = N(i)
    <3>1. J(i) = q * J(i - 1) + N(i)
      BY <1>3, <2>3
    <3> QED
      BY <1>3, <2>3, <3>1, RemainderIs
  <2> QED
    BY <2>4, <2>5, <2>6 DEF v
<1> QED
  BY <1>1, <1>7, <1>9 DEF J, N

-----------------------------------------------------------------------------
(* The parser of an address with a prefix.                                 *)

(* The characters.                                                         *)
LEMMA Characters ==
  /\ "." \notin Digits /\ "/" \notin Digits /\ "." # "/"
  /\ \A c \in Digits : ValueOf(c) \in 0 .. 9
<1>1. "." \notin Digits /\ "/" \notin Digits /\ "." # "/"
  BY DEF Digits, Numerals, Range
<1>2. ASSUME NEW c \in Digits PROVE ValueOf(c) \in 0 .. 9
  <2>1. DOMAIN Numerals = 1 .. 10
    BY DEF Numerals
  <2>2. \E n \in DOMAIN Numerals : Numerals[n] = c
    BY DEF Digits, Range
  <2>3. (CHOOSE n \in DOMAIN Numerals : Numerals[n] = c) \in 1 .. 10
    BY <2>1, <2>2
  <2> QED
    BY <2>3 DEF ValueOf
<1> QED
  BY <1>1, <1>2

(* The parser's states, and what it is after each character.               *)
Parser == [ok : BOOLEAN, nfield : 1 .. Octets + 1, fields : [1 .. Octets + 1 -> Nat]]

LEMMA CharacterType ==
  ASSUME NEW p \in Parser, NEW c
  PROVE  Character(c, p) \in Parser
<1>1. Octets \in Nat \ {0} /\ Word \in Nat \ {0}
  BY Sizes
<1>2. CASE ~p.ok
  BY <1>2 DEF Character
<1>3. CASE p.ok /\ NextField(c, p)
  <2>1. Character(c, p) = [p EXCEPT !.nfield = @ + 1]
    BY <1>3 DEF Character
  <2>2. p.nfield \in 1 .. Octets
    BY <1>1, <1>3 DEF NextField, Slash, Parser
  <2> QED
    BY <1>1, <2>1, <2>2 DEF Parser
<1>4. CASE p.ok /\ ~NextField(c, p) /\ c \in Digits
  <2> DEFINE v == (p.fields[p.nfield] * 10 + ValueOf(c)) % Word
  <2>1. Character(c, p) = [p EXCEPT !.fields[p.nfield] = v]
    BY <1>4 DEF Character
  <2>2. v \in Nat
    <3>1. p.fields[p.nfield] \in Nat /\ ValueOf(c) \in 0 .. 9
      BY <1>4, Characters DEF Parser
    <3>2. p.fields[p.nfield] * 10 + ValueOf(c) \in Nat
      BY <3>1
    <3>3. \A x \in Nat : x % Word \in Nat
      BY <1>1
    <3> QED
      BY <3>2, <3>3
  <2> HIDE DEF v
  <2> QED
    BY <2>1, <2>2 DEF Parser
<1>5. CASE p.ok /\ ~NextField(c, p) /\ c \notin Digits
  <2>1. Character(c, p) = [p EXCEPT !.ok = FALSE]
    BY <1>5 DEF Character
  <2> QED
    BY <2>1 DEF Parser
<1> QED
  BY <1>2, <1>3, <1>4, <1>5

LEMMA TextType ==
  ASSUME NEW text \in Texts
  PROVE  /\ Len(text) \in Nat /\ text \in Seq(STRING)
         /\ 0 \in 0 .. Len(text)
         /\ \A n \in 1 .. Len(text) : n # 0 /\ n \in 0 .. Len(text) /\ n - 1 \in 0 .. Len(text)
         /\ \A n \in 0 .. Len(text) : n = 0 \/ n \in 1 .. Len(text)
<1>1. text \in Seq(STRING)
  BY AddressAssumption
<1>2. Len(text) \in Nat
  BY <1>1
<1> QED
  BY <1>1, <1>2

LEMMA ScanSteps ==
  ASSUME NEW text \in Texts
  PROVE  /\ Scanning(text)[0] = Start
         /\ \A n \in 1 .. Len(text) :
              Scanning(text)[n] = Character(text[n], Scanning(text)[n - 1])
         /\ \A n \in 0 .. Len(text) : Scanning(text)[n] \in Parser
<1> DEFINE N == Len(text)
           Def(f) == f = [n \in 0 .. N |-> IF n = 0 THEN Start
                                           ELSE Character(text[n], f[n - 1])]
           step == [n \in 1 .. N |-> [p \in Parser |-> Character(text[n], p)]]
<1>1. /\ N \in Nat /\ 0 \in 0 .. N
      /\ \A n \in 1 .. N : n # 0 /\ n \in 0 .. N /\ n - 1 \in 0 .. N
      /\ \A n \in 0 .. N : n = 0 \/ n \in 1 .. N
  BY TextType
<1>2. Start \in Parser
  BY Sizes DEF Start, Parser
<1>3. \A p \in Parser : \A c : Character(c, p) \in Parser
  BY CharacterType
<1> HIDE DEF N
<1>4. step \in [1 .. N -> [Parser -> Parser]]
  BY <1>3
<1>5. \A n \in 1 .. N : \A p \in Parser : step[n][p] = Character(text[n], p)
  OBVIOUS
<1> HIDE DEF step
<1>6. PICK f \in [0 .. N -> Parser] :
        f[0] = Start /\ \A n \in 1 .. N : f[n] = step[n][f[n - 1]]
  <2>1. Iterated(N, Parser, Start, step) # {}
    BY <1>1, <1>2, <1>4, Recursion
  <2> QED
    BY <2>1 DEF Iterated
<1>7. Def(f)
  <2>1. \A n \in 1 .. N : f[n] = Character(text[n], f[n - 1])
    BY <1>1, <1>5, <1>6, Zenon
  <2>2. \A n \in 0 .. N : f[n] = IF n = 0 THEN Start ELSE Character(text[n], f[n - 1])
    BY <1>1, <1>6, <2>1, Zenon
  <2>3. f = [n \in 0 .. N |-> f[n]]
    OBVIOUS
  <2> QED
    BY <2>2, <2>3, Zenon
<1>8. Def(Scanning(text))
  <2>1. Scanning(text) = CHOOSE g : Def(g)
    BY Zenon DEF Scanning, N
  <2> HIDE DEF Def
  <2> QED
    BY <1>7, <2>1
<1>9. \A n \in 0 .. N :
        Scanning(text)[n] = IF n = 0 THEN Start ELSE Character(text[n], Scanning(text)[n - 1])
  BY <1>8, Zenon
<1>10. /\ Scanning(text)[0] = Start
       /\ \A n \in 1 .. N : Scanning(text)[n] = Character(text[n], Scanning(text)[n - 1])
  BY <1>1, <1>9, Zenon
<1>11. 0 .. N \subseteq {n \in 0 .. N : Scanning(text)[n] \in Parser}
  <2> DEFINE S == {n \in 0 .. N : Scanning(text)[n] \in Parser}
  <2>1. 0 \in S
    BY <1>1, <1>2, <1>10
  <2>2. \A n \in 0 .. N : n # 0 /\ n - 1 \in S => n \in S
    BY <1>1, <1>3, <1>10, Zenon
  <2>3. 0 \in Nat
    OBVIOUS
  <2> HIDE DEF S
  <2>4. 0 .. N \subseteq S
    BY <1>1, <2>1, <2>2, <2>3, Induction, Zenon
  <2> QED
    BY <2>4 DEF S
<1> QED
  BY <1>10, <1>11 DEF N

(* The numbers, and the marks, character by character.                     *)
LEMMA ValueSteps ==
  ASSUME NEW text \in Texts
  PROVE  /\ Value(text)[0] = 0
         /\ \A n \in 0 .. Len(text) : Value(text)[n] \in Nat
         /\ \A n \in 1 .. Len(text) :
              Value(text)[n] = IF IsMark(text[n]) THEN 0
                               ELSE 10 * Value(text)[n - 1] + ValueOf(text[n])
<1> DEFINE N == Len(text)
           Def(f) == f = [n \in 0 .. N |->
                            IF n = 0 \/ IsMark(text[n]) THEN 0
                            ELSE 10 * f[n - 1] + ValueOf(text[n])]
           step == [n \in 1 .. N |-> [v \in Nat |-> IF IsMark(text[n]) THEN 0
                                                     ELSE 10 * v + ValueOf(text[n])]]
<1>1. /\ N \in Nat /\ 0 \in 0 .. N
      /\ \A n \in 1 .. N : n # 0 /\ n \in 0 .. N /\ n - 1 \in 0 .. N
      /\ \A n \in 0 .. N : n = 0 \/ n \in 1 .. N
  BY TextType
<1>2. \A n \in 1 .. N : ~IsMark(text[n]) => ValueOf(text[n]) \in Nat
  BY Characters DEF IsMark
<1> HIDE DEF N
<1>3. step \in [1 .. N -> [Nat -> Nat]]
  BY <1>2
<1>4. \A n \in 1 .. N : \A v \in Nat :
        step[n][v] = IF IsMark(text[n]) THEN 0 ELSE 10 * v + ValueOf(text[n])
  OBVIOUS
<1> HIDE DEF step
<1>5. PICK f \in [0 .. N -> Nat] :
        f[0] = 0 /\ \A n \in 1 .. N : f[n] = step[n][f[n - 1]]
  <2>1. Iterated(N, Nat, 0, step) # {}
    BY <1>1, <1>3, Recursion
  <2> QED
    BY <2>1 DEF Iterated
<1>6. Def(f)
  <2>1. \A n \in 1 .. N :
          f[n] = IF IsMark(text[n]) THEN 0 ELSE 10 * f[n - 1] + ValueOf(text[n])
    BY <1>1, <1>4, <1>5, Zenon
  <2>2. \A n \in 0 .. N : f[n] = IF n = 0 \/ IsMark(text[n]) THEN 0
                                 ELSE 10 * f[n - 1] + ValueOf(text[n])
    BY <1>1, <1>5, <2>1, Zenon
  <2>3. f = [n \in 0 .. N |-> f[n]]
    OBVIOUS
  <2> QED
    BY <2>2, <2>3, Zenon
<1>7. Def(Value(text))
  <2>1. Value(text) = CHOOSE g : Def(g)
    BY Zenon DEF Value, N
  <2> HIDE DEF Def
  <2> QED
    BY <1>6, <2>1
<1>8. \A n \in 0 .. N :
        Value(text)[n] = IF n = 0 \/ IsMark(text[n]) THEN 0
                         ELSE 10 * Value(text)[n - 1] + ValueOf(text[n])
  BY <1>7, Zenon
<1>9. /\ Value(text)[0] = 0
      /\ \A n \in 1 .. N :
           Value(text)[n] = IF IsMark(text[n]) THEN 0
                            ELSE 10 * Value(text)[n - 1] + ValueOf(text[n])
  BY <1>1, <1>8, Zenon
<1>10. 0 .. N \subseteq {n \in 0 .. N : Value(text)[n] \in Nat}
  <2> DEFINE S == {n \in 0 .. N : Value(text)[n] \in Nat}
  <2>1. 0 \in S /\ 0 \in Nat
    BY <1>1, <1>9
  <2>2. ASSUME NEW n \in 0 .. N, n # 0, n - 1 \in S PROVE n \in S
    <3>1. n \in 1 .. N /\ Value(text)[n - 1] \in Nat
      BY <1>1, <2>2
    <3>2. CASE IsMark(text[n])
      BY <1>9, <3>1, <3>2
    <3>3. CASE ~IsMark(text[n])
      <4>1. Value(text)[n] = 10 * Value(text)[n - 1] + ValueOf(text[n])
        BY <1>9, <3>1, <3>3
      <4>2. ValueOf(text[n]) \in Nat
        BY <1>2, <3>1, <3>3
      <4> QED
        BY <3>1, <4>1, <4>2
    <3> QED
      BY <3>2, <3>3
  <2>3. \A n \in 0 .. N : n # 0 /\ n - 1 \in S => n \in S
    BY <2>2, Zenon
  <2> HIDE DEF S
  <2>4. 0 .. N \subseteq S
    BY <1>1, <2>1, <2>3, Induction, Zenon
  <2> QED
    BY <2>4 DEF S
<1> QED
  BY <1>9, <1>10 DEF N

LEMMA MarkSteps ==
  ASSUME NEW text \in Texts
  PROVE  /\ Marks(text, 0) = 0
         /\ \A n \in 0 .. Len(text) : Marks(text, n) \in Nat
         /\ \A n \in 1 .. Len(text) :
              Marks(text, n) = Marks(text, n - 1) + (IF IsMark(text[n]) THEN 1 ELSE 0)
<1> DEFINE At(n) == {m \in 1 .. n : IsMark(text[m])}
<1>1. Len(text) \in Nat
  BY TextType
<1>2. ASSUME NEW n \in Nat PROVE IsFiniteSet(At(n)) /\ Cardinality(At(n)) \in Nat
  <2>1. IsFiniteSet(1 .. n) /\ At(n) \in SUBSET (1 .. n)
    BY FS_Interval
  <2> HIDE DEF At
  <2> QED
    BY <2>1, FS_Subset, FS_CardinalityType
<1>3. At(0) = {} /\ \A n : Marks(text, n) = Cardinality(At(n))
  BY DEF Marks
<1>4. ASSUME NEW n \in 1 .. Len(text)
      PROVE  Marks(text, n) = Marks(text, n - 1) + (IF IsMark(text[n]) THEN 1 ELSE 0)
  <2>1. n - 1 \in Nat
    OBVIOUS
  <2>2. IsFiniteSet(At(n - 1)) /\ Cardinality(At(n - 1)) \in Nat
    BY <1>2, <2>1
  <2>3. CASE IsMark(text[n])
    <3>1. At(n) = At(n - 1) \cup {n} /\ n \notin At(n - 1)
      BY <2>3
    <3> HIDE DEF At
    <3>2. Cardinality(At(n)) = Cardinality(At(n - 1)) + 1
      BY <2>2, <3>1, FS_AddElement
    <3> QED
      BY <1>3, <2>3, <3>2
  <2>4. CASE ~IsMark(text[n])
    <3>1. At(n) = At(n - 1)
      BY <2>4
    <3> HIDE DEF At
    <3> QED
      BY <1>3, <2>2, <2>4, <3>1
  <2> QED
    BY <2>3, <2>4
<1>5. \A n \in 0 .. Len(text) : Marks(text, n) \in Nat
  BY <1>1, <1>2 DEF Marks
<1>6. Marks(text, 0) = 0
  BY <1>3, FS_EmptySet DEF Marks
<1> QED
  BY <1>4, <1>5, <1>6

(* There are no fewer marks further on.                                    *)
LEMMA MarksGrow ==
  ASSUME NEW text \in Texts, NEW n \in 0 .. Len(text)
  PROVE  \A m \in 0 .. n : Marks(text, m) <= Marks(text, n)
<1> DEFINE M(m) == Marks(text, m)
           S == {k \in 0 .. Len(text) : \A m \in 0 .. k : M(m) <= M(k)}
<1>1. /\ Len(text) \in Nat
      /\ \A k \in 0 .. Len(text) : M(k) \in Nat
      /\ \A k \in 1 .. Len(text) : M(k) \in {M(k - 1), M(k - 1) + 1}
  <2>1. /\ Len(text) \in Nat
        /\ \A k \in 0 .. Len(text) : Marks(text, k) \in Nat
        /\ \A k \in 1 .. Len(text) :
             Marks(text, k) = Marks(text, k - 1) + (IF IsMark(text[k]) THEN 1 ELSE 0)
        /\ \A k \in 1 .. Len(text) : k - 1 \in 0 .. Len(text)
    BY TextType, MarkSteps
  <2>2. ASSUME NEW k \in 1 .. Len(text) PROVE M(k) \in {M(k - 1), M(k - 1) + 1}
    <3>1. M(k) = M(k - 1) + (IF IsMark(text[k]) THEN 1 ELSE 0) /\ M(k - 1) \in Nat
      BY <2>1
    <3> HIDE DEF M
    <3> QED
      BY <3>1
  <2> QED
    BY <2>1, <2>2
<1> HIDE DEF M
<1>2. 0 \in S
  BY <1>1
<1>3. ASSUME NEW k \in 0 .. Len(text), k # 0, k - 1 \in S PROVE k \in S
  <2>1. k \in 1 .. Len(text) /\ k - 1 \in 0 .. Len(text)
    BY <1>1, <1>3
  <2>2. M(k) \in Nat /\ M(k - 1) \in Nat /\ M(k - 1) <= M(k)
    BY <1>1, <2>1
  <2>3. ASSUME NEW m \in 0 .. k PROVE M(m) <= M(k)
    <3>1. CASE m = k
      BY <2>2, <3>1
    <3>2. CASE m # k
      <4>1. m \in 0 .. k - 1
        BY <3>2
      <4>2. M(m) <= M(k - 1) /\ M(m) \in Nat
        BY <1>1, <1>3, <2>1, <4>1
      <4> QED
        BY <2>2, <4>2
    <3> QED
      BY <3>1, <3>2
  <2> QED
    BY <2>3
<1>4. \A k \in 0 .. Len(text) : k # 0 /\ k - 1 \in S => k \in S
  BY <1>3, Zenon
<1>5. n \in S
  <2>1. 0 \in Nat
    OBVIOUS
  <2> HIDE DEF S
  <2>2. 0 .. Len(text) \subseteq S
    BY <1>1, <1>2, <1>4, <2>1, Induction, Zenon
  <2> QED
    BY <2>2
<1> QED
  BY <1>5 DEF M

(* The parser against the marks and the numbers of what it has read: it    *)
(* goes on while each mark is the expected one, the current field holds    *)
(* the number so far, those behind it nothing, and each field before it    *)
(* what its mark ended.                                                    *)
Expected(text, n) ==
  \A m \in 1 .. n : IsMark(text[m]) =>
    /\ Marks(text, m) <= Octets
    /\ text[m] = IF Marks(text, m) < Octets THEN "." ELSE "/"

HasRead(text, n, p) ==
  /\ p.ok <=> Expected(text, n)
  /\ p.ok =>
       /\ p.nfield = Marks(text, n) + 1
       /\ p.fields[Marks(text, n) + 1] = Value(text)[n]
       /\ \A i \in Marks(text, n) + 2 .. Octets + 1 : p.fields[i] = 0
       /\ \A m \in 1 .. n : IsMark(text[m]) => p.fields[Marks(text, m)] = Value(text)[m - 1]

(* One more character is read so, unless a number wraps.                   *)
LEMMA ReadsOn ==
  ASSUME NEW text \in Texts, Representable(text), NEW n \in 1 .. Len(text),
         HasRead(text, n - 1, Scanning(text)[n - 1])
  PROVE  HasRead(text, n, Scanning(text)[n])
<1> DEFINE c == text[n]
           p == Scanning(text)[n - 1]
           p1 == Scanning(text)[n]
           k == Marks(text, n - 1)
           V(m) == Value(text)[m]
<1>1. /\ n - 1 \in 0 .. Len(text) /\ n \in 0 .. Len(text) /\ Len(text) \in Nat
      /\ Octets \in Nat \ {0} /\ Word \in Nat \ {0}
  BY TextType, Sizes
<1>2. p \in Parser /\ p1 = Character(c, p)
  BY <1>1, ScanSteps
<1>3. /\ k \in Nat /\ Marks(text, n) = k + (IF IsMark(c) THEN 1 ELSE 0)
      /\ \A m \in 1 .. n - 1 : Marks(text, m) \in Nat /\ Marks(text, m) <= k
  <2>1. \A m \in 1 .. n - 1 : m \in 0 .. Len(text) /\ m \in 0 .. n - 1
    BY <1>1
  <2>2. \A m \in 0 .. n - 1 : Marks(text, m) <= k
    BY <1>1, MarksGrow
  <2> QED
    BY <1>1, <2>1, <2>2, MarkSteps
<1>4. V(n) = IF IsMark(c) THEN 0 ELSE 10 * V(n - 1) + ValueOf(c)
  BY ValueSteps
<1>5. \A m \in 1 .. n : m \in 1 .. n - 1 \/ m = n
  BY <1>1
<1>6. Expected(text, n) <=>
        /\ Expected(text, n - 1)
        /\ IsMark(c) => Marks(text, n) <= Octets
                        /\ c = IF Marks(text, n) < Octets THEN "." ELSE "/"
  <2>1. \A m \in 1 .. n - 1 : m \in 1 .. n
    BY <1>1
  <2>2. n \in 1 .. n
    BY <1>1
  <2> QED
    BY <1>5, <2>1, <2>2 DEF Expected
<1>7. /\ p.ok <=> Expected(text, n - 1)
      /\ p.ok => /\ p.nfield = k + 1 /\ p.fields[k + 1] = V(n - 1)
                 /\ \A i \in k + 2 .. Octets + 1 : p.fields[i] = 0
                 /\ \A m \in 1 .. n - 1 : IsMark(text[m]) =>
                      p.fields[Marks(text, m)] = V(m - 1)
  BY DEF HasRead
<1> HIDE DEF c, p, p1, k, V
<1>8. CASE ~p.ok
  <2>1. p1 = p
    BY <1>2, <1>8 DEF Character
  <2> QED
    BY <1>6, <1>7, <1>8, <2>1 DEF HasRead, p1
<1>9. CASE p.ok /\ IsMark(c)
  <2>1. Marks(text, n) = k + 1 /\ c \notin Digits /\ V(n) = 0
    BY <1>3, <1>4, <1>9 DEF IsMark
  <2>2. NextField(c, p) <=> k + 1 <= Octets /\ c = IF k + 1 < Octets THEN "." ELSE "/"
    BY <1>1, <1>3, <1>7, <1>9 DEF NextField, Slash
  <2>3. CASE NextField(c, p)
    <3>1. p1 = [p EXCEPT !.nfield = @ + 1]
      BY <1>2, <1>9, <2>3 DEF Character
    <3>2. p1.ok /\ p1.fields = p.fields /\ p1.nfield = k + 2
      BY <1>2, <1>3, <1>7, <1>9, <3>1 DEF Parser
    <3>3. Expected(text, n)
      BY <1>6, <1>7, <1>9, <2>1, <2>2, <2>3
    <3>4. k + 2 \in k + 2 .. Octets + 1
      BY <1>1, <1>3, <2>2, <2>3
    <3>5. p1.fields[(k + 1) + 1] = V(n) /\ (k + 1) + 1 = k + 2
      BY <1>3, <1>7, <1>9, <2>1, <3>2, <3>4
    <3>6. \A i \in (k + 1) + 2 .. Octets + 1 : p1.fields[i] = 0
      BY <1>1, <1>3, <1>7, <1>9, <3>2
    <3>7. ASSUME NEW m \in 1 .. n, IsMark(text[m])
          PROVE  p1.fields[Marks(text, m)] = V(m - 1)
      <4>1. CASE m = n
        BY <1>7, <1>9, <2>1, <3>2, <4>1
      <4>2. CASE m # n
        BY <1>5, <1>7, <1>9, <3>2, <3>7, <4>2
      <4> QED
        BY <4>1, <4>2
    <3> QED
      BY <2>1, <3>2, <3>3, <3>5, <3>6, <3>7 DEF HasRead, p1, V
  <2>4. CASE ~NextField(c, p)
    <3>1. p1 = [p EXCEPT !.ok = FALSE]
      BY <1>2, <1>9, <2>1, <2>4 DEF Character
    <3>2. ~p1.ok
      BY <1>2, <3>1 DEF Parser
    <3>3. ~Expected(text, n)
      BY <1>6, <1>9, <2>1, <2>2, <2>4
    <3> QED
      BY <3>2, <3>3 DEF HasRead, p1
  <2> QED
    BY <2>3, <2>4
<1>10. CASE p.ok /\ ~IsMark(c)
  <2>1. Marks(text, n) = k /\ c \in Digits /\ V(n) = 10 * V(n - 1) + ValueOf(c)
    BY <1>3, <1>4, <1>10 DEF IsMark
  <2>2. ~NextField(c, p)
    BY <2>1, Characters DEF NextField, Slash
  <2>3. k + 1 \in 1 .. Octets + 1
    BY <1>2, <1>7, <1>10 DEF Parser
  <2>4. V(n) = (p.fields[k + 1] * 10 + ValueOf(c)) % Word
    <3>1. V(n) \in 0 .. Word - 1
      <4>1. V(n) \in Nat /\ V(n) < Word
        BY <1>1, ValueSteps DEF V, Representable
      <4> QED
        BY <1>1, <4>1
    <3>2. V(n) % Word = V(n)
      BY <1>1, <3>1
    <3>3. V(n - 1) \in Nat /\ ValueOf(c) \in Nat
      <4>1. V(n - 1) \in Nat
        BY <1>1, ValueSteps DEF V
      <4> QED
        BY <1>1, <2>1, <4>1, Characters
    <3>4. V(n) = p.fields[k + 1] * 10 + ValueOf(c)
      BY <1>7, <1>10, <2>1, <3>3
    <3> QED
      BY <3>2, <3>4
  <2>5. p1 = [p EXCEPT !.fields[k + 1] = V(n)]
    <3>1. p1 = [p EXCEPT !.fields[p.nfield] = (@ * 10 + ValueOf(c)) % Word]
      BY <1>2, <1>10, <2>1, <2>2, Zenon DEF Character
    <3>2. p.nfield = k + 1
      BY <1>7, <1>10
    <3> QED
      BY <2>4, <3>1, <3>2
  <2>6. /\ p1.ok /\ p1.nfield = k + 1
        /\ p1.fields[k + 1] = V(n)
        /\ \A i \in 1 .. Octets + 1 : i # k + 1 => p1.fields[i] = p.fields[i]
    <3>1. p1.ok = p.ok /\ p1.nfield = p.nfield /\ p1.fields = [p.fields EXCEPT ![k + 1] = V(n)]
      BY <1>2, <2>5 DEF Parser
    <3>2. DOMAIN p.fields = 1 .. Octets + 1
      BY <1>2 DEF Parser
    <3> QED
      BY <1>7, <1>10, <2>3, <3>1, <3>2
  <2>7. Expected(text, n)
    BY <1>6, <1>7, <1>10
  <2>8. \A i \in k + 2 .. Octets + 1 : p1.fields[i] = 0
    <3>1. \A i \in k + 2 .. Octets + 1 : i \in 1 .. Octets + 1 /\ i # k + 1
      BY <1>1, <1>3
    <3> QED
      BY <1>7, <1>10, <2>6, <3>1
  <2>9. ASSUME NEW m \in 1 .. n, IsMark(text[m])
        PROVE  p1.fields[Marks(text, m)] = V(m - 1)
    <3>1. m \in 1 .. n - 1
      BY <1>5, <1>10, <2>9 DEF c
    <3>2. Marks(text, m) \in 1 .. Octets + 1 /\ Marks(text, m) # k + 1
      <4>1. Marks(text, m) \in Nat /\ Marks(text, m) <= k
        BY <1>3, <3>1
      <4>2. Marks(text, m) >= 1
        <5>1. m \in 1 .. Len(text) /\ m - 1 \in 0 .. Len(text)
          BY <1>1, <3>1
        <5>2. Marks(text, m) = Marks(text, m - 1) + 1 /\ Marks(text, m - 1) \in Nat
          BY <2>9, <5>1, MarkSteps
        <5> QED
          BY <5>2
      <4> QED
        BY <1>1, <1>3, <2>3, <4>1, <4>2
    <3> QED
      BY <1>7, <1>10, <2>6, <2>9, <3>1, <3>2
  <2> QED
    BY <2>1, <2>6, <2>7, <2>8, <2>9 DEF HasRead, p1, V
<1> QED
  BY <1>8, <1>9, <1>10

(* The whole line is read so.                                              *)
LEMMA HasReadAll ==
  ASSUME NEW text \in Texts, Representable(text)
  PROVE  HasRead(text, Len(text), Scan(text))
<1> DEFINE S == {n \in 0 .. Len(text) : HasRead(text, n, Scanning(text)[n])}
<1>1. Len(text) \in Nat /\ 0 \in Nat
  BY TextType
<1>2. 0 \in S
  <2>1. /\ Scanning(text)[0] = Start /\ Marks(text, 0) = 0 /\ Value(text)[0] = 0
        /\ Octets \in Nat
    BY ScanSteps, MarkSteps, ValueSteps, Sizes
  <2>2. /\ Start.ok /\ Start.nfield = 1
        /\ \A i \in 1 .. Octets + 1 : Start.fields[i] = 0
    BY DEF Start
  <2>3. Expected(text, 0)
    BY DEF Expected
  <2>4. HasRead(text, 0, Start)
    BY <2>1, <2>2, <2>3 DEF HasRead
  <2> QED
    BY <1>1, <2>1, <2>4
<1>3. \A n \in 0 .. Len(text) : n # 0 /\ n - 1 \in S => n \in S
  <2> TAKE n \in 0 .. Len(text)
  <2> HAVE n # 0 /\ n - 1 \in S
  <2>1. n \in 1 .. Len(text)
    OBVIOUS
  <2> QED
    BY <2>1, ReadsOn
<1>4. Len(text) \in S
  <2> HIDE DEF S
  <2>1. 0 .. Len(text) \subseteq S
    BY <1>1, <1>2, <1>3, Induction, Zenon
  <2> QED
    BY <1>1, <2>1
<1> QED
  BY <1>4 DEF Scan

(* Where a number of a line with all its marks ends.                       *)
LEMMA EndOfNumber ==
  ASSUME NEW text \in Texts, Marks(text, Len(text)) = Octets, NEW i \in 1 .. Octets + 1
  PROVE  \E m \in 0 .. Len(text) :
           /\ Number(text, i) = Value(text)[m]
           /\ Marks(text, m) = i - 1
           /\ m = Len(text) \/ (IsMark(text[m + 1]) /\ Marks(text, m + 1) = i)
<1> DEFINE N == Len(text)
           M(n) == Marks(text, n)
           Ends == {n \in 0 .. N : M(n) = i - 1}
<1>1. N \in Nat /\ Octets \in Nat /\ i - 1 \in 0 .. Octets
  BY TextType, Sizes
<1>2. /\ M(0) = 0 /\ \A n \in 0 .. N : M(n) \in Nat
      /\ \A n \in 1 .. N : M(n) = M(n - 1) + (IF IsMark(text[n]) THEN 1 ELSE 0)
  BY MarkSteps
<1> HIDE DEF N, M
<1>3. \A n \in 0 .. N : \A j \in 0 .. M(n) : \E m \in 0 .. N : M(m) = j
  <2> DEFINE S == {n \in 0 .. N : \A j \in 0 .. M(n) : \E m \in 0 .. N : M(m) = j}
  <2>1. 0 \in S
    BY <1>1, <1>2
  <2>2. ASSUME NEW n \in 0 .. N, n # 0, n - 1 \in S PROVE n \in S
    <3>1. n \in 1 .. N /\ n - 1 \in 0 .. N
      BY <1>1, <2>2
    <3>2. M(n) \in {M(n - 1), M(n - 1) + 1} /\ M(n - 1) \in Nat /\ M(n) \in Nat
      BY <1>2, <3>1
    <3>3. \A j \in 0 .. M(n) : j = M(n) \/ j \in 0 .. M(n - 1)
      BY <3>2
    <3> QED
      BY <2>2, <3>3
  <2>3. \A n \in 0 .. N : n # 0 /\ n - 1 \in S => n \in S
    BY <2>2, Zenon
  <2>4. 0 .. N \subseteq S
    <3>1. 0 \in Nat
      OBVIOUS
    <3> HIDE DEF S
    <3> QED
      BY <1>1, <2>1, <2>3, <3>1, Induction, Zenon
  <2> QED
    BY <2>4
<1>4. PICK e \in Ends : \A n \in Ends : n <= e
  <2> DEFINE FromEnd == {N - n : n \in Ends}
  <2>1. \E n \in 0 .. N : M(n) = i - 1
    <3>1. N \in 0 .. N /\ i - 1 \in 0 .. M(N)
      BY <1>1 DEF M, N
    <3> QED
      BY <1>3, <3>1
  <2>2. FromEnd \subseteq Nat /\ FromEnd # {}
    BY <1>1, <2>1
  <2>3. PICK b \in FromEnd : \A x \in FromEnd : b <= x
    <3> HIDE DEF FromEnd
    <3> QED
      BY <2>2, LeastNumber
  <2>4. PICK n \in Ends : b = N - n
    BY <2>3
  <2>5. ASSUME NEW x \in Ends PROVE x <= n
    <3>1. b <= N - x
      BY <2>3
    <3> QED
      BY <1>1, <2>4, <3>1
  <2> QED
    BY <2>5
<1>5. Number(text, i) = Value(text)[e]
  <2>1. Max(Ends) = e
    <3>1. Max(Ends) \in Ends /\ \A n \in Ends : Max(Ends) >= n
      <4>1. e \in Ends /\ \A n \in Ends : e >= n
        BY <1>1, <1>4
      <4> HIDE DEF Ends
      <4> QED
        BY <4>1 DEF Max
    <3> QED
      BY <1>1, <1>4, <3>1
  <2> QED
    BY <2>1, Zenon DEF Number, M, N
<1>6. CASE e = N
  BY <1>1, <1>4, <1>5, <1>6 DEF M, N
<1>7. CASE e # N
  <2>1. e + 1 \in 1 .. N /\ e + 1 \in 0 .. N /\ (e + 1) - 1 = e /\ M(e) = i - 1
    BY <1>1, <1>4, <1>7
  <2>2. M(e + 1) # i - 1
    BY <1>1, <1>4, <2>1
  <2>3. IsMark(text[e + 1]) /\ M(e + 1) = i
    BY <1>1, <1>2, <2>1, <2>2
  <2> QED
    BY <1>4, <1>5, <2>1, <2>3 DEF M, N
<1> QED
  BY <1>6, <1>7

(* A line is taken if it is sound, and its numbers are then the fields.    *)
LEMMA TakenIfSound ==
  ASSUME NEW text \in Texts, Representable(text)
  PROVE  /\ Accepted(Scan(text)) <=> Sound(text)
         /\ Sound(text) => \A i \in 1 .. Octets + 1 : Scan(text).fields[i] = Number(text, i)
<1> DEFINE p == Scan(text)
           N == Len(text)
<1>1. /\ Octets \in Nat \ {0} /\ N \in Nat /\ N \in 0 .. N
      /\ Octet \subseteq 1 .. Octets + 1 /\ Octets + 1 \in 1 .. Octets + 1
  BY Sizes, TextType DEF Octet
<1>2. HasRead(text, N, p)
  BY HasReadAll
<1>3. Marks(text, N) \in Nat /\ \A m \in 1 .. N : Marks(text, m) <= Marks(text, N)
  BY <1>1, MarkSteps, MarksGrow
<1> DEFINE Marked == /\ Marks(text, N) = Octets
                     /\ \A n \in DOMAIN text : IsMark(text[n]) =>
                          text[n] = IF Marks(text, n) < Octets THEN "." ELSE "/"
<1>4. p.ok /\ p.nfield = Octets + 1 <=> Marked
  <2>1. DOMAIN text = 1 .. N
    BY TextType
  <2>2. Marked <=> Marks(text, N) = Octets /\ Expected(text, N)
    BY <1>1, <1>3, <2>1 DEF Expected
  <2>3. p.ok => (p.nfield = Octets + 1 <=> Marks(text, N) = Octets)
    BY <1>1, <1>2, <1>3 DEF HasRead
  <2>4. p.ok <=> Expected(text, N)
    BY <1>2 DEF HasRead
  <2> HIDE DEF p, Marked
  <2> QED
    BY <2>2, <2>3, <2>4
<1>5. ASSUME Marked, NEW i \in 1 .. Octets + 1 PROVE p.fields[i] = Number(text, i)
  <2>1. p.ok
    BY <1>4, <1>5
  <2>2. PICK m \in 0 .. N :
          /\ Number(text, i) = Value(text)[m]
          /\ Marks(text, m) = i - 1
          /\ m = N \/ (IsMark(text[m + 1]) /\ Marks(text, m + 1) = i)
    BY <1>5, EndOfNumber
  <2>3. CASE m = N
    <3>1. i = Marks(text, N) + 1
      BY <2>2, <2>3
    <3> QED
      BY <1>2, <2>1, <2>2, <2>3, <3>1 DEF HasRead
  <2>4. CASE m # N
    <3>1. m + 1 \in 1 .. N /\ (m + 1) - 1 = m
      BY <1>1, <2>4
    <3>2. IsMark(text[m + 1]) /\ Marks(text, m + 1) = i
      BY <2>2, <2>4
    <3>3. p.fields[Marks(text, m + 1)] = Value(text)[(m + 1) - 1]
      BY <1>2, <2>1, <3>1, <3>2 DEF HasRead
    <3> QED
      BY <2>2, <3>1, <3>2, <3>3
  <2> QED
    BY <2>3, <2>4
<1>6. Sound(text) <=> /\ Marked
                      /\ \A i \in Octet : Number(text, i) <= OctetMax
                      /\ Number(text, Octets + 1) \in 1 .. Width
  BY Zenon DEF Sound
<1>7. Accepted(p) <=> /\ p.ok /\ p.nfield = Octets + 1
                      /\ \A i \in Octet : p.fields[i] <= OctetMax
                      /\ p.fields[Octets + 1] \in 1 .. Width
  BY DEF Accepted
<1> HIDE DEF Marked, p
<1> QED
  BY <1>1, <1>4, <1>5, <1>6, <1>7 DEF p

-----------------------------------------------------------------------------
(* The command that sets the address.                                      *)

(* The command does what a sound line means, and nothing for any other.    *)
LEMMA CommandMeans ==
  ASSUME NEW text \in Texts, Representable(text)
  PROVE  SetIPAddress(text) = IF Sound(text) THEN Meaning(text) ELSE ipConfig
<1> DEFINE p == Scan(text)
           n == Number(text, Octets + 1)
           mask == OctetsOf(Mask(p.fields[Octets + 1]))
           host == Pow2[Width - n]
           address == Joined(text)[Octets]
           last == (address \div host) * host + host - 1
<1>1. CASE ~Sound(text)
  BY <1>1, TakenIfSound, Zenon DEF SetIPAddress
<1>2. CASE Sound(text)
  <2>1. /\ Accepted(p)
        /\ \A i \in Octet : p.fields[i] = Number(text, i)
        /\ p.fields[Octets + 1] = n
    <3>1. Octet \subseteq 1 .. Octets + 1 /\ Octets + 1 \in 1 .. Octets + 1
      BY Sizes DEF Octet
    <3> QED
      BY <1>2, <3>1, TakenIfSound
  <2>2. \A i \in Octet : Number(text, i) \in 0 .. OctetMax
    <3>1. OctetMax \in Nat
      BY Sizes, PowerType DEF OctetMax
    <3>2. ASSUME NEW i \in Octet PROVE Number(text, i) \in Nat
      <4>1. Scan(text) \in Parser
        BY TextType, ScanSteps DEF Scan
      <4>2. i \in 1 .. Octets + 1
        BY Sizes DEF Octet
      <4> QED
        BY <2>1, <4>1, <4>2 DEF Parser
    <3>3. \A i \in Octet : Number(text, i) <= OctetMax
      BY <1>2 DEF Sound
    <3> QED
      BY <3>1, <3>2, <3>3
  <2>3. Width - n \in 0 .. Width /\ n \in 0 .. Width
    <3>1. n \in 1 .. Width
      BY <1>2 DEF Sound
    <3> QED
      BY <3>1, Sizes
  <2>4. mask = OctetsOf(Pow2[Width] - host)
    <3>1. Pow2[Width] \in Nat /\ host \in Nat
      BY <2>3, Sizes, PowerType
    <3>2. Mask(n) = Pow2[Width] - host
      BY <3>1 DEF Mask
    <3> QED
      BY <2>1, <3>2
  <2>5. /\ address \in Nat
        /\ \A i \in Octet : OctetsOf(address)[i] = Number(text, i)
    BY <2>2, JoinedOctets
  <2>6. [i \in Octet |-> p.fields[i]] = OctetsOf(address)
    <3> HIDE DEF p, address
    <3>1. \A i \in Octet : p.fields[i] = OctetsOf(address)[i]
      BY <2>1, <2>5
    <3>2. OctetsOf(address) = [i \in Octet |-> OctetsOf(address)[i]]
      BY DEF OctetsOf
    <3> QED
      BY <3>1, <3>2
  <2>7. [i \in Octet |-> Or(p.fields[i], OctetMax - mask[i])] = OctetsOf(last)
    <3>1. \A i \in Octet : Or(p.fields[i], OctetMax - mask[i]) = OctetsOf(last)[i]
      <4> TAKE i \in Octet
      <4>1. OctetsOf(last)[i] =
              Or(OctetsOf(address)[i], OctetMax - OctetsOf(Pow2[Width] - host)[i])
        BY <2>3, <2>5, BroadcastOctet
      <4> QED
        BY <2>1, <2>4, <2>5, <4>1
    <3>2. OctetsOf(last) = [i \in Octet |-> OctetsOf(last)[i]]
      <4> HIDE DEF last
      <4> QED
        BY DEF OctetsOf
    <3> HIDE DEF p, mask, last
    <3> QED
      BY <3>1, <3>2
  <2>8. SetIPAddress(text) =
          [address |-> [i \in Octet |-> p.fields[i]], netmask |-> mask,
           broadcast |-> [i \in Octet |-> Or(p.fields[i], OctetMax - mask[i])]]
    BY <2>1, Zenon DEF SetIPAddress
  <2>9. Meaning(text) =
          [address |-> OctetsOf(address), netmask |-> OctetsOf(Pow2[Width] - host),
           broadcast |-> OctetsOf(last)]
    BY Zenon DEF Meaning
  <2> HIDE DEF p, mask, last, address, host
  <2> QED
    BY <1>2, <2>4, <2>6, <2>7, <2>8, <2>9
<1> QED
  BY <1>1, <1>2

(* The configuration is always what the sound lines typed so far stand     *)
(* for: the address typed, its network's mask and that network's last      *)
(* address, whatever was typed in between (SetIPAddress).                  *)
THEOREM AddressIsAsTyped == IpSpec => []ConfiguredAsMeant
<1>1. IpInit => ConfiguredAsMeant
  BY DEF IpInit, ConfiguredAsMeant
<1>2. ConfiguredAsMeant /\ [IpNext]_ipVars => ConfiguredAsMeant'
  <2> SUFFICES ASSUME ConfiguredAsMeant, [IpNext]_ipVars PROVE ConfiguredAsMeant'
    OBVIOUS
  <2>1. CASE IpNext
    <3>1. PICK text \in Texts :
            /\ ipConfig' = SetIPAddress(text)
            /\ meant' = IF ~Representable(text) THEN ipConfig'
                        ELSE IF Sound(text) THEN Meaning(text)
                        ELSE meant
      BY <2>1 DEF IpNext
    <3>2. Representable(text) => SetIPAddress(text) = IF Sound(text) THEN Meaning(text) ELSE ipConfig
      BY CommandMeans
    <3> QED
      BY <3>1, <3>2 DEF ConfiguredAsMeant
  <2>2. CASE UNCHANGED ipVars
    BY <2>2 DEF ipVars, ConfiguredAsMeant
  <2> QED
    BY <2>1, <2>2
<1> QED
  BY <1>1, <1>2, PTL DEF IpSpec

=============================================================================
