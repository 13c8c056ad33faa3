--------------------------- MODULE STM32NTPClient ---------------------------
(***************************************************************************)
(* The settings of the NTP client (services/STM32NTPClient.{h,cpp}): three *)
(* values in RAM and three objects in the key-value store, written one     *)
(* after the other.  What goes without an object has a default, when it is *)
(* loaded and, to spare flash, when it is saved.                           *)
(***************************************************************************)
EXTENDS Naturals, MicroKVS

CONSTANTS
  Address, DefaultServer,  \* servers, and g_defaultNtpServer
  Offset, DefaultOffset    \* UTC offsets, and eight hours west

ASSUME NtpAssumption ==
  /\ DefaultServer \in Address /\ DefaultOffset \in Offset
  /\ Absent \notin BOOLEAN /\ Absent \notin Address /\ Absent \notin Offset

Settings == [enable : BOOLEAN, server : Address, tzoffset : Offset]
Objects == <<"enable", "server", "tzoffset">>   \* in the order of saving

VARIABLES
  ntp,        \* IsEnabled(), m_serverAddress, m_utcOffset
  ntpStore,   \* the objects of the store
  objectNext, \* object SaveConfigToKVS() comes to next; 0: it does not run
  saved       \* the settings were saved without error and not changed since

ntpVars == <<ntp, ntpStore, objectNext, saved>>

(* The defaults of LoadConfigFromKVS() and of SaveConfigToKVS().           *)
LoadDefault == [enable |-> TRUE, server |-> DefaultServer, tzoffset |-> DefaultOffset]
SaveDefault == [enable |-> FALSE, server |-> DefaultServer, tzoffset |-> DefaultOffset]

LoadConfigFromKVS ==
  [f \in DOMAIN LoadDefault |-> ReadObject(ntpStore[f], LoadDefault[f])]

NtpInit ==
  /\ ntpStore = [f \in DOMAIN LoadDefault |-> Absent]
  /\ ntp = LoadDefault
  /\ objectNext = 0 /\ saved = FALSE

(* The application changes settings through the client's base class.       *)
Configure ==
  /\ objectNext = 0 /\ ntp' \in Settings /\ saved' = FALSE
  /\ UNCHANGED <<ntpStore, objectNext>>

StartSave ==
  /\ objectNext = 0 /\ objectNext' = 1 /\ saved' = TRUE
  /\ UNCHANGED <<ntp, ntpStore>>

\* Variant: a value equal to the default is not stored even over another.
StoreNecessary_NotDefault(f) == ntp[f] \notin {ntpStore[f], SaveDefault[f]}
StoreNecessary(f) == Necessary(ntpStore[f], ntp[f], SaveDefault[f])

(* One object; after an error the others are saved all the same.           *)
SaveObject ==
  LET f == Objects[objectNext] IN
  /\ objectNext # 0
  /\ \/ /\ ntpStore' = IF StoreNecessary(f) THEN [ntpStore EXCEPT ![f] = ntp[f]]
                                            ELSE ntpStore
        /\ UNCHANGED saved
     \/ StoreNecessary(f) /\ saved' = FALSE /\ UNCHANGED ntpStore
  /\ objectNext' = (objectNext + 1) % 4
  /\ UNCHANGED ntp

(* A reset or a power loss at any time, then the constructor.              *)
RestartNtp ==
  /\ ntp' = LoadConfigFromKVS
  /\ objectNext' = 0 /\ saved' = (saved /\ objectNext = 0)
  /\ UNCHANGED ntpStore

(* The command line's RemoveFlashKey() with one of the objects.            *)
RemoveNtpObject(f) ==
  /\ objectNext = 0 /\ ntpStore[f] # Absent
  /\ ntpStore' = [ntpStore EXCEPT ![f] = Absent] /\ saved' = FALSE
  /\ UNCHANGED <<ntp, objectNext>>

NtpNext ==
  \/ Configure \/ StartSave \/ SaveObject \/ RestartNtp
  \/ \E f \in DOMAIN LoadDefault : RemoveNtpObject(f)

NtpSpec == NtpInit /\ [][NtpNext]_ntpVars

-----------------------------------------------------------------------------
(* Properties.                                                             *)

(* Settings that were saved without an error are the same after a restart. *)
SavedSurvives == saved /\ objectNext = 0 => LoadConfigFromKVS = ntp

(* As the code has it: all but a client that was switched off and has no   *)
(* object to say so.                                                       *)
SavedSurvivesUnlessOff ==
  saved /\ objectNext = 0 =>
    LoadConfigFromKVS = IF ntp.enable \/ ntpStore.enable # Absent THEN ntp
                        ELSE [ntp EXCEPT !.enable = TRUE]

=============================================================================
