---------------------------- MODULE IpDuplicates ----------------------------
(***************************************************************************)
(* Duplicate packet detection of Ipv4L3Protocol for multicast packets: the *)
(* table m_dups of what was seen, until when each entry counts, and the    *)
(* event m_cleanDpd that purges the table now and then.                    *)
(***************************************************************************)
EXTENDS Integers, FiniteSets

CONSTANTS
  Hashes,               \* keys: hash, protocol, source and destination of a packet
  m_expire, m_purge,    \* in ticks
  MaxDupTime            \* bound: ticks

DupAssumption == m_expire \in Nat /\ m_purge \in Nat /\ MaxDupTime \in Nat /\ IsFiniteSet(Hashes)

ASSUME DupAssumption

VARIABLES
  m_dups,       \* for a key, until when it counts
  cleanDpd,     \* the tick of the pending RemoveDuplicates, -1 if none
  dupNow,
  lastSeen      \* history: when each key was last seen, -1 if never

dupVars == <<m_dups, cleanDpd, dupNow, lastSeen>>

DupInit == m_dups = <<>> /\ cleanDpd = -1 /\ dupNow = 0 /\ lastSeen = [h \in Hashes |-> -1]

IsDup(h) == h \in DOMAIN m_dups /\ m_dups[h] > dupNow

\* UpdateDuplicate: also a packet that is dropped makes the entry count longer.
UpdateDuplicate_FirstOnly(h) ==
  /\ m_dups' = [k \in DOMAIN m_dups \cup {h} |->
                 IF k = h /\ ~IsDup(h) THEN dupNow + m_expire ELSE m_dups[k]]
  /\ cleanDpd' = IF cleanDpd = -1 /\ m_purge > 0 THEN dupNow + m_expire ELSE cleanDpd
  /\ lastSeen' = [lastSeen EXCEPT ![h] = dupNow]
  /\ UNCHANGED dupNow
UpdateDuplicate(h) ==
  /\ m_dups' = [k \in DOMAIN m_dups \cup {h} |-> IF k = h THEN dupNow + m_expire ELSE m_dups[k]]
  /\ cleanDpd' = IF cleanDpd = -1 /\ m_purge > 0 THEN dupNow + m_expire ELSE cleanDpd
  /\ lastSeen' = [lastSeen EXCEPT ![h] = dupNow]
  /\ UNCHANGED dupNow

RemoveDuplicates_Once ==
  /\ cleanDpd = dupNow /\ cleanDpd' = -1
  /\ m_dups' = [h \in {k \in DOMAIN m_dups : m_dups[k] >= dupNow} |-> m_dups[h]]
  /\ UNCHANGED <<dupNow, lastSeen>>
RemoveDuplicates ==
  /\ cleanDpd = dupNow
  /\ m_dups' = [h \in {k \in DOMAIN m_dups : m_dups[k] >= dupNow} |-> m_dups[h]]
  /\ cleanDpd' = IF DOMAIN m_dups' # {} /\ m_purge > 0 THEN dupNow + m_purge ELSE -1
  /\ UNCHANGED <<dupNow, lastSeen>>

DupTick ==
  /\ dupNow < MaxDupTime /\ cleanDpd # dupNow /\ dupNow' = dupNow + 1
  /\ UNCHANGED <<m_dups, cleanDpd, lastSeen>>

DupNext == (\E h \in Hashes : UpdateDuplicate(h)) \/ RemoveDuplicates \/ DupTick
DupSpec == DupInit /\ [][DupNext]_dupVars

----------------------------------------------------------------------------
(* Properties.                                                             *)

\* A packet is taken for a duplicate exactly when it was seen less than
\* m_expire ago, whenever the table was purged in between.
DuplicateIfRecent == \A h \in Hashes :
  IsDup(h) <=> lastSeen[h] >= 0 /\ dupNow < lastSeen[h] + m_expire

\* Entries do not stay for ever: as long as there are any a purge is pending,
\* and none is older than the time between two purges allows.
TablePurged == m_purge > 0 =>
  /\ DOMAIN m_dups # {} => cleanDpd >= dupNow
  /\ \A h \in DOMAIN m_dups :
       dupNow <= lastSeen[h] + m_expire + (IF m_purge > m_expire THEN m_purge ELSE m_expire)

\* UpdateDuplicate knows what is recent, and RemoveDuplicates forgets the rest.
DuplicatesFound == DuplicateIfRecent /\ TablePurged
==============================================================================
