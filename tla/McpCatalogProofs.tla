--------------------------- MODULE McpCatalogProofs ---------------------------
(***************************************************************************)
(* Theorems about the MCP catalogue, for every number of servers, attempts, *)
(* edits, failures and lost leases: sessions live as long as they are       *)
(* needed.                                                                  *)
(***************************************************************************)
EXTENDS McpCatalog, FiniteSetTheorems, TLAPS

Lessees(n) == {u \in User : n \in user[u].held}
Opened(n) == n[1] \in refresher.opened /\ n[2] = made[n[1]]
Ending(n) == table[n].session = "stopped" \/ \E a \in Actor : n \in stopping[a]

\* An entry that is made, not current, and will not become current.
Dead(n) == ~Installed(n) /\ ~Opened(n) /\ n[2] <= made[n[1]]

\* The leases of an entry are those of its holders and those that were lost.
LeasesCounted(n) ==
    /\ Cardinality(Lessees(n)) <= table[n].leases
    /\ n \notin lost => Cardinality(Lessees(n)) = table[n].leases

\* Where the task is, and what it has opened; nothing is held without a lease or after close().
RefreshShape ==
    /\ refresher.opened # {} => ~LockFree
    /\ refresher.pc = "opening" => /\ refresher.opened \subseteq refresher.want
                                   /\ \A s \in refresher.want \ refresher.opened : made[s] < MaxEntries
    /\ \A s \in refresher.opened : current[s] < made[s]
    /\ \A s \in Server : current[s] <= made[s]
    /\ \A u \in User : user[u].pc \in {"idle", "stopping"} => user[u].held = {}
    /\ shut => /\ LockFree /\ kept = {} /\ \A s \in Server : current[s] = 0
               /\ \A u \in User : user[u].held = {}

EntryInv(n) ==
    /\ n[2] > made[n[1]] => table[n].session = "unmade"
    /\ n[2] > made[n[1]] \/ Opened(n) => table[n].leases = 0
    /\ Opened(n) => table[n].session \in {"open", "failed"}
    /\ Opened(n) \/ Installed(n) => ~table[n].retired
    /\ Ending(n) => Dead(n) /\ Lessees(n) = {}
    /\ table[n].session = "open" => Installed(n) \/ n \in kept \/ Opened(n) \/ Ending(n)
    /\ n \in kept => Dead(n) /\ table[n].retired /\ table[n].leases > 0
    /\ Lessees(n) # {} => Installed(n) \/ n \in kept

\* Nobody begins to stop sessions before the last ones are stopped.
StoppingShape ==
    /\ \A u \in User : user[u].pc # "stopping" => stopping[<<"user", u>>] = {}
    /\ \A s \in Server : edit[s] \in {"idle", "write", "delete"} => stopping[<<"edit", s>>] = {}
    /\ refresher.pc \in {"off", "lock"} => stopping[Refresher] = {}
    /\ ~shut => stopping[Closer] = {}

\* Broken sessions are marked, and the mark is seen by a refresh that has not begun.
BrokenInv == BrokenIsReplaced
    /\ \A s \in Server : (current[s] # 0 /\ table[Now(s)].session = "broken") => table[Now(s)].refresh

CatalogInv ==
    /\ CatalogTypeOK /\ RefreshShape /\ StoppingShape /\ BrokenInv
    /\ \A n \in Entry : LeasesCounted(n) /\ EntryInv(n)

-----------------------------------------------------------------------------
(* Entries and their holders.                                              *)

LEMMA EntryParts ==
    ASSUME NEW n \in Entry
    PROVE  n[1] \in Server /\ n[2] \in 1..MaxEntries /\ n[2] \in Nat /\ n[2] # 0 /\ n = <<n[1], n[2]>>
BY CatalogAssumption DEF Entry

LEMMA NowIsEntry ==
    ASSUME CatalogTypeOK, NEW s \in Server, current[s] # 0
    PROVE  Now(s) \in Entry /\ Installed(Now(s)) /\ Now(s)[1] = s /\ Now(s)[2] = current[s]
BY CatalogAssumption DEF CatalogTypeOK, Entry, Now, Installed

LEMMA InstalledIsNow ==
    ASSUME NEW n \in Entry, Installed(n)
    PROVE  n = Now(n[1]) /\ current[n[1]] # 0
BY EntryParts DEF Now, Installed

LEMMA LesseesFinite ==
    ASSUME NEW n
    PROVE  IsFiniteSet(Lessees(n)) /\ Cardinality(Lessees(n)) \in Nat
           /\ (Cardinality(Lessees(n)) = 0 <=> Lessees(n) = {})
<1>1. Lessees(n) \subseteq User /\ IsFiniteSet(User)
  BY CatalogAssumption DEF Lessees
<1>2. IsFiniteSet(Lessees(n))
  BY <1>1, FS_Subset
<1> QED BY <1>2, FS_CardinalityType, FS_EmptySet

LEMMA LeasesStayCounted ==
    ASSUME NEW n \in Entry, LeasesCounted(n), user' = user, lost' = lost,
           table'[n].leases = table[n].leases
    PROVE  LeasesCounted(n)' /\ Lessees(n)' = Lessees(n)
BY DEF LeasesCounted, Lessees

LEMMA OneMore ==
    ASSUME NEW S, IsFiniteSet(S), NEW u, u \notin S
    PROVE  Cardinality(S \cup {u}) = Cardinality(S) + 1
BY FS_AddElement

LEMMA OneLess ==
    ASSUME NEW S, IsFiniteSet(S), NEW u \in S
    PROVE  Cardinality(S \ {u}) = Cardinality(S) - 1
BY FS_RemoveElement

-----------------------------------------------------------------------------
LEMMA CatalogStart == CatalogInit => CatalogInv
<1> SUFFICES ASSUME CatalogInit PROVE CatalogInv
  OBVIOUS
<1> USE CatalogAssumption DEF CatalogInit
<1>1. CatalogTypeOK
  <2>1. current \in [Server -> 0..MaxEntries]
    OBVIOUS
  <2>2. table \in [Entry -> EntryRow]
    BY EntryParts DEF Blank, EntryRow
  <2>3. refresher \in RefreshTask
    BY DEF NoRefresh, RefreshTask
  <2>4. user \in [User -> [pc : {"idle", "using", "leaving", "stopping"}, held : SUBSET Entry]]
    BY DEF NoLease
  <2>5. made \in [Server -> 0..MaxEntries] /\ \A s \in Server : current[s] <= made[s]
    BY <2>1
  <2>6. edits \in 0..MaxEdits /\ breaks \in 0..MaxBreaks /\ leaks \in 0..MaxLeaks
    OBVIOUS
  <2>7. stopping \in [Actor -> SUBSET Entry] /\ edit \in [Server -> {"idle", "write", "delete", "refresh", "answer"}]
    OBVIOUS
  <2>8. kept \subseteq Entry /\ lost \subseteq Entry /\ shut \in BOOLEAN /\ declared \in [Server -> Fingerprint \cup {0}]
    OBVIOUS
  <2> HIDE DEF CatalogInit
  <2> QED BY <2>1, <2>2, <2>3, <2>4, <2>5, <2>6, <2>7, <2>8 DEF CatalogTypeOK
<1>2. RefreshShape
  BY DEF RefreshShape, NoRefresh, LockFree, NoLease
<1>3. \A n \in Entry : table[n].session \in {"none", "unmade"} /\ table[n].leases = 0 /\ ~table[n].retired
  BY DEF Blank
<1>4. BrokenInv
  BY <1>1, <1>3, NowIsEntry DEF BrokenInv, BrokenIsReplaced, NoRefresh
<1>5. \A n \in Entry : Lessees(n) = {}
  BY DEF Lessees, NoLease
<1>6. ASSUME NEW n \in Entry PROVE LeasesCounted(n) /\ EntryInv(n)
  <2>1. LeasesCounted(n)
    BY <1>3, <1>5, LesseesFinite DEF LeasesCounted
  <2>2. refresher.opened = {} /\ ~Ending(n) /\ n \notin kept
    BY <1>3 DEF NoRefresh, Ending
  <2>3. n[2] > made[n[1]] => table[n].session = "unmade"
    BY EntryParts DEF Installed, Blank
  <2> QED BY <1>3, <1>5, <2>1, <2>2, <2>3 DEF EntryInv, Opened
<1>20. StoppingShape
  BY <1>1 DEF StoppingShape, Actor, Refresher, Closer, NoLease, NoRefresh
<1> QED BY <1>20, <1>1, <1>2, <1>4, <1>6 DEF CatalogInv

LEMMA CatalogStands == CatalogInv /\ UNCHANGED catalogVars => CatalogInv'
<1> SUFFICES ASSUME CatalogInv, UNCHANGED catalogVars PROVE CatalogInv'
  OBVIOUS
<1> USE DEF catalogVars
<1>1. CatalogTypeOK' /\ RefreshShape'
  BY DEF CatalogInv, CatalogTypeOK, RefreshShape, LockFree
<1>2. BrokenInv'
  BY DEF CatalogInv, BrokenInv, BrokenIsReplaced, Now
<1>3. ASSUME NEW n \in Entry PROVE LeasesCounted(n)' /\ EntryInv(n)'
  <2>1. LeasesCounted(n) /\ EntryInv(n)
    BY DEF CatalogInv
  <2>2. Lessees(n)' = Lessees(n) /\ (Opened(n)' <=> Opened(n)) /\ (Ending(n)' <=> Ending(n))
        /\ (Dead(n)' <=> Dead(n)) /\ (Installed(n)' <=> Installed(n))
    BY DEF Lessees, Opened, Ending, Dead, Installed
  <2> QED BY <2>1, <2>2 DEF LeasesCounted, EntryInv
<1>20. StoppingShape'
  BY DEF CatalogInv, StoppingShape
<1> QED BY <1>20, <1>1, <1>2, <1>3 DEF CatalogInv

-----------------------------------------------------------------------------
(* Steps that leave the entries as they are.                               *)

LEMMA EntriesStay ==
    ASSUME CatalogInv, UNCHANGED <<current, made, table, kept, stopping, lost>>,
           refresher'.opened = refresher.opened, \A u \in User : user'[u].held = user[u].held
    PROVE  \A n \in Entry : LeasesCounted(n)' /\ EntryInv(n)'
<1> TAKE n \in Entry
<1>1. LeasesCounted(n) /\ EntryInv(n)
  BY DEF CatalogInv
<1>2. Lessees(n)' = Lessees(n) /\ (Opened(n)' <=> Opened(n)) /\ (Ending(n)' <=> Ending(n))
      /\ (Dead(n)' <=> Dead(n)) /\ (Installed(n)' <=> Installed(n))
  BY DEF Lessees, Opened, Ending, Dead, Installed
<1> QED BY <1>1, <1>2 DEF LeasesCounted, EntryInv

\* What a request does to the task.
LEMMA RequestedTask ==
    ASSUME CatalogTypeOK, NEW skip \in SUBSET Server
    PROVE  /\ Requested(skip) \in RefreshTask
           /\ Requested(skip).opened = refresher.opened /\ Requested(skip).want = refresher.want
           /\ ~shut => Requested(skip).pc = "lock" \/ Requested(skip).again
           /\ refresher.again => Requested(skip).again
           /\ Requested(skip).pc \in {refresher.pc, "lock"}
           /\ refresher.pc # "off" => Requested(skip).pc = refresher.pc
           /\ shut => Requested(skip) = refresher
BY DEF CatalogTypeOK, Requested, RefreshTask

\* A request leaves the shape of the task and the promise of a refresh as they are.
LEMMA RequestedShape ==
    ASSUME CatalogInv, NEW skip \in SUBSET Server, refresher' \in {refresher, Requested(skip)},
           UNCHANGED <<current, made, kept, shut>>,
           \A u \in User : user'[u].pc \in {"idle", "stopping"} => user'[u].held = {},
           shut => \A u \in User : user'[u].held = {}
    PROVE  RefreshShape'
<1>1. /\ refresher'.opened = refresher.opened /\ refresher'.want = refresher.want
      /\ refresher'.pc \in {refresher.pc, "lock"}
      /\ refresher.pc # "off" => refresher'.pc = refresher.pc
      /\ shut => refresher' = refresher
  BY RequestedTask DEF CatalogInv
<1> QED BY <1>1 DEF CatalogInv, RefreshShape, LockFree

LEMMA RequestedBroken ==
    ASSUME CatalogInv, NEW skip \in SUBSET Server, refresher' \in {refresher, Requested(skip)},
           UNCHANGED <<current, shut>>,
           \A n \in Entry : table'[n].session = table[n].session /\ table'[n].refresh = table[n].refresh
    PROVE  BrokenInv'
<1>1. /\ refresher'.opened = refresher.opened /\ refresher'.want = refresher.want
      /\ refresher.again => refresher'.again
      /\ refresher.pc # "off" => refresher'.pc = refresher.pc
  BY RequestedTask DEF CatalogInv
<1>2. \A s \in Server : current[s] # 0 => Now(s) \in Entry /\ Now(s)' = Now(s)
  BY NowIsEntry DEF Now, CatalogInv
<1> QED BY <1>1, <1>2 DEF CatalogInv, BrokenInv, BrokenIsReplaced

LEMMA WriteStep ==
    ASSUME CatalogInv, NEW s \in Server, NEW fp \in Fingerprint \cup {0}, WriteServer(s, fp)
    PROVE  CatalogInv'
<1> USE CatalogAssumption DEF WriteServer
<1>1. CatalogTypeOK'
  BY DEF CatalogInv, CatalogTypeOK
<1>2. RefreshShape'
  BY DEF CatalogInv, RefreshShape, LockFree
<1>3. BrokenInv'
  BY DEF CatalogInv, BrokenInv, BrokenIsReplaced, Now
<1>20. StoppingShape'
  BY DEF CatalogInv, StoppingShape, CatalogTypeOK
<1> QED BY <1>20, <1>1, <1>2, <1>3, EntriesStay DEF CatalogInv

LEMMA AnswerStep ==
    ASSUME CatalogInv, NEW s \in Server, AnswerEdit(s)
    PROVE  CatalogInv'
<1> USE DEF AnswerEdit
<1>1. refresher' \in {refresher, Requested({})} /\ refresher' \in RefreshTask
      /\ refresher'.opened = refresher.opened
  BY RequestedTask DEF CatalogInv, CatalogTypeOK
<1>2. CatalogTypeOK'
  BY <1>1 DEF CatalogInv, CatalogTypeOK
<1>3. RefreshShape'
  BY <1>1, RequestedShape DEF CatalogInv, RefreshShape
<1>4. BrokenInv'
  BY <1>1, RequestedBroken
<1>20. StoppingShape'
  <2>1. refresher'.pc \in {"off", "lock"} => refresher.pc \in {"off", "lock"}
    BY <1>1, RequestedTask DEF CatalogInv
  <2> QED BY <2>1 DEF CatalogInv, StoppingShape, CatalogTypeOK
<1> QED BY <1>20, <1>1, <1>2, <1>3, <1>4, EntriesStay DEF CatalogInv

LEMMA RefuseStep ==
    ASSUME CatalogInv, RefuseRefresh
    PROVE  CatalogInv'
<1> USE DEF RefuseRefresh
<1>1. refresher' = NoRefresh /\ refresher.opened = {} /\ refresher' \in RefreshTask /\ NoRefresh.opened = {}
  BY DEF CatalogInv, RefreshShape, LockFree, NoRefresh, RefreshTask
<1>2. CatalogTypeOK'
  BY <1>1 DEF CatalogInv, CatalogTypeOK
<1>3. RefreshShape'
  BY <1>1 DEF CatalogInv, RefreshShape, LockFree, NoRefresh
<1>4. BrokenInv'
  BY <1>1 DEF CatalogInv, BrokenInv, BrokenIsReplaced, Now
<1>20. StoppingShape'
  BY DEF CatalogInv, StoppingShape
<1> QED BY <1>20, <1>1, <1>2, <1>3, <1>4, EntriesStay DEF CatalogInv

LEMMA DoneStep ==
    ASSUME CatalogInv, RefreshDone
    PROVE  CatalogInv'
<1> USE DEF RefreshDone
<1>1. refresher \in RefreshTask
  BY DEF CatalogInv, CatalogTypeOK
<1>2. /\ refresher.opened = {} /\ refresher' \in RefreshTask /\ refresher'.opened = {}
      /\ refresher'.pc \in {"off", "lock"}
      /\ refresher.again /\ ~shut => refresher'.pc = "lock"
  BY <1>1 DEF CatalogInv, RefreshShape, LockFree, NoRefresh, RefreshTask
<1>3. CatalogTypeOK'
  BY <1>2 DEF CatalogInv, CatalogTypeOK
<1>4. RefreshShape'
  BY <1>2 DEF CatalogInv, RefreshShape, LockFree
<1>5. BrokenInv'
  BY <1>2 DEF CatalogInv, BrokenInv, BrokenIsReplaced, Now
<1>20. StoppingShape'
  BY DEF CatalogInv, StoppingShape
<1> QED BY <1>20, <1>2, <1>3, <1>4, <1>5, EntriesStay DEF CatalogInv

LEMMA LeaveStep ==
    ASSUME CatalogInv, NEW u \in User, EndAttempt(u) \/ AttemptGone(u)
    PROVE  CatalogInv'
<1> USE DEF EndAttempt, AttemptGone, NoLease
<1>1. user \in [User -> [pc : {"idle", "using", "leaving", "stopping"}, held : SUBSET Entry]]
  BY DEF CatalogInv, CatalogTypeOK
<1>2. /\ user' \in [User -> [pc : {"idle", "using", "leaving", "stopping"}, held : SUBSET Entry]]
      /\ \A v \in User : user'[v].held = user[v].held
      /\ \A v \in User : user'[v].pc \in {"idle", "stopping"} => user'[v].held = {}
  <2>1. \A v \in User : user[v].pc \in {"idle", "stopping"} => user[v].held = {}
    BY DEF CatalogInv, RefreshShape
  <2>2. CASE EndAttempt(u)
    BY <1>1, <2>1, <2>2
  <2>3. CASE AttemptGone(u)
    BY <1>1, <2>1, <2>3
  <2> QED BY <2>2, <2>3
<1>3. CatalogTypeOK'
  BY <1>2 DEF CatalogInv, CatalogTypeOK
<1>4. RefreshShape'
  BY <1>2 DEF CatalogInv, RefreshShape, LockFree
<1>5. BrokenInv'
  BY DEF CatalogInv, BrokenInv, BrokenIsReplaced, Now
<1>20. StoppingShape'
  <2>1. stopping' = stopping /\ \A v \in User : user'[v].pc # "stopping" => stopping[<<"user", v>>] = {}
    <3>1. \A v \in User : user[v].pc # "stopping" => stopping[<<"user", v>>] = {}
      BY DEF CatalogInv, StoppingShape
    <3>2. CASE EndAttempt(u)
      BY <1>1, <3>1, <3>2
    <3>3. CASE AttemptGone(u)
      BY <1>1, <3>1, <3>3
    <3> QED BY <3>2, <3>3
  <2> QED BY <2>1 DEF CatalogInv, StoppingShape
<1> QED BY <1>20, <1>2, <1>3, <1>4, <1>5, EntriesStay DEF CatalogInv

-----------------------------------------------------------------------------
(* Sessions that break or stop.                                            *)

\* A current entry is neither one that was just opened nor one that ends.
LEMMA InstalledLives ==
    ASSUME CatalogInv, NEW n \in Entry, Installed(n)
    PROVE  ~Opened(n) /\ ~Ending(n) /\ n \notin kept /\ ~shut /\ n[2] <= made[n[1]] /\ ~table[n].retired
<1>1. n[1] \in Server /\ n[2] = current[n[1]] /\ n[2] # 0 /\ current[n[1]] \in Nat /\ made[n[1]] \in Nat
  BY EntryParts, CatalogAssumption DEF Installed, CatalogInv, CatalogTypeOK
<1>2. EntryInv(n)
  BY DEF CatalogInv
<1>3. n[2] <= made[n[1]] /\ ~Opened(n) /\ ~shut
  BY <1>1 DEF CatalogInv, RefreshShape, Opened
<1> QED BY <1>1, <1>2, <1>3 DEF EntryInv, Dead

LEMMA ChangedStep ==
    ASSUME CatalogInv, NEW n \in Entry, NEW session \in {"open", "broken"}, Changed(n, session),
           table[n].session = "open", Installed(n) \/ n \in kept
    PROVE  CatalogInv'
<1> USE DEF Changed
<1>1. table \in [Entry -> EntryRow] /\ refresher \in RefreshTask
  BY DEF CatalogInv, CatalogTypeOK
<1>2. /\ \A m \in Entry : m # n => table'[m] = table[m]
      /\ table'[n].leases = table[n].leases /\ table'[n].retired = table[n].retired
      /\ table'[n].session = session /\ table'[n].refresh = Installed(n)
      /\ table' \in [Entry -> EntryRow]
  <2> DEFINE row == [table[n] EXCEPT !.session = session, !.refresh = Installed(n)]
  <2>1. Installed(n) \in BOOLEAN
    BY DEF Installed
  <2>2. row \in EntryRow /\ row.leases = table[n].leases /\ row.retired = table[n].retired
        /\ row.session = session /\ row.refresh = Installed(n)
    BY <1>1, <2>1 DEF EntryRow
  <2>3. table' = [table EXCEPT ![n] = row]
    OBVIOUS
  <2> HIDE DEF row, Changed
  <2>4. table'[n] = row /\ (\A m \in Entry : m # n => table'[m] = table[m]) /\ table' \in [Entry -> EntryRow]
    BY <1>1, <2>2, <2>3
  <2> QED BY <2>2, <2>4
<1>3. refresher' \in {refresher, Requested({})} /\ refresher' \in RefreshTask
      /\ refresher'.opened = refresher.opened /\ refresher'.want = refresher.want
  BY RequestedTask, <1>1 DEF CatalogInv
<1>4. ~Opened(n)
  BY InstalledLives DEF CatalogInv, EntryInv, Dead
<1>5. CatalogTypeOK'
  BY <1>2, <1>3, CatalogAssumption DEF CatalogInv, CatalogTypeOK
<1>6. RefreshShape'
  BY <1>3, RequestedShape DEF CatalogInv, RefreshShape
<1>7. BrokenInv'
  <2>1. CASE Installed(n)
    <3>1. ~shut /\ refresher' = Requested({})
      BY <2>1, InstalledLives
    <3>2. refresher'.pc = "lock" \/ refresher'.again
      BY <3>1, RequestedTask DEF CatalogInv
    <3>3. \A s \in Server : current[s] # 0 => Now(s) \in Entry /\ Now(s)' = Now(s)
      BY NowIsEntry DEF Now, CatalogInv
    <3> QED BY <1>2, <2>1, <3>2, <3>3 DEF CatalogInv, BrokenInv, BrokenIsReplaced
  <2>2. CASE ~Installed(n)
    <3>1. \A s \in Server : current[s] # 0 => Now(s) \in Entry /\ Now(s)' = Now(s) /\ Now(s) # n
      BY <2>2, NowIsEntry DEF Now, CatalogInv
    <3> QED BY <1>2, <2>2, <3>1 DEF CatalogInv, BrokenInv, BrokenIsReplaced
  <2> QED BY <2>1, <2>2
<1>8. ASSUME NEW m \in Entry PROVE LeasesCounted(m)' /\ EntryInv(m)'
  <2>1. LeasesCounted(m) /\ EntryInv(m) /\ EntryInv(n)
    BY DEF CatalogInv
  <2>2. LeasesCounted(m)' /\ Lessees(m)' = Lessees(m)
    BY <1>2, <2>1, LeasesStayCounted
  <2>3. (Opened(m)' <=> Opened(m)) /\ (Installed(m)' <=> Installed(m)) /\ (Dead(m)' <=> Dead(m))
    BY <1>3 DEF Opened, Installed, Dead
  <2>4. Ending(m)' <=> Ending(m)
    BY <1>2 DEF Ending
  <2>5. CASE m # n
    BY <1>2, <2>1, <2>2, <2>3, <2>4, <2>5 DEF EntryInv
  <2>6. CASE m = n
    BY <1>2, <1>4, <2>1, <2>2, <2>3, <2>4, <2>6 DEF EntryInv
  <2> QED BY <2>2, <2>5, <2>6
<1>20. StoppingShape'
  <2>1. refresher'.pc \in {"off", "lock"} => refresher.pc \in {"off", "lock"}
    BY <1>3, RequestedTask DEF CatalogInv
  <2> QED BY <2>1 DEF CatalogInv, StoppingShape
<1> QED BY <1>20, <1>5, <1>6, <1>7, <1>8 DEF CatalogInv

LEMMA BreakStep ==
    ASSUME CatalogInv, NEW u \in User, NEW n \in user[u].held, BreakSession(u, n)
    PROVE  CatalogInv'
<1>1. n \in Entry /\ table[n].session = "open" /\ Changed(n, "broken")
  BY DEF CatalogInv, CatalogTypeOK, BreakSession
<1>2. Installed(n) \/ n \in kept
  <2>1. Lessees(n) # {}
    BY DEF Lessees
  <2> QED BY <1>1, <2>1 DEF CatalogInv, EntryInv
<1> QED BY <1>1, <1>2, ChangedStep

LEMMA AnnounceStep ==
    ASSUME CatalogInv, NEW n \in Entry, Announce(n)
    PROVE  CatalogInv'
BY ChangedStep DEF Announce

LEMMA StopStep ==
    ASSUME CatalogInv, NEW a \in Actor, NEW n \in stopping[a], StopSession(a, n)
    PROVE  CatalogInv'
<1> USE DEF StopSession
<1>1. table \in [Entry -> EntryRow] /\ stopping \in [Actor -> SUBSET Entry] /\ n \in Entry
  BY DEF CatalogInv, CatalogTypeOK
<1>2. /\ \A m \in Entry : m # n => table'[m] = table[m]
      /\ table'[n] = [table[n] EXCEPT !.session = IF @ = "open" THEN "stopped" ELSE @]
  BY <1>1
<1>3. /\ table'[n].leases = table[n].leases /\ table'[n].retired = table[n].retired
      /\ table'[n].session = IF table[n].session = "open" THEN "stopped" ELSE table[n].session
      /\ table'[n] \in EntryRow
  BY <1>1, <1>2 DEF EntryRow
<1>4. table' \in [Entry -> EntryRow] /\ stopping' \in [Actor -> SUBSET Entry]
      /\ stopping'[a] = stopping[a] \ {n} /\ \A b \in Actor : b # a => stopping'[b] = stopping[b]
  BY <1>1, <1>2, <1>3
<1>5. Dead(n) /\ Lessees(n) = {}
  BY <1>1 DEF CatalogInv, EntryInv, Ending
<1>6. CatalogTypeOK'
  BY <1>4, CatalogAssumption DEF CatalogInv, CatalogTypeOK
<1>7. RefreshShape'
  BY DEF CatalogInv, RefreshShape, LockFree
<1>8. BrokenInv'
  <2>1. \A s \in Server : current[s] # 0 => Now(s) \in Entry /\ Now(s)' = Now(s) /\ Now(s) # n
    BY <1>5, NowIsEntry DEF Now, CatalogInv, Dead
  <2> QED BY <1>2, <2>1 DEF CatalogInv, BrokenInv, BrokenIsReplaced
<1>9. ASSUME NEW m \in Entry PROVE LeasesCounted(m)' /\ EntryInv(m)'
  <2>1. LeasesCounted(m) /\ EntryInv(m)
    BY DEF CatalogInv
  <2>2. LeasesCounted(m)' /\ Lessees(m)' = Lessees(m)
    BY <1>2, <1>3, <2>1, LeasesStayCounted
  <2>3. (Opened(m)' <=> Opened(m)) /\ (Installed(m)' <=> Installed(m)) /\ (Dead(m)' <=> Dead(m))
    BY DEF Opened, Installed, Dead
  <2>4. CASE m # n
    <3>1. Ending(m)' <=> Ending(m)
      BY <1>2, <1>4, <2>4 DEF Ending
    <3> QED BY <1>2, <2>1, <2>2, <2>3, <2>4, <3>1 DEF EntryInv
  <2>5. CASE m = n
    <3>1. table'[m].session # "open" /\ (table'[m].session = "unmade" <=> table[m].session = "unmade")
      BY <1>3, <2>5
    <3>2. Dead(m) /\ Lessees(m) = {} /\ ~Opened(m) /\ ~Installed(m)
      BY <1>5, <2>5 DEF Dead
    <3> QED BY <1>3, <2>1, <2>2, <2>3, <2>5, <3>1, <3>2 DEF EntryInv
  <2> QED BY <2>2, <2>4, <2>5
<1>20. StoppingShape'
  <2>1. \A b \in Actor : stopping[b] = {} => stopping'[b] = {}
    BY <1>4
  <2> QED BY <2>1 DEF CatalogInv, StoppingShape, Actor
<1> QED BY <1>20, <1>6, <1>7, <1>8, <1>9 DEF CatalogInv

-----------------------------------------------------------------------------
(* Leases.                                                                 *)

LEMMA LeaseStep ==
    ASSUME CatalogInv, NEW u \in User, NEW skip \in SUBSET Server, NEW due \in BOOLEAN,
           AcquireTools(u, skip, due)
    PROVE  CatalogInv'
<1> DEFINE held == {Now(s) : s \in {t \in Configured(skip) : Match(t) /\ ~Failed(t)}}
<1>1. /\ table \in [Entry -> EntryRow] /\ refresher \in RefreshTask
      /\ user \in [User -> [pc : {"idle", "using", "leaving", "stopping"}, held : SUBSET Entry]]
  BY DEF CatalogInv, CatalogTypeOK
<1>2. \A n \in held : n \in Entry /\ Installed(n)
  <2>1. \A s \in Configured(skip) : s \in Server
    BY DEF Configured
  <2> QED BY <2>1, NowIsEntry DEF Match, CatalogInv
<1>3. /\ user[u].pc = "idle" /\ ~shut /\ user' = [user EXCEPT ![u] = [pc |-> "using", held |-> held]]
      /\ table' = [n \in Entry |-> IF n \in held THEN [table[n] EXCEPT !.leases = @ + 1] ELSE table[n]]
      /\ refresher' \in {refresher, Requested(skip)}
      /\ UNCHANGED <<declared, current, made, kept, edit, stopping, shut, lost, edits, breaks, leaks>>
  BY DEF AcquireTools
<1> HIDE DEF held
<1>4. ASSUME NEW n \in Entry
      PROVE  /\ table'[n] \in EntryRow /\ table'[n].retired = table[n].retired
             /\ table'[n].session = table[n].session /\ table'[n].refresh = table[n].refresh
             /\ table'[n].leases = IF n \in held THEN table[n].leases + 1 ELSE table[n].leases
  <2>1. table[n] \in EntryRow /\ table'[n] = IF n \in held THEN [table[n] EXCEPT !.leases = @ + 1] ELSE table[n]
    BY <1>1, <1>3
  <2>2. CASE n \in held
    BY <2>1, <2>2 DEF EntryRow
  <2>3. CASE n \notin held
    BY <2>1, <2>3
  <2> QED BY <2>2, <2>3
<1>5. table' \in [Entry -> EntryRow]
  BY <1>3, <1>4
<1>6. /\ user' \in [User -> [pc : {"idle", "using", "leaving", "stopping"}, held : SUBSET Entry]]
      /\ user'[u].held = held /\ user'[u].pc = "using"
      /\ \A v \in User : v # u => user'[v] = user[v]
  BY <1>1, <1>2, <1>3
<1>7. refresher' \in RefreshTask /\ refresher'.opened = refresher.opened
  BY <1>1, <1>3, RequestedTask DEF CatalogInv
<1>8. CatalogTypeOK'
  BY <1>3, <1>5, <1>6, <1>7 DEF CatalogInv, CatalogTypeOK
<1>9. RefreshShape'
  <2>1. \A v \in User : user'[v].pc \in {"idle", "stopping"} => user'[v].held = {}
    BY <1>6 DEF CatalogInv, RefreshShape
  <2> QED BY <1>3, <2>1, RequestedShape
<1>10. BrokenInv'
  BY <1>3, <1>4, RequestedBroken
<1>11. ASSUME NEW n \in Entry PROVE LeasesCounted(n)' /\ EntryInv(n)'
  <2>1. LeasesCounted(n) /\ EntryInv(n)
    BY DEF CatalogInv
  <2>2. (Opened(n)' <=> Opened(n)) /\ (Installed(n)' <=> Installed(n)) /\ (Dead(n)' <=> Dead(n))
    BY <1>3, <1>7 DEF Opened, Installed, Dead
  <2>3. Ending(n)' <=> Ending(n)
    BY <1>3, <1>4 DEF Ending
  <2>4. u \notin Lessees(n)
    BY <1>3 DEF Lessees, CatalogInv, RefreshShape
  <2>5. Lessees(n)' = IF n \in held THEN Lessees(n) \cup {u} ELSE Lessees(n)
    BY <1>6, <2>4 DEF Lessees
  <2>6. CASE n \in held
    <3>1. Cardinality(Lessees(n))' = Cardinality(Lessees(n)) + 1
      BY <2>4, <2>5, <2>6, LesseesFinite, OneMore
    <3>2. LeasesCounted(n)'
      <4>1. table[n].leases \in Nat /\ Cardinality(Lessees(n)) \in Nat
        BY <1>1, LesseesFinite DEF EntryRow
      <4>2. table'[n].leases = table[n].leases + 1 /\ lost' = lost
        BY <1>3, <1>4, <2>6
      <4>3. /\ Cardinality(Lessees(n)) <= table[n].leases
            /\ n \notin lost => Cardinality(Lessees(n)) = table[n].leases
        BY <2>1 DEF LeasesCounted
      <4> QED BY <3>1, <4>1, <4>2, <4>3 DEF LeasesCounted
    <3>3. Installed(n)
      BY <1>2, <2>6
    <3>4. ~Opened(n) /\ ~Ending(n) /\ n \notin kept /\ n[2] <= made[n[1]] /\ ~table[n].retired
      BY <3>3, InstalledLives
    <3>5. n[2] \in Nat /\ made[n[1]] \in Nat
      BY EntryParts, CatalogAssumption DEF CatalogInv, CatalogTypeOK
    <3> QED BY <1>3, <1>4, <2>1, <2>2, <2>3, <3>2, <3>3, <3>4, <3>5 DEF EntryInv
  <2>7. CASE n \notin held
    BY <1>3, <1>4, <2>1, <2>2, <2>3, <2>5, <2>7 DEF LeasesCounted, EntryInv
  <2> QED BY <2>6, <2>7
<1>20. StoppingShape'
  <2>1. refresher'.pc \in {"off", "lock"} => refresher.pc \in {"off", "lock"}
    BY <1>3, RequestedTask DEF CatalogInv
  <2> QED BY <1>3, <1>6, <2>1 DEF CatalogInv, StoppingShape
<1> QED BY <1>20, <1>8, <1>9, <1>10, <1>11 DEF CatalogInv

LEMMA CutLeaseStep ==
    ASSUME CatalogInv, NEW u \in User, CutRelease(u)
    PROVE  CatalogInv'
<1> USE DEF CutRelease
<1>1. user \in [User -> [pc : {"idle", "using", "leaving", "stopping"}, held : SUBSET Entry]]
  BY DEF CatalogInv, CatalogTypeOK
<1>2. /\ user' \in [User -> [pc : {"idle", "using", "leaving", "stopping"}, held : SUBSET Entry]]
      /\ user'[u].held = {} /\ \A v \in User : v # u => user'[v] = user[v]
  BY <1>1 DEF NoLease
<1>3. CatalogTypeOK'
  BY <1>1, <1>2, CatalogAssumption DEF CatalogInv, CatalogTypeOK
<1>4. RefreshShape'
  BY <1>2 DEF CatalogInv, RefreshShape, LockFree
<1>5. BrokenInv'
  BY DEF CatalogInv, BrokenInv, BrokenIsReplaced, Now
<1>6. ASSUME NEW n \in Entry PROVE LeasesCounted(n)' /\ EntryInv(n)'
  <2>1. LeasesCounted(n) /\ EntryInv(n)
    BY DEF CatalogInv
  <2>2. (Opened(n)' <=> Opened(n)) /\ (Installed(n)' <=> Installed(n)) /\ (Dead(n)' <=> Dead(n))
        /\ (Ending(n)' <=> Ending(n))
    BY DEF Opened, Installed, Dead, Ending
  <2>3. Lessees(n)' = Lessees(n) \ {u}
    BY <1>2 DEF Lessees
  <2>4. LeasesCounted(n)'
    <3>1. table[n].leases \in Nat /\ Cardinality(Lessees(n)) \in Nat
      BY LesseesFinite DEF EntryRow, CatalogInv, CatalogTypeOK
    <3>2. CASE u \in Lessees(n)
      <4>1. Cardinality(Lessees(n))' = Cardinality(Lessees(n)) - 1 /\ n \in lost'
        BY <2>3, <3>2, LesseesFinite, OneLess DEF Lessees
      <4> QED BY <2>1, <3>1, <4>1 DEF LeasesCounted
    <3>3. CASE u \notin Lessees(n)
      <4>1. Lessees(n)' = Lessees(n)
        BY <2>3, <3>3
      <4> QED BY <2>1, <4>1 DEF LeasesCounted
    <3> QED BY <3>2, <3>3
  <2> QED BY <2>1, <2>2, <2>3, <2>4 DEF EntryInv
<1>20. StoppingShape'
  BY <1>1, <1>2 DEF CatalogInv, StoppingShape
<1> QED BY <1>20, <1>3, <1>4, <1>5, <1>6 DEF CatalogInv

LEMMA ReleaseStep ==
    ASSUME CatalogInv, NEW u \in User, ReleaseLeases(u)
    PROVE  CatalogInv'
<1> DEFINE held == user[u].held
           over == {n \in held : table[n].retired /\ table[n].leases = 1}
<1>1. /\ table \in [Entry -> EntryRow] /\ stopping \in [Actor -> SUBSET Entry] /\ held \subseteq Entry
      /\ user \in [User -> [pc : {"idle", "using", "leaving", "stopping"}, held : SUBSET Entry]]
  BY DEF CatalogInv, CatalogTypeOK
<1>2. /\ LockFree
      /\ table' = [n \in Entry |-> IF n \in held THEN [table[n] EXCEPT !.leases = @ - 1] ELSE table[n]]
      /\ kept' = kept \ over
      /\ stopping' = [stopping EXCEPT ![<<"user", u>>] = Running(over)]
      /\ user' = [user EXCEPT ![u] = [pc |-> "stopping", held |-> {}]]
      /\ UNCHANGED <<declared, current, made, refresher, edit, shut, lost, edits, breaks, leaks>>
      /\ user[u].pc = "leaving"
  BY DEF ReleaseLeases
<1>3. /\ user' \in [User -> [pc : {"idle", "using", "leaving", "stopping"}, held : SUBSET Entry]]
      /\ user'[u].held = {} /\ \A v \in User : v # u => user'[v] = user[v]
  BY <1>1, <1>2
<1>4. ASSUME NEW n \in Entry
      PROVE  /\ Lessees(n)' = Lessees(n) \ {u} /\ (n \in held <=> u \in Lessees(n))
             /\ n \in held => table[n].leases > 0
             /\ (n \in held /\ table[n].leases = 1) => Lessees(n)' = {}
             /\ table'[n] \in EntryRow /\ table'[n].retired = table[n].retired
             /\ table'[n].session = table[n].session /\ table'[n].refresh = table[n].refresh
             /\ table'[n].leases = IF n \in held THEN table[n].leases - 1 ELSE table[n].leases
             /\ LeasesCounted(n)'
  <2>1. Lessees(n)' = Lessees(n) \ {u} /\ (n \in held <=> u \in Lessees(n))
    BY <1>3 DEF Lessees
  <2>2. table[n].leases \in Nat /\ Cardinality(Lessees(n)) \in Nat /\ LeasesCounted(n)
    BY <1>1, LesseesFinite DEF EntryRow, CatalogInv
  <2>3. n \in held => Cardinality(Lessees(n))' = Cardinality(Lessees(n)) - 1
    BY <2>1, LesseesFinite, OneLess
  <2>4. n \in held => Cardinality(Lessees(n)) > 0
    BY <2>1, <2>2, LesseesFinite
  <2>5. n \in held => table[n].leases > 0
    BY <2>2, <2>4 DEF LeasesCounted
  <2>6. (n \in held /\ table[n].leases = 1) => Lessees(n)' = {}
    <3>1. SUFFICES ASSUME n \in held, table[n].leases = 1 PROVE Lessees(n)' = {}
      OBVIOUS
    <3>2. Cardinality(Lessees(n)) = 1
      BY <2>2, <2>4, <3>1 DEF LeasesCounted
    <3>3. Cardinality(Lessees(n) \ {u}) = 0 /\ IsFiniteSet(Lessees(n) \ {u})
      BY <2>1, <2>3, <3>1, <3>2, LesseesFinite, FS_RemoveElement
    <3> QED BY <2>1, <3>3, FS_EmptySet
  <2> HIDE DEF held
  <2>7. /\ table'[n] \in EntryRow /\ table'[n].retired = table[n].retired
        /\ table'[n].session = table[n].session /\ table'[n].refresh = table[n].refresh
        /\ table'[n].leases = IF n \in held THEN table[n].leases - 1 ELSE table[n].leases
    <3>1. table'[n] = IF n \in held THEN [table[n] EXCEPT !.leases = table[n].leases - 1] ELSE table[n]
      BY <1>2
    <3>2. table[n] \in EntryRow /\ (n \in held => table[n].leases - 1 \in Nat)
      BY <1>1, <2>2, <2>5
    <3> QED BY <3>1, <3>2 DEF EntryRow
  <2>8. LeasesCounted(n)'
    <3>1. CASE n \in held
      <4>1. /\ Cardinality(Lessees(n))' = Cardinality(Lessees(n)) - 1
            /\ table'[n].leases = table[n].leases - 1
            /\ lost' = lost
        BY <1>2, <2>3, <2>7, <3>1
      <4>2. Cardinality(Lessees(n))' <= table'[n].leases
        BY <2>2, <4>1 DEF LeasesCounted
      <4>3. n \notin lost' => Cardinality(Lessees(n))' = table'[n].leases
        BY <2>2, <4>1 DEF LeasesCounted
      <4> QED BY <4>2, <4>3 DEF LeasesCounted
    <3>2. CASE n \notin held
      <4>1. Lessees(n)' = Lessees(n)
        BY <2>1, <3>2
      <4> QED BY <1>2, <2>2, <2>7, <3>2, <4>1 DEF LeasesCounted
    <3> QED BY <3>1, <3>2
  <2> QED BY <2>1, <2>5, <2>6, <2>7, <2>8
<1>5. over \subseteq held /\ over \subseteq Entry /\ Running(over) \subseteq over
  BY <1>1 DEF Running
<1>6. table' \in [Entry -> EntryRow]
  BY <1>2, <1>4
<1>7. /\ stopping' \in [Actor -> SUBSET Entry]
      /\ stopping'[<<"user", u>>] = Running(over)
      /\ \A a \in Actor : a # <<"user", u>> => stopping'[a] = stopping[a]
      /\ <<"user", u>> \in Actor
  BY <1>1, <1>2, <1>5 DEF Actor
<1>8. CatalogTypeOK'
  BY <1>2, <1>3, <1>5, <1>6, <1>7 DEF CatalogInv, CatalogTypeOK
<1>9. RefreshShape'
  BY <1>2, <1>3 DEF CatalogInv, RefreshShape, LockFree
<1>10. BrokenInv'
  <2>1. \A s \in Server : current[s] # 0 => Now(s) \in Entry /\ Now(s)' = Now(s)
    BY <1>2, NowIsEntry DEF Now, CatalogInv
  <2> QED BY <1>2, <1>4, <2>1 DEF CatalogInv, BrokenInv, BrokenIsReplaced
<1>11. ASSUME NEW n \in Entry PROVE EntryInv(n)'
  <2>1. EntryInv(n)
    BY DEF CatalogInv
  <2>2. (Opened(n)' <=> Opened(n)) /\ (Installed(n)' <=> Installed(n)) /\ (Dead(n)' <=> Dead(n))
    BY <1>2 DEF Opened, Installed, Dead
  <2>3. n \in held => Installed(n) \/ n \in kept
    BY <1>4, <2>1 DEF EntryInv
  <2>4. n \in over => Dead(n) /\ Lessees(n)' = {}
    BY <1>4, <2>1, <2>3, InstalledLives DEF EntryInv
  <2>5. stopping[<<"user", u>>] = {}
    BY <1>2 DEF CatalogInv, StoppingShape
  <2>6. Ending(n)' <=> (Ending(n) \/ n \in Running(over))
    BY <1>4, <1>7, <2>5 DEF Ending
  <2>7. Lessees(n)' \subseteq Lessees(n) /\ (n \in held => ~Opened(n) /\ n[2] <= made[n[1]])
    BY <1>4, <2>1, <2>3, InstalledLives DEF EntryInv, Dead
  <2>8. /\ table[n].leases \in Nat /\ n[2] \in Nat /\ made[n[1]] \in Nat
    BY <1>1, EntryParts, CatalogAssumption DEF EntryRow, CatalogInv, CatalogTypeOK
  <2>9. n \in kept' => Dead(n) /\ table'[n].retired /\ table'[n].leases > 0
    BY <1>2, <1>4, <2>1, <2>8 DEF EntryInv
  <2>10. (table'[n].session = "open") => Installed(n) \/ n \in kept' \/ Opened(n) \/ Ending(n)'
    BY <1>2, <1>4, <2>1, <2>6 DEF EntryInv, Running
  <2>11. Ending(n)' => Dead(n) /\ Lessees(n)' = {}
    BY <1>5, <2>1, <2>4, <2>6, <2>7 DEF EntryInv
  <2>12. Lessees(n)' # {} => Installed(n) \/ n \in kept'
    BY <1>2, <2>1, <2>4, <2>7 DEF EntryInv
  <2>13. n[2] > made[n[1]] \/ Opened(n) => table'[n].leases = 0
    BY <1>4, <2>1, <2>7, <2>8 DEF EntryInv
  <2> HIDE DEF held, over
  <2> QED BY <1>2, <1>4, <2>1, <2>2, <2>9, <2>10, <2>11, <2>12, <2>13 DEF EntryInv
<1>20. StoppingShape'
  <2>1. \A a \in Actor : a # <<"user", u>> => stopping'[a] = stopping[a]
    BY <1>7
  <2>2. user'[u].pc = "stopping"
    BY <1>1, <1>2
  <2>3. \A v \in User : user'[v].pc # "stopping" => stopping'[<<"user", v>>] = {}
    <3> SUFFICES ASSUME NEW v \in User, user'[v].pc # "stopping" PROVE stopping'[<<"user", v>>] = {}
      OBVIOUS
    <3>1. v # u /\ user[v].pc # "stopping"
      BY <1>3, <2>2
    <3>2. <<"user", v>> \in Actor /\ <<"user", v>> # <<"user", u>>
      BY <3>1 DEF Actor
    <3> QED BY <2>1, <3>1, <3>2 DEF CatalogInv, StoppingShape
  <2>4. \A s \in Server : <<"edit", s>> \in Actor /\ <<"edit", s>> # <<"user", u>>
    BY DEF Actor
  <2>5. Refresher \in Actor /\ Closer \in Actor /\ Refresher # <<"user", u>> /\ Closer # <<"user", u>>
    BY DEF Actor, Refresher, Closer
  <2> QED BY <1>2, <2>1, <2>3, <2>4, <2>5 DEF CatalogInv, StoppingShape
<1> QED BY <1>4, <1>8, <1>9, <1>10, <1>11, <1>20 DEF CatalogInv

-----------------------------------------------------------------------------
(* Entries that are retired, and those that replace them.                  *)

\* Entries go out of the catalogue and opened ones come in.
LEMMA Replaced ==
    ASSUME CatalogInv, NEW out \in SUBSET Entry, NEW in \in SUBSET Entry, NEW a \in Actor,
           \A n \in out : Installed(n), \A n \in in : Opened(n),
           \A n \in Entry : /\ Installed(n)' <=> (Installed(n) /\ n \notin out) \/ n \in in
                            /\ Opened(n)' <=> Opened(n) /\ n \notin in,
           table' = Retired(out), kept' = kept \cup (out \ IdleOf(out)),
           stopping' = [stopping EXCEPT ![a] = @ \cup Running(IdleOf(out))],
           made' = made, user' = user, lost' = lost
    PROVE  /\ \A n \in Entry : LeasesCounted(n)' /\ EntryInv(n)'
           /\ table' \in [Entry -> EntryRow] /\ kept' \subseteq Entry /\ stopping' \in [Actor -> SUBSET Entry]
           /\ \A n \in Entry : table'[n].session = table[n].session /\ table'[n].refresh = table[n].refresh
           /\ \A b \in Actor : b # a => stopping'[b] = stopping[b]
<1>1. table \in [Entry -> EntryRow] /\ stopping \in [Actor -> SUBSET Entry] /\ kept \subseteq Entry
  BY DEF CatalogInv, CatalogTypeOK
<1>2. ASSUME NEW n \in Entry
      PROVE  /\ table'[n] \in EntryRow /\ table'[n].leases = table[n].leases
             /\ table'[n].session = table[n].session /\ table'[n].refresh = table[n].refresh
             /\ table'[n].retired = IF n \in out THEN TRUE ELSE table[n].retired
  <2>1. table[n] \in EntryRow /\ table'[n] = IF n \in out THEN [table[n] EXCEPT !.retired = TRUE] ELSE table[n]
    BY <1>1 DEF Retired
  <2>2. CASE n \in out
    BY <2>1, <2>2 DEF EntryRow
  <2>3. CASE n \notin out
    BY <2>1, <2>3
  <2> QED BY <2>2, <2>3
<1>3. table' \in [Entry -> EntryRow]
  BY <1>2 DEF Retired
<1>4. Running(IdleOf(out)) \subseteq out /\ IdleOf(out) \subseteq out
  BY DEF Running, IdleOf
<1>5. /\ stopping' \in [Actor -> SUBSET Entry] /\ stopping'[a] = stopping[a] \cup Running(IdleOf(out))
      /\ \A b \in Actor : b # a => stopping'[b] = stopping[b]
  BY <1>1, <1>4
<1>6. ASSUME NEW n \in Entry PROVE LeasesCounted(n)' /\ EntryInv(n)'
  <2>1. LeasesCounted(n) /\ EntryInv(n)
    BY DEF CatalogInv
  <2>2. LeasesCounted(n)' /\ Lessees(n)' = Lessees(n)
    BY <1>2, <2>1, LeasesStayCounted
  <2>3. Ending(n)' <=> (Ending(n) \/ n \in Running(IdleOf(out)))
    BY <1>2, <1>5 DEF Ending
  <2>4. /\ table[n].leases \in Nat /\ n[2] \in Nat /\ made[n[1]] \in Nat /\ n[1] \in Server
    BY <1>1, EntryParts, CatalogAssumption DEF EntryRow, CatalogInv, CatalogTypeOK
  <2>5. /\ Installed(n)' <=> (Installed(n) /\ n \notin out) \/ n \in in
        /\ Opened(n)' <=> Opened(n) /\ n \notin in
    OBVIOUS
  <2>6. Dead(n)' <=> ~Installed(n)' /\ ~Opened(n)' /\ n[2] <= made[n[1]]
    BY DEF Dead
  <2>7. CASE n \in out
    <3>1. ~Opened(n) /\ ~Ending(n) /\ n \notin kept /\ n[2] <= made[n[1]] /\ n \notin in
      BY <2>7, InstalledLives
    <3>2. ~Installed(n)' /\ ~Opened(n)' /\ Dead(n)'
      BY <2>5, <2>6, <2>7, <3>1
    <3>3. n \in IdleOf(out) <=> table[n].leases = 0
      BY <2>7 DEF IdleOf
    <3>4. table[n].leases = 0 => Lessees(n) = {}
      <4>1. Cardinality(Lessees(n)) \in Nat
        BY LesseesFinite
      <4>2. table[n].leases = 0 => Cardinality(Lessees(n)) = 0
        BY <2>1, <4>1 DEF LeasesCounted
      <4> QED BY <4>2, LesseesFinite
    <3>5. n \in kept' <=> table[n].leases # 0
      BY <2>7, <3>1, <3>3
    <3>6. Ending(n)' => Lessees(n) = {}
      BY <1>4, <2>3, <3>1, <3>3, <3>4 DEF Running
    <3>7. table[n].session = "open" => n \in kept' \/ Ending(n)'
      BY <2>3, <3>3, <3>5 DEF Running
    <3>8. /\ table'[n].retired /\ table'[n].leases = table[n].leases /\ table'[n].session = table[n].session
          /\ ~(n[2] > made'[n[1]])
      <4>1. table'[n].retired /\ table'[n].leases = table[n].leases /\ table'[n].session = table[n].session
        BY <1>2, <2>7
      <4>2. ~(n[2] > made[n[1]])
        BY <2>4, <3>1
      <4> QED BY <4>1, <4>2
    <3>9. n \in kept' => table'[n].leases > 0
      BY <2>4, <3>5, <3>8
    <3>10. Lessees(n)' # {} => n \in kept'
      BY <2>2, <3>4, <3>5
    <3>11. Ending(n)' => Lessees(n)' = {}
      BY <2>2, <3>6
    <3>12. EntryInv(n)'
      BY <3>2, <3>7, <3>8, <3>9, <3>10, <3>11 DEF EntryInv
    <3> QED BY <2>2, <3>12
  <2>8. CASE n \in in
    <3>1. Opened(n) /\ Installed(n)' /\ ~Opened(n)' /\ n \notin out
      BY <2>5, <2>8, InstalledLives
    <3>2. ~Ending(n)' /\ n \notin kept' /\ n[2] = made[n[1]]
      BY <1>4, <2>1, <2>3, <3>1 DEF EntryInv, Dead, Opened
    <3> QED BY <1>2, <2>1, <2>2, <2>4, <3>1, <3>2 DEF EntryInv
  <2>9. CASE n \notin out /\ n \notin in
    <3>1. (Installed(n)' <=> Installed(n)) /\ (Opened(n)' <=> Opened(n)) /\ (Ending(n)' <=> Ending(n))
          /\ (n \in kept' <=> n \in kept) /\ (Dead(n)' <=> Dead(n))
      BY <1>4, <2>3, <2>5, <2>6, <2>9 DEF Dead
    <3> QED BY <1>2, <2>1, <2>2, <2>9, <3>1 DEF EntryInv
  <2> QED BY <2>2, <2>7, <2>8, <2>9
<1> QED BY <1>1, <1>2, <1>3, <1>5, <1>6

LEMMA InvalidateStep ==
    ASSUME CatalogInv, NEW s \in Server, Invalidate(s)
    PROVE  CatalogInv'
<1> DEFINE out == IF current[s] = 0 THEN {} ELSE {Now(s)}
           a == <<"edit", s>>
<1>1. /\ current \in [Server -> 0..MaxEntries] /\ edit[s] \in {"write", "delete"} /\ LockFree
      /\ edit \in [Server -> {"idle", "write", "delete", "refresh", "answer"}]
      /\ current' = [current EXCEPT ![s] = 0]
      /\ edit' = [edit EXCEPT ![s] = IF @ = "write" THEN "refresh" ELSE "answer"]
      /\ UNCHANGED <<declared, made, refresher, user, shut, lost, edits, breaks, leaks>>
  BY DEF CatalogInv, CatalogTypeOK, Invalidate
<1>2. a \in Actor /\ stopping[a] = {} /\ stopping \in [Actor -> SUBSET Entry]
  BY <1>1 DEF Actor, CatalogInv, CatalogTypeOK, StoppingShape
<1>3. table' = Retired(out) /\ kept' = kept \cup (out \ IdleOf(out))
      /\ stopping' = [stopping EXCEPT ![a] = @ \cup Running(IdleOf(out))]
  BY <1>2 DEF Invalidate
<1>4. out \in SUBSET Entry /\ \A n \in out : Installed(n)
  BY NowIsEntry DEF CatalogInv
<1>5. \A n \in Entry : (Installed(n)' <=> Installed(n) /\ n \notin out) /\ (Opened(n)' <=> Opened(n))
  <2> SUFFICES ASSUME NEW n \in Entry
               PROVE  (Installed(n)' <=> Installed(n) /\ n \notin out) /\ (Opened(n)' <=> Opened(n))
    OBVIOUS
  <2>1. n[1] \in Server /\ n[2] # 0 /\ n = <<n[1], n[2]>>
    BY EntryParts
  <2>2. CASE n[1] = s
    BY <1>1, <2>1, <2>2 DEF Installed, Opened, Now
  <2>3. CASE n[1] # s
    BY <1>1, <2>1, <2>3 DEF Installed, Opened, Now
  <2> QED BY <2>2, <2>3
<1> HIDE DEF out, a
<1>6. /\ \A n \in Entry : LeasesCounted(n)' /\ EntryInv(n)'
      /\ table' \in [Entry -> EntryRow] /\ kept' \subseteq Entry /\ stopping' \in [Actor -> SUBSET Entry]
      /\ \A n \in Entry : table'[n].session = table[n].session /\ table'[n].refresh = table[n].refresh
      /\ \A b \in Actor : b # a => stopping'[b] = stopping[b]
  <2>1. {} \in SUBSET Entry
    OBVIOUS
  <2> QED BY <1>1, <1>2, <1>3, <1>4, <1>5, <2>1, Replaced
<1>7. CatalogTypeOK'
  <2>1. current' \in [Server -> 0..MaxEntries] /\ \A t \in Server : current'[t] <= made[t]
    BY <1>1, CatalogAssumption DEF CatalogInv, CatalogTypeOK
  <2>2. edit' \in [Server -> {"idle", "write", "delete", "refresh", "answer"}]
    BY <1>1
  <2> QED BY <1>1, <1>6, <2>1, <2>2 DEF CatalogInv, CatalogTypeOK
<1>8. RefreshShape'
  <2>1. \A t \in Server : current'[t] = current[t] \/ current'[t] = 0
    BY <1>1
  <2>2. refresher.opened = {} /\ made \in [Server -> 0..MaxEntries]
    BY <1>1 DEF CatalogInv, RefreshShape, CatalogTypeOK
  <2>3. shut => current[s] = 0 /\ kept = {}
    BY DEF CatalogInv, RefreshShape
  <2>4. shut => kept' = {}
    BY <1>3, <2>3 DEF out, IdleOf
  <2>5. \A t \in Server : current'[t] <= made[t]
    BY <2>1, <2>2, CatalogAssumption DEF CatalogInv, CatalogTypeOK
  <2>6. LockFree' /\ refresher'.pc # "opening" /\ refresher'.opened = {}
    BY <1>1, <2>2 DEF LockFree
  <2>7. shut => (\A t \in Server : current'[t] = 0) /\ \A u \in User : user[u].held = {}
    BY <2>1 DEF CatalogInv, RefreshShape
  <2>8. \A u \in User : user[u].pc \in {"idle", "stopping"} => user[u].held = {}
    BY DEF CatalogInv, RefreshShape
  <2> QED BY <1>1, <2>4, <2>5, <2>6, <2>7, <2>8 DEF RefreshShape
<1>9. BrokenInv'
  <2>1. \A t \in Server : current'[t] # 0 => current[t] # 0 /\ Now(t) \in Entry /\ Now(t)' = Now(t)
    BY <1>1, NowIsEntry DEF Now, CatalogInv
  <2> QED BY <1>1, <1>6, <2>1 DEF CatalogInv, BrokenInv, BrokenIsReplaced
<1>20. StoppingShape'
  <2>1. \A t \in Server : edit'[t] \in {"idle", "write", "delete"} => stopping'[<<"edit", t>>] = {}
    <3> SUFFICES ASSUME NEW t \in Server, edit'[t] \in {"idle", "write", "delete"}
                 PROVE  stopping'[<<"edit", t>>] = {}
      OBVIOUS
    <3>1. t # s /\ edit'[t] = edit[t]
      BY <1>1
    <3>2. <<"edit", t>> \in Actor /\ <<"edit", t>> # a
      BY <3>1 DEF Actor, a
    <3> QED BY <1>6, <3>1, <3>2 DEF CatalogInv, StoppingShape
  <2>2. \A u \in User : <<"user", u>> \in Actor /\ <<"user", u>> # a
    BY DEF Actor, a
  <2>3. Refresher \in Actor /\ Closer \in Actor /\ Refresher # a /\ Closer # a
    BY DEF Actor, Refresher, Closer, a
  <2> QED BY <1>1, <1>6, <2>1, <2>2, <2>3 DEF CatalogInv, StoppingShape
<1> QED BY <1>6, <1>7, <1>8, <1>9, <1>20 DEF CatalogInv

LEMMA StartStep ==
    ASSUME CatalogInv, NEW due \in SUBSET Server, StartRefresh(due)
    PROVE  CatalogInv'
<1> DEFINE cfg == Configured(refresher.skip)
           inactive == {s \in Server \ cfg : current[s] # 0}
           stale == {s \in cfg : \/ ~Match(s) \/ table[Now(s)].refresh
                                 \/ table[Now(s)].session = "none" \/ (Failed(s) /\ s \in due)}
           out == {Now(s) : s \in inactive}
           none == {n \in Entry : FALSE}
<1>1. /\ refresher.pc = "lock" /\ ~shut /\ \A s \in stale : made[s] < MaxEntries
      /\ current' = [s \in Server |-> IF s \in inactive THEN 0 ELSE current[s]]
      /\ table' = Retired(out) /\ kept' = kept \cup (out \ IdleOf(out))
      /\ stopping' = [stopping EXCEPT ![Refresher] = Running(IdleOf(out))]
      /\ refresher' = [refresher EXCEPT !.pc = IF stale = {} THEN "stopping" ELSE "opening",
                                        !.want = stale, !.fps = declared]
      /\ UNCHANGED <<declared, made, user, edit, shut, lost, edits, breaks, leaks>>
  BY DEF StartRefresh
<1>2. cfg \subseteq Server /\ stale \subseteq cfg
  BY DEF Configured
<1>3. /\ current \in [Server -> 0..MaxEntries] /\ refresher \in RefreshTask
      /\ stopping \in [Actor -> SUBSET Entry] /\ declared \in [Server -> Fingerprint \cup {0}]
  BY DEF CatalogInv, CatalogTypeOK
<1>4. Refresher \in Actor /\ stopping[Refresher] = {} /\ refresher.opened = {}
  BY <1>1 DEF Actor, CatalogInv, StoppingShape, RefreshShape, LockFree
<1>5. stopping' = [stopping EXCEPT ![Refresher] = @ \cup Running(IdleOf(out))]
  BY <1>1, <1>4
<1>6. out \in SUBSET Entry /\ \A n \in out : Installed(n)
  BY NowIsEntry DEF CatalogInv
<1>7. /\ refresher' \in RefreshTask /\ refresher'.opened = {} /\ refresher'.want = stale
      /\ refresher'.pc = IF stale = {} THEN "stopping" ELSE "opening"
  <2> HIDE DEF stale, cfg
  <2> QED BY <1>1, <1>2, <1>3, <1>4 DEF RefreshTask
<1>8. \A n \in Entry : (Installed(n)' <=> Installed(n) /\ n \notin out) /\ (Opened(n)' <=> Opened(n))
  <2> SUFFICES ASSUME NEW n \in Entry
               PROVE  (Installed(n)' <=> Installed(n) /\ n \notin out) /\ (Opened(n)' <=> Opened(n))
    OBVIOUS
  <2>1. n[1] \in Server /\ n[2] # 0 /\ n = <<n[1], n[2]>>
    BY EntryParts
  <2>2. current'[n[1]] = IF n[1] \in inactive THEN 0 ELSE current[n[1]]
    BY <1>1, <2>1
  <2>3. Installed(n) => (n \in out <=> n[1] \in inactive)
    BY <2>1, InstalledIsNow DEF Now
  <2>4. (Opened(n)' <=> Opened(n))
    BY <1>4, <1>7 DEF Opened
  <2> HIDE DEF inactive, out
  <2> QED BY <2>1, <2>2, <2>3, <2>4, <1>6 DEF Installed
<1>9. none = {} /\ none \in SUBSET Entry
  OBVIOUS
<1> HIDE DEF out
<1>10. /\ \A n \in Entry : LeasesCounted(n)' /\ EntryInv(n)'
       /\ table' \in [Entry -> EntryRow] /\ kept' \subseteq Entry /\ stopping' \in [Actor -> SUBSET Entry]
       /\ \A n \in Entry : table'[n].session = table[n].session /\ table'[n].refresh = table[n].refresh
       /\ \A b \in Actor : b # Refresher => stopping'[b] = stopping[b]
  BY <1>1, <1>4, <1>5, <1>6, <1>8, <1>9, Replaced
<1>11. \A s \in Server : current'[s] = current[s] \/ current'[s] = 0
  BY <1>1
<1>12. CatalogTypeOK'
  <2>1. current' \in [Server -> 0..MaxEntries]
    BY <1>1, <1>3, CatalogAssumption
  <2>2. \A s \in Server : current'[s] <= made[s]
    BY <1>11, CatalogAssumption DEF CatalogInv, CatalogTypeOK
  <2> QED BY <1>1, <1>7, <1>10, <2>1, <2>2 DEF CatalogInv, CatalogTypeOK
<1>13. RefreshShape'
  <2>1. \A s \in Server : current'[s] <= made[s]
    BY <1>12, <1>1 DEF CatalogTypeOK
  <2> HIDE DEF stale
  <2> QED BY <1>1, <1>7, <2>1 DEF CatalogInv, RefreshShape, LockFree
<1>14. BrokenInv'
  <2>1. ASSUME NEW s \in Server, current'[s] # 0, table'[Now(s)'].session = "broken"
        PROVE  table'[Now(s)'].refresh /\ refresher'.pc = "opening" /\ s \in refresher'.want
    <3>1. current'[s] = current[s] /\ current[s] # 0 /\ s \in cfg
      BY <1>1, <2>1
    <3>2. Now(s) \in Entry /\ Now(s)' = Now(s)
      BY <3>1, NowIsEntry DEF Now, CatalogInv
    <3>3. table[Now(s)].refresh
      BY <1>10, <2>1, <3>1, <3>2 DEF CatalogInv, BrokenInv
    <3>4. s \in stale
      BY <3>1, <3>3
    <3> HIDE DEF stale
    <3> QED BY <1>7, <1>10, <3>2, <3>3, <3>4
  <2> QED BY <2>1 DEF BrokenInv, BrokenIsReplaced
<1>20. StoppingShape'
  <2>1. \A u \in User : <<"user", u>> \in Actor /\ <<"user", u>> # Refresher
    BY DEF Actor, Refresher
  <2>2. \A s \in Server : <<"edit", s>> \in Actor /\ <<"edit", s>> # Refresher
    BY DEF Actor, Refresher
  <2>3. Closer \in Actor /\ Closer # Refresher
    BY DEF Actor, Refresher, Closer
  <2>4. refresher'.pc \notin {"off", "lock"}
    BY <1>7
  <2> QED BY <1>1, <1>10, <2>1, <2>2, <2>3, <2>4 DEF CatalogInv, StoppingShape
<1> QED BY <1>10, <1>12, <1>13, <1>14, <1>20 DEF CatalogInv

LEMMA OpenStep ==
    ASSUME CatalogInv, NEW s \in Server, NEW session \in {"open", "failed"}, OpenServer(s, session)
    PROVE  CatalogInv'
<1> DEFINE opened == refresher.opened \cup {s}
           new == <<s, made[s] + 1>>
           row == Blank(refresher.fps[s], session)
<1>1. /\ refresher.pc = "opening" /\ s \in refresher.want /\ s \notin refresher.opened
      /\ made' = [made EXCEPT ![s] = @ + 1]
      /\ table' = [table EXCEPT ![new] = row]
      /\ refresher' = [refresher EXCEPT !.opened = opened,
                                        !.pc = IF opened = refresher.want THEN "installing" ELSE @]
      /\ UNCHANGED <<declared, current, kept, user, edit, stopping, shut, lost, edits, breaks, leaks>>
  BY DEF OpenServer
<1>2. /\ made \in [Server -> 0..MaxEntries] /\ current \in [Server -> 0..MaxEntries]
      /\ refresher \in RefreshTask /\ table \in [Entry -> EntryRow] /\ refresher.opened \subseteq refresher.want
      /\ made[s] < MaxEntries /\ \A t \in Server : current[t] <= made[t]
      /\ \A t \in refresher.want \ refresher.opened : made[t] < MaxEntries
  BY <1>1 DEF CatalogInv, CatalogTypeOK, RefreshShape
<1>3. new \in Entry /\ new[1] = s /\ new[2] = made[s] + 1
  BY <1>2, CatalogAssumption DEF Entry
<1>4. /\ row \in EntryRow /\ row.leases = 0 /\ row.retired = FALSE /\ row.session = session
  BY <1>2 DEF Blank, EntryRow, RefreshTask
<1>5. /\ table'[new] = row /\ \A n \in Entry : n # new => table'[n] = table[n]
      /\ table' \in [Entry -> EntryRow]
  <2> HIDE DEF row, new
  <2> QED BY <1>1, <1>2, <1>3, <1>4
<1>6. /\ made' \in [Server -> 0..MaxEntries] /\ made'[s] = made[s] + 1
      /\ \A t \in Server : t # s => made'[t] = made[t]
  BY <1>1, <1>2, CatalogAssumption
<1>7. /\ refresher' \in RefreshTask /\ refresher'.opened = opened /\ refresher'.want = refresher.want
      /\ refresher'.pc = IF opened = refresher.want THEN "installing" ELSE "opening"
      /\ refresher'.again = refresher.again
  BY <1>1, <1>2 DEF RefreshTask
<1>8. CatalogTypeOK'
  <2>1. \A t \in Server : current[t] <= made'[t]
    BY <1>2, <1>6, CatalogAssumption
  <2> QED BY <1>1, <1>5, <1>6, <1>7, <2>1 DEF CatalogInv, CatalogTypeOK
<1>9. RefreshShape'
  <2>1. refresher'.pc \in {"opening", "installing"}
    BY <1>7
  <2>2. \A t \in refresher'.opened : current[t] < made'[t]
    <3>1. \A t \in refresher.opened : t \in Server /\ t # s /\ current[t] < made[t]
      BY <1>1, <1>2 DEF CatalogInv, RefreshShape, RefreshTask
    <3>2. current[s] < made'[s]
      BY <1>2, <1>6, CatalogAssumption
    <3> QED BY <1>6, <1>7, <3>1, <3>2
  <2>3. \A t \in refresher'.want \ refresher'.opened : made'[t] < MaxEntries
    <3>1. \A t \in refresher'.want \ refresher'.opened : t # s /\ t \in Server /\ t \in refresher.want \ refresher.opened
      BY <1>2, <1>7 DEF RefreshTask
    <3> QED BY <1>2, <1>6, <3>1
  <2>4. \A t \in Server : current[t] <= made'[t]
    BY <1>8, <1>1 DEF CatalogTypeOK
  <2>5. opened \subseteq refresher.want
    BY <1>1, <1>2
  <2>6. ~shut
    BY <1>1 DEF CatalogInv, RefreshShape, LockFree
  <2> QED BY <1>1, <1>7, <2>1, <2>2, <2>3, <2>4, <2>5, <2>6 DEF CatalogInv, RefreshShape, LockFree
<1>10. BrokenInv'
  <2>1. \A t \in Server : current[t] # 0 => Now(t) \in Entry /\ Now(t)' = Now(t) /\ Now(t) # new
    <3> SUFFICES ASSUME NEW t \in Server, current[t] # 0
                 PROVE  Now(t) \in Entry /\ Now(t)' = Now(t) /\ Now(t) # new
      OBVIOUS
    <3>1. Now(t) # new
      BY <1>2, CatalogAssumption DEF Now
    <3> QED BY <1>1, <3>1, NowIsEntry DEF Now, CatalogInv
  <2>2. \A t \in refresher.want : refresher'.pc = "opening" \/ t \in refresher'.opened
    BY <1>7
  <2> QED BY <1>1, <1>5, <1>7, <2>1, <2>2 DEF CatalogInv, BrokenInv, BrokenIsReplaced
<1>11. ASSUME NEW n \in Entry PROVE LeasesCounted(n)' /\ EntryInv(n)'
  <2>1. LeasesCounted(n) /\ EntryInv(n)
    BY DEF CatalogInv
  <2>2. n[1] \in Server /\ n[2] \in Nat /\ n = <<n[1], n[2]>> /\ made[n[1]] \in Nat /\ current[n[1]] \in Nat
    BY <1>2, EntryParts, CatalogAssumption
  <2>3. (Installed(n)' <=> Installed(n)) /\ Lessees(n)' = Lessees(n)
    BY <1>1 DEF Installed, Lessees
  <2>4. CASE n = new
    <3>1. n[2] > made[n[1]] /\ ~Installed(n)
      BY <1>2, <1>3, <2>2, <2>4 DEF Installed
    <3>2. ~Dead(n) /\ table[n].leases = 0 /\ ~Ending(n) /\ n \notin kept
      BY <2>1, <2>2, <3>1 DEF EntryInv, Dead
    <3>3. Lessees(n) = {}
      <4>1. Cardinality(Lessees(n)) \in Nat
        BY LesseesFinite
      <4>2. Cardinality(Lessees(n)) = 0
        BY <2>1, <3>2, <4>1 DEF LeasesCounted
      <4> QED BY <4>2, LesseesFinite
    <3>4. table'[n].leases = 0 /\ ~table'[n].retired /\ table'[n].session = session
      BY <1>4, <1>5, <2>4
    <3>5. LeasesCounted(n)'
      BY <1>1, <2>1, <2>3, <3>2, <3>4 DEF LeasesCounted
    <3>6. Opened(n)' /\ ~(n[2] > made'[n[1]])
      BY <1>2, <1>3, <1>6, <1>7, <2>2, <2>4 DEF Opened
    <3>7. ~Ending(n)'
      BY <1>1, <3>2, <3>4 DEF Ending
    <3> HIDE <2>4
    <3> QED BY <1>1, <2>3, <3>1, <3>2, <3>3, <3>4, <3>5, <3>6, <3>7 DEF EntryInv
  <2>5. CASE n # new
    <3>1. table'[n] = table[n]
      BY <1>5, <2>5
    <3>2. Ending(n)' <=> Ending(n)
      BY <1>1, <3>1 DEF Ending
    <3>4. n[1] = s => n[2] # made[s] + 1
      BY <2>2, <2>5
    <3>5. (Opened(n)' <=> Opened(n)) \/ n[1] = s
      BY <1>6, <1>7, <2>2 DEF Opened
    <3>6. n[1] = s => ~Opened(n) /\ ~Opened(n)'
      BY <1>1, <1>6, <3>4 DEF Opened
    <3>7. (Opened(n)' <=> Opened(n))
      BY <3>5, <3>6
    <3>8. n[2] <= made'[n[1]] <=> n[2] <= made[n[1]]
      <4>1. CASE n[1] = s
        BY <1>6, <2>2, <3>4, <4>1
      <4>2. CASE n[1] # s
        BY <1>6, <2>2, <4>2
      <4> QED BY <4>1, <4>2
    <3>9. (Dead(n)' <=> Dead(n)) /\ ((n[2] > made'[n[1]]) <=> (n[2] > made[n[1]]))
      <4>1. made'[n[1]] \in Nat
        BY <1>6, <2>2, CatalogAssumption
      <4>2. (n[2] > made'[n[1]]) <=> (n[2] > made[n[1]])
        BY <2>2, <3>8, <4>1
      <4> QED BY <2>3, <3>7, <3>8, <4>2 DEF Dead
    <3>10. LeasesCounted(n)'
      BY <1>1, <2>1, <3>1, LeasesStayCounted
    <3> QED BY <1>1, <2>1, <2>3, <3>1, <3>2, <3>7, <3>9, <3>10 DEF EntryInv
  <2> QED BY <2>4, <2>5
<1>20. StoppingShape'
  BY <1>1, <1>7 DEF CatalogInv, StoppingShape
<1> QED BY <1>8, <1>9, <1>10, <1>11, <1>20 DEF CatalogInv

LEMMA InstallStep ==
    ASSUME CatalogInv, NEW s \in Server, InstallServer(s)
    PROVE  CatalogInv'
<1> DEFINE out == IF current[s] = 0 THEN {} ELSE {Now(s)}
           left == refresher.opened \ {s}
           new == <<s, made[s]>>
           in == {new}
<1>1. /\ refresher.pc = "installing" /\ s \in refresher.opened
      /\ current' = [current EXCEPT ![s] = made[s]]
      /\ table' = Retired(out) /\ kept' = kept \cup (out \ IdleOf(out))
      /\ stopping' = [stopping EXCEPT ![Refresher] = @ \cup Running(IdleOf(out))]
      /\ refresher' = IF left = {}
                      THEN [refresher EXCEPT !.pc = "stopping", !.opened = {}, !.want = {}, !.fps = NoRefresh.fps]
                      ELSE [refresher EXCEPT !.opened = left]
      /\ UNCHANGED <<declared, made, user, edit, shut, lost, edits, breaks, leaks>>
  BY DEF InstallServer
<1>2. /\ made \in [Server -> 0..MaxEntries] /\ current \in [Server -> 0..MaxEntries]
      /\ refresher \in RefreshTask /\ refresher.opened \subseteq Server
      /\ current[s] < made[s] /\ \A t \in refresher.opened : current[t] < made[t]
      /\ \A t \in Server : current[t] <= made[t]
  BY <1>1 DEF CatalogInv, CatalogTypeOK, RefreshShape, RefreshTask
<1>3. /\ refresher' \in RefreshTask /\ refresher'.opened = left /\ refresher'.again = refresher.again
      /\ refresher'.pc = IF left = {} THEN "stopping" ELSE "installing"
  <2>1. NoRefresh.fps \in [Server -> Fingerprint \cup {0}]
    BY DEF NoRefresh
  <2>2. left \in SUBSET Server
    BY <1>2
  <2> HIDE DEF left
  <2>3. CASE left = {}
    BY <1>1, <1>2, <2>1, <2>3 DEF RefreshTask
  <2>4. CASE left # {}
    BY <1>1, <1>2, <2>2, <2>4 DEF RefreshTask
  <2> QED BY <2>3, <2>4
<1>4. new \in Entry /\ new[1] = s /\ new[2] = made[s] /\ Opened(new)
  BY <1>1, <1>2, CatalogAssumption DEF Entry, Opened
<1>5. out \in SUBSET Entry /\ \A n \in out : Installed(n)
  BY NowIsEntry DEF CatalogInv
<1>6. \A n \in Entry : /\ Installed(n)' <=> (Installed(n) /\ n \notin out) \/ n \in in
                       /\ Opened(n)' <=> Opened(n) /\ n \notin in
  <2> SUFFICES ASSUME NEW n \in Entry
               PROVE  /\ Installed(n)' <=> (Installed(n) /\ n \notin out) \/ n \in in
                      /\ Opened(n)' <=> Opened(n) /\ n \notin in
    OBVIOUS
  <2>1. n[1] \in Server /\ n[2] # 0 /\ n = <<n[1], n[2]>>
    BY EntryParts
  <2>2. CASE n[1] = s
    <3>1. current'[n[1]] = made[s] /\ (n \in in <=> n[2] = made[s])
      BY <1>1, <1>2, <2>1, <2>2
    <3>2. Installed(n) => n \in out
      BY <2>2, InstalledIsNow
    <3> QED BY <1>1, <1>3, <2>2, <3>1, <3>2 DEF Installed, Opened
  <2>3. CASE n[1] # s
    <3>1. n \notin in /\ n \notin out /\ current'[n[1]] = current[n[1]]
      BY <1>1, <1>2, <2>1, <2>3 DEF Now
    <3> QED BY <1>1, <1>3, <2>3, <3>1 DEF Installed, Opened
  <2> QED BY <2>2, <2>3
<1>7. in \in SUBSET Entry /\ (\A n \in in : Opened(n)) /\ Refresher \in Actor
  BY <1>4 DEF Actor
<1> HIDE DEF out, in
<1>8. /\ \A n \in Entry : LeasesCounted(n)' /\ EntryInv(n)'
      /\ table' \in [Entry -> EntryRow] /\ kept' \subseteq Entry /\ stopping' \in [Actor -> SUBSET Entry]
      /\ \A n \in Entry : table'[n].session = table[n].session /\ table'[n].refresh = table[n].refresh
      /\ \A b \in Actor : b # Refresher => stopping'[b] = stopping[b]
  BY <1>1, <1>5, <1>6, <1>7, Replaced
<1>9. /\ current' \in [Server -> 0..MaxEntries] /\ current'[s] = made[s]
      /\ \A t \in Server : t # s => current'[t] = current[t]
      /\ \A t \in Server : current'[t] <= made[t]
  BY <1>1, <1>2, CatalogAssumption
<1>10. CatalogTypeOK'
  BY <1>1, <1>3, <1>8, <1>9 DEF CatalogInv, CatalogTypeOK
<1>11. RefreshShape'
  <2>1. refresher'.pc # "opening" /\ (refresher'.opened # {} => refresher'.pc = "installing")
    BY <1>3
  <2>2. \A t \in refresher'.opened : current'[t] < made[t]
    BY <1>2, <1>3, <1>9
  <2>3. ~shut
    BY <1>1 DEF CatalogInv, RefreshShape, LockFree
  <2> QED BY <1>1, <1>9, <2>1, <2>2, <2>3 DEF CatalogInv, RefreshShape, LockFree
<1>12. BrokenInv'
  <2>1. ASSUME NEW t \in Server, current'[t] # 0, table'[Now(t)'].session = "broken"
        PROVE  /\ table'[Now(t)'].refresh
               /\ refresher'.again \/ (refresher'.pc = "installing" /\ t \in refresher'.opened)
    <3>1. t # s
      <4> SUFFICES ASSUME t = s PROVE FALSE
        OBVIOUS
      <4>1. Now(t)' = new
        BY <1>9 DEF Now
      <4>2. table[new].session \in {"open", "failed"}
        BY <1>4 DEF CatalogInv, EntryInv
      <4> QED BY <1>4, <1>8, <2>1, <4>1, <4>2
    <3>2. current'[t] = current[t] /\ current[t] # 0 /\ Now(t)' = Now(t) /\ Now(t) \in Entry
      BY <1>9, <2>1, <3>1, NowIsEntry DEF Now, CatalogInv
    <3>3. table[Now(t)].session = "broken" /\ ~shut
      BY <1>8, <2>1, <3>2, <1>1 DEF CatalogInv, RefreshShape, LockFree
    <3>4. table[Now(t)].refresh /\ (refresher.again \/ t \in refresher.opened)
      BY <1>1, <3>2, <3>3 DEF CatalogInv, BrokenInv, BrokenIsReplaced
    <3> QED BY <1>3, <1>8, <3>1, <3>2, <3>4
  <2> QED BY <2>1 DEF BrokenInv, BrokenIsReplaced
<1>20. StoppingShape'
  <2>1. \A u \in User : <<"user", u>> \in Actor /\ <<"user", u>> # Refresher
    BY DEF Actor, Refresher
  <2>2. \A t \in Server : <<"edit", t>> \in Actor /\ <<"edit", t>> # Refresher
    BY DEF Actor, Refresher
  <2>3. Closer \in Actor /\ Closer # Refresher
    BY DEF Actor, Refresher, Closer
  <2>4. refresher'.pc \notin {"off", "lock"}
    BY <1>3
  <2> QED BY <1>1, <1>8, <2>1, <2>2, <2>3, <2>4 DEF CatalogInv, StoppingShape
<1> QED BY <1>8, <1>10, <1>11, <1>12, <1>20 DEF CatalogInv

LEMMA CloseStep ==
    ASSUME CatalogInv, CloseCatalog
    PROVE  CatalogInv'
<1> DEFINE last == kept \cup {Now(s) : s \in {t \in Server : current[t] # 0}}
<1>1. /\ ~shut /\ LockFree /\ shut' = TRUE /\ kept' = {} /\ current' = [s \in Server |-> 0]
      /\ stopping' = [stopping EXCEPT ![Closer] = Running(last)]
      /\ \A u \in User : user[u].pc = "idle"
      /\ UNCHANGED <<declared, made, table, refresher, user, edit, lost, edits, breaks, leaks>>
  BY DEF CloseCatalog
<1>2. stopping \in [Actor -> SUBSET Entry] /\ Closer \in Actor /\ stopping[Closer] = {}
  BY <1>1 DEF CatalogInv, CatalogTypeOK, StoppingShape, Actor
<1>3. last \subseteq Entry /\ \A n \in Entry : n \in last <=> n \in kept \/ Installed(n)
  <2>1. \A s \in Server : current[s] # 0 => Now(s) \in Entry /\ Installed(Now(s))
    BY NowIsEntry DEF CatalogInv
  <2>2. \A n \in Entry : Installed(n) => n = Now(n[1]) /\ current[n[1]] # 0 /\ n[1] \in Server
    BY InstalledIsNow, EntryParts
  <2>3. kept \subseteq Entry
    BY DEF CatalogInv, CatalogTypeOK
  <2> QED BY <2>1, <2>2, <2>3
<1> HIDE DEF last
<1>4. /\ stopping' \in [Actor -> SUBSET Entry] /\ stopping'[Closer] = Running(last)
      /\ \A b \in Actor : b # Closer => stopping'[b] = stopping[b]
  BY <1>1, <1>2, <1>3 DEF Running
<1>5. /\ \A u \in User : user[u].held = {}
      /\ refresher.opened = {} /\ refresher.pc # "opening"
  BY <1>1 DEF CatalogInv, RefreshShape, LockFree
<1>6. CatalogTypeOK'
  <2>1. current' \in [Server -> 0..MaxEntries] /\ \A s \in Server : current'[s] <= made[s]
    BY <1>1, CatalogAssumption DEF CatalogInv, CatalogTypeOK
  <2> QED BY <1>1, <1>4, <2>1 DEF CatalogInv, CatalogTypeOK
<1>7. RefreshShape'
  BY <1>1, <1>5, <1>6 DEF CatalogInv, RefreshShape, LockFree, CatalogTypeOK
<1>8. BrokenInv'
  BY <1>1 DEF BrokenInv, BrokenIsReplaced
<1>9. ASSUME NEW n \in Entry PROVE LeasesCounted(n)' /\ EntryInv(n)'
  <2>1. LeasesCounted(n) /\ EntryInv(n)
    BY DEF CatalogInv
  <2>2. LeasesCounted(n)' /\ Lessees(n)' = Lessees(n) /\ Lessees(n) = {}
    BY <1>1, <1>5, <2>1, LeasesStayCounted DEF Lessees
  <2>3. ~Installed(n)' /\ ~Opened(n)' /\ ~Opened(n)
    BY <1>1, <1>5, EntryParts DEF Installed, Opened
  <2>4. Ending(n)' <=> Ending(n) \/ n \in Running(last)
    BY <1>1, <1>2, <1>4 DEF Ending
  <2>5. n \in last => n[2] <= made[n[1]]
    BY <1>3, <2>1, InstalledLives DEF EntryInv, Dead
  <2>6. Ending(n)' => Dead(n)'
    BY <1>1, <2>1, <2>3, <2>4, <2>5 DEF EntryInv, Dead, Running
  <2>7. table[n].session = "open" => Ending(n)'
    BY <1>3, <2>1, <2>3, <2>4 DEF EntryInv, Running
  <2> QED BY <1>1, <2>1, <2>2, <2>3, <2>6, <2>7 DEF EntryInv
<1>20. StoppingShape'
  <2>1. \A u \in User : <<"user", u>> \in Actor /\ <<"user", u>> # Closer
    BY DEF Actor, Closer
  <2>2. \A t \in Server : <<"edit", t>> \in Actor /\ <<"edit", t>> # Closer
    BY DEF Actor, Closer
  <2>3. Refresher \in Actor /\ Closer # Refresher
    BY DEF Actor, Refresher, Closer
  <2> QED BY <1>1, <1>4, <2>1, <2>2, <2>3 DEF CatalogInv, StoppingShape
<1> QED BY <1>6, <1>7, <1>8, <1>9, <1>20 DEF CatalogInv

-----------------------------------------------------------------------------
(* The theorems.                                                           *)

LEMMA CatalogKeeps == CatalogInv /\ [CatalogNext]_catalogVars => CatalogInv'
<1> SUFFICES ASSUME CatalogInv, [CatalogNext]_catalogVars PROVE CatalogInv'
  OBVIOUS
<1>1. ASSUME NEW u \in User, UserStep(u) PROVE CatalogInv'
  <2>1. ASSUME NEW skip \in SUBSET Server, NEW due \in BOOLEAN, AcquireTools(u, skip, due) PROVE CatalogInv'
    BY <2>1, LeaseStep
  <2>2. ASSUME NEW n \in user[u].held, BreakSession(u, n) PROVE CatalogInv'
    BY <2>2, BreakStep
  <2>3. CASE EndAttempt(u) \/ AttemptGone(u)
    BY <2>3, LeaveStep
  <2>4. CASE ReleaseLeases(u)
    BY <2>4, ReleaseStep
  <2>5. CASE CutRelease(u)
    BY <2>5, CutLeaseStep
  <2> QED BY <1>1, <2>1, <2>2, <2>3, <2>4, <2>5 DEF UserStep
<1>2. ASSUME NEW s \in Server, EditStep(s) PROVE CatalogInv'
  BY <1>2, WriteStep, InvalidateStep, AnswerStep DEF EditStep
<1>3. CASE RefreshStep
  BY <1>3, StartStep, InstallStep, OpenStep, RefuseStep, DoneStep DEF RefreshStep
<1>4. CASE CloseCatalog
  BY <1>4, CloseStep
<1>5. ASSUME NEW n \in Entry, Announce(n) PROVE CatalogInv'
  BY <1>5, AnnounceStep
<1>6. ASSUME NEW a \in Actor, NEW n \in stopping[a], StopSession(a, n) PROVE CatalogInv'
  BY <1>6, StopStep
<1>7. CASE UNCHANGED catalogVars
  BY <1>7, CatalogStands
<1> QED BY <1>1, <1>2, <1>3, <1>4, <1>5, <1>6, <1>7 DEF CatalogNext

\* What the invariant says of sessions.
LEMMA CatalogGives == CatalogInv => SessionsFollowUse
<1> SUFFICES ASSUME CatalogInv PROVE SessionsFollowUse
  OBVIOUS
<1>1. InUseStaysUp
  <2> SUFFICES ASSUME NEW u \in User, NEW n \in user[u].held
               PROVE  table[n].session # "stopped" /\ \A a \in Actor : n \notin stopping[a]
    BY DEF InUseStaysUp
  <2>1. n \in Entry /\ Lessees(n) # {}
    BY DEF CatalogInv, CatalogTypeOK, Lessees
  <2> QED BY <2>1 DEF CatalogInv, EntryInv, Ending
<1>2. NothingForgotten
  <2>1. ASSUME NEW n \in Entry, table[n].session = "open"
        PROVE  \/ Installed(n) \/ n \in kept \/ \E a \in Actor : n \in stopping[a]
               \/ n[1] \in refresher.opened /\ n[2] = made[n[1]]
    BY <2>1 DEF CatalogInv, EntryInv, Ending, Opened
  <2>2. ASSUME NEW n \in kept PROVE n \in lost \/ \E u \in User : n \in user[u].held
    <3>1. n \in Entry /\ table[n].leases > 0 /\ LeasesCounted(n)
      BY <2>2 DEF CatalogInv, CatalogTypeOK, EntryInv
    <3>2. n \notin lost => Lessees(n) # {}
      <4>1. n \notin lost => Cardinality(Lessees(n)) > 0
        BY <3>1 DEF LeasesCounted
      <4> QED BY <4>1, LesseesFinite
    <3> QED BY <3>2 DEF Lessees
  <2> QED BY <2>1, <2>2 DEF NothingForgotten
<1> QED BY <1>1, <1>2 DEF SessionsFollowUse, CatalogInv, BrokenInv

\* The invariant of the catalogue (__init__.py:103-470).
THEOREM CatalogInvariant == CatalogSpec => []CatalogInv
<1> QED BY CatalogStart, CatalogKeeps, PTL DEF CatalogSpec

\* Sessions live as long as they are needed: what an attempt has leased is not stopped under
\* it, what is retired is stopped by the last one out unless a lease was lost, and a broken
\* session does not stay current (__init__.py:159-181, 280-347, 421-480, session.py:101-112).
THEOREM SessionsAlwaysFollowUse == CatalogSpec => []SessionsFollowUse
<1> QED BY CatalogInvariant, CatalogGives, PTL
===============================================================================
