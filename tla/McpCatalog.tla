------------------------------ MODULE McpCatalog ------------------------------
(***************************************************************************)
(* The MCP tool catalogue of one Runtime (tools/mcp/__init__.py,            *)
(* session.py): per configured server one current entry with at most one    *)
(* session, shared by the attempts that lease it.  An entry is made anew    *)
(* when its server is edited, disabled, broken or announces other tools; a  *)
(* retired one is stopped when its last lease is returned.  One background  *)
(* task refreshes the catalogue under a lock; attempts take their leases    *)
(* without it.                                                             *)
(***************************************************************************)
EXTENDS Naturals, FiniteSets

CONSTANTS
    Server,        \* names of servers, at most MAX_MCP_SERVERS
    User,          \* attempts that may hold a lease at one time
    Fingerprint,   \* contents a server's configuration may have
    MaxEntries,    \* bound: entries ever made for one server
    MaxEdits,      \* bound: requests that write the configuration
    MaxBreaks,     \* bound: failed calls and announcements of other tools
    MaxLeaks       \* bound: releases cut short

ASSUME CatalogAssumption ==
    /\ IsFiniteSet(User) /\ 0 \notin Fingerprint
    /\ MaxEntries \in Nat \ {0} /\ MaxEdits \in Nat /\ MaxBreaks \in Nat /\ MaxLeaks \in Nat

VARIABLES
    declared,    \* the configuration file: a server's fingerprint, 0 if it has none
    current,     \* _entries: the number of a server's entry, 0 if it has none
    made,        \* number of the entry made last for a server
    table,       \* every entry made
    kept,        \* _retired: retired entries with a lease
    refresher,   \* _refresh_task, _refresh_pending, and where the task is
    user,        \* the attempts and what they hold
    edit,        \* the requests that change the configuration
    stopping,    \* what each of them, the refresher and close() is about to stop
    shut,        \* _closed
    lost,        \* history: entries of which a lease was never returned
    edits, breaks, leaks

catalogVars == <<declared, current, made, table, kept, refresher, user, edit, stopping,
                 shut, lost, edits, breaks, leaks>>

Entry == Server \X (1..MaxEntries)
Refresher == <<"refresher", "">>
Closer == <<"close", "">>
Actor == {Refresher, Closer} \cup {<<"user", u>> : u \in User} \cup {<<"edit", s>> : s \in Server}

\* A hydrated entry has tools and no session.  A failed call leaves a broken session.
Blank(fp, session) ==
    [fp |-> fp, leases |-> 0, retired |-> FALSE, refresh |-> FALSE, session |-> session]
Now(s) == <<s, current[s]>>
Installed(n) == current[n[1]] = n[2]
Configured(skip) == {s \in Server : declared[s] # 0} \ skip
NoRefresh == [pc |-> "off", skip |-> {}, again |-> FALSE, want |-> {}, opened |-> {},
              fps |-> [s \in Server |-> 0]]
LockFree == refresher.pc \notin {"opening", "installing"}
NoLease == [pc |-> "idle", held |-> {}]

\* hydrate(), then request_refresh(): a server known from an earlier process has an entry.
CatalogInit ==
    /\ declared \in [Server -> Fingerprint \cup {0}]
    /\ current \in [Server -> {0, 1}] /\ \A s \in Server : current[s] = 1 => declared[s] # 0
    /\ made = current
    /\ table = [n \in Entry |-> IF Installed(n) THEN Blank(declared[n[1]], "none")
                                                ELSE Blank(0, "unmade")]
    /\ kept = {} /\ lost = {} /\ shut = FALSE
    /\ refresher = [NoRefresh EXCEPT !.pc = "lock"]
    /\ user = [u \in User |-> NoLease]
    /\ edit = [s \in Server |-> "idle"]
    /\ stopping = [a \in Actor |-> {}]
    /\ edits = 0 /\ breaks = 0 /\ leaks = 0

\* request_refresh.  A request that finds the task at work makes it run again, with the
\* servers left out that its own request left out.
Requested(skip) ==
    IF shut THEN refresher
    ELSE IF refresher.pc = "off" THEN [refresher EXCEPT !.pc = "lock", !.skip = skip]
    ELSE [refresher EXCEPT !.again = TRUE]

\* MUTANT of IdleOf: leases are not counted.
AllOf(ns) == ns

\* _retire: what can be stopped at once.  The rest is kept until it is released.
IdleOf(ns) == {n \in ns : table[n].leases = 0}

Retired(ns) == [n \in Entry |-> IF n \in ns THEN [table[n] EXCEPT !.retired = TRUE] ELSE table[n]]
Running(ns) == {n \in ns : table[n].session = "open"}

-----------------------------------------------------------------------------
(* Attempts.                                                               *)

Match(s) == current[s] # 0 /\ table[Now(s)].fp = declared[s]
Failed(s) == table[Now(s)].session = "failed"

\* acquire_tools, _cached_snapshot: no lock is taken.  A failed server is tried again when
\* its back-off is over, which it may be at any time.
AcquireTools(u, skip, due) ==
    LET cfg == Configured(skip)
        held == {Now(s) : s \in {t \in cfg : Match(t) /\ ~Failed(t)}}
        needs == \E s \in cfg : ~Match(s) \/ table[Now(s)].session = "none" \/ (due /\ Failed(s))
    IN /\ user[u].pc = "idle" /\ ~shut
       /\ user' = [user EXCEPT ![u] = [pc |-> "using", held |-> held]]
       /\ table' = [n \in Entry |-> IF n \in held THEN [table[n] EXCEPT !.leases = @ + 1] ELSE table[n]]
       /\ refresher' = IF needs THEN Requested(skip) ELSE refresher
       /\ UNCHANGED <<declared, current, made, kept, edit, stopping, shut, lost, edits, breaks, leaks>>

\* _server_tools_changed, for the entry that is current.
Changed(n, session) ==
    /\ breaks < MaxBreaks /\ breaks' = breaks + 1
    /\ table' = [table EXCEPT ![n] = [@ EXCEPT !.session = session, !.refresh = Installed(n)]]
    /\ refresher' = IF Installed(n) THEN Requested({}) ELSE refresher
    /\ UNCHANGED <<declared, current, made, kept, user, edit, stopping, shut, lost, edits, leaks>>

\* call_tool raises, times out or is cancelled: _retire_session ends the session of all.
BreakSession(u, n) ==
    /\ user[u].pc = "using" /\ n \in user[u].held /\ table[n].session = "open"
    /\ Changed(n, "broken")

\* The server announces that its tools have changed.
Announce(n) ==
    /\ table[n].session = "open" /\ Installed(n)
    /\ Changed(n, "open")

EndAttempt(u) ==
    /\ user[u].pc = "using"
    /\ user' = [user EXCEPT ![u].pc = "leaving"]
    /\ UNCHANGED <<declared, current, made, table, kept, refresher, edit, stopping, shut, lost, edits, breaks, leaks>>

\* _release.
ReleaseLeases(u) ==
    LET held == user[u].held
        over == {n \in held : table[n].retired /\ table[n].leases = 1}
    IN /\ user[u].pc = "leaving" /\ LockFree
       /\ table' = [n \in Entry |-> IF n \in held THEN [table[n] EXCEPT !.leases = @ - 1] ELSE table[n]]
       /\ kept' = kept \ over
       /\ stopping' = [stopping EXCEPT ![<<"user", u>>] = Running(over)]
       /\ user' = [user EXCEPT ![u] = [pc |-> "stopping", held |-> {}]]
       /\ UNCHANGED <<declared, current, made, refresher, edit, shut, lost, edits, breaks, leaks>>

\* A second cancel() reaches the attempt while it waits for the lock.
CutRelease(u) ==
    /\ user[u].pc = "leaving" /\ ~LockFree /\ leaks < MaxLeaks
    /\ leaks' = leaks + 1 /\ lost' = lost \cup user[u].held
    /\ user' = [user EXCEPT ![u] = NoLease]
    /\ UNCHANGED <<declared, current, made, table, kept, refresher, edit, stopping, shut, edits, breaks>>

AttemptGone(u) ==
    /\ user[u].pc = "stopping" /\ stopping[<<"user", u>>] = {}
    /\ user' = [user EXCEPT ![u] = NoLease]
    /\ UNCHANGED <<declared, current, made, table, kept, refresher, edit, stopping, shut, lost, edits, breaks, leaks>>

\* supervisor.stop(): the session ends with its task.
StopSession(a, n) ==
    /\ n \in stopping[a]
    /\ stopping' = [stopping EXCEPT ![a] = @ \ {n}]
    /\ table' = [table EXCEPT ![n].session = IF @ = "open" THEN "stopped" ELSE @]
    /\ UNCHANGED <<declared, current, made, kept, refresher, user, edit, shut, lost, edits, breaks, leaks>>

-----------------------------------------------------------------------------
(* Requests that change the configuration.                                 *)

\* create_, update_ and delete_mcp_server write the file, and then wait for the lock.
WriteServer(s, fp) ==
    /\ edit[s] = "idle" /\ edits < MaxEdits /\ ~shut
    /\ edits' = edits + 1
    /\ declared' = [declared EXCEPT ![s] = fp]
    /\ edit' = [edit EXCEPT ![s] = IF fp = 0 THEN "delete" ELSE "write"]
    /\ UNCHANGED <<current, made, table, kept, refresher, user, stopping, shut, lost, breaks, leaks>>

\* invalidate(s).
Invalidate(s) ==
    LET popped == IF current[s] = 0 THEN {} ELSE {Now(s)}
    IN /\ edit[s] \in {"write", "delete"} /\ LockFree
       /\ current' = [current EXCEPT ![s] = 0]
       /\ table' = Retired(popped)
       /\ kept' = kept \cup (popped \ IdleOf(popped))
       /\ stopping' = [stopping EXCEPT ![<<"edit", s>>] = Running(IdleOf(popped))]
       /\ edit' = [edit EXCEPT ![s] = IF @ = "write" THEN "refresh" ELSE "answer"]
       /\ UNCHANGED <<declared, made, refresher, user, shut, lost, edits, breaks, leaks>>

AnswerEdit(s) ==
    /\ edit[s] \in {"refresh", "answer"} /\ stopping[<<"edit", s>>] = {}
    /\ refresher' = IF edit[s] = "refresh" THEN Requested({}) ELSE refresher
    /\ edit' = [edit EXCEPT ![s] = "idle"]
    /\ UNCHANGED <<declared, current, made, table, kept, user, stopping, shut, lost, edits, breaks, leaks>>

-----------------------------------------------------------------------------
(* The refresh task: _snapshot.                                            *)

\* Servers that are not configured are retired.  The stale ones are opened together, a
\* failed one when its back-off is over.
StartRefresh(due) ==
    LET cfg == Configured(refresher.skip)
        inactive == {s \in Server \ cfg : current[s] # 0}
        stale == {s \in cfg : \/ ~Match(s) \/ table[Now(s)].refresh
                              \/ table[Now(s)].session = "none" \/ (Failed(s) /\ s \in due)}
        out == {Now(s) : s \in inactive}
    IN /\ refresher.pc = "lock" /\ ~shut
       /\ \A s \in stale : made[s] < MaxEntries
       /\ current' = [s \in Server |-> IF s \in inactive THEN 0 ELSE current[s]]
       /\ table' = Retired(out)
       /\ kept' = kept \cup (out \ IdleOf(out))
       /\ stopping' = [stopping EXCEPT ![Refresher] = Running(IdleOf(out))]
       /\ refresher' = [refresher EXCEPT !.pc = IF stale = {} THEN "stopping" ELSE "opening",
                                         !.want = stale, !.fps = declared]
       /\ UNCHANGED <<declared, made, user, edit, shut, lost, edits, breaks, leaks>>

\* The catalogue is closed: the task raises and is not repeated.
RefuseRefresh ==
    /\ refresher.pc = "lock" /\ shut
    /\ refresher' = NoRefresh
    /\ UNCHANGED <<declared, current, made, table, kept, user, edit, stopping, shut, lost, edits, breaks, leaks>>

\* _open_mcp_server.  A discovery that fails stops its session itself.
OpenServer(s, session) ==
    LET opened == refresher.opened \cup {s}
    IN /\ refresher.pc = "opening" /\ s \in refresher.want \ refresher.opened
       /\ made' = [made EXCEPT ![s] = @ + 1]
       /\ table' = [table EXCEPT ![<<s, made[s] + 1>>] = Blank(refresher.fps[s], session)]
       /\ refresher' = [refresher EXCEPT !.opened = opened,
                                         !.pc = IF opened = refresher.want THEN "installing" ELSE @]
       /\ UNCHANGED <<declared, current, kept, user, edit, stopping, shut, lost, edits, breaks, leaks>>

\* One entry replaces its predecessor, and is persisted before the next one does: an await
\* at which others run.
InstallServer(s) ==
    LET previous == IF current[s] = 0 THEN {} ELSE {Now(s)}
        left == refresher.opened \ {s}
    IN /\ refresher.pc = "installing" /\ s \in refresher.opened
       /\ current' = [current EXCEPT ![s] = made[s]]
       /\ table' = Retired(previous)
       /\ kept' = kept \cup (previous \ IdleOf(previous))
       /\ stopping' = [stopping EXCEPT ![Refresher] = @ \cup Running(IdleOf(previous))]
       /\ refresher' = IF left = {} THEN [refresher EXCEPT !.pc = "stopping", !.opened = {}, !.want = {}, !.fps = NoRefresh.fps]
                                    ELSE [refresher EXCEPT !.opened = left]
       /\ UNCHANGED <<declared, made, user, edit, shut, lost, edits, breaks, leaks>>

\* The task is done: refresh_done repeats it if it was asked to.
RefreshDone ==
    /\ refresher.pc = "stopping" /\ stopping[Refresher] = {}
    /\ refresher' = IF refresher.again /\ ~shut
                    THEN [NoRefresh EXCEPT !.pc = "lock", !.skip = refresher.skip]
                    ELSE NoRefresh
    /\ UNCHANGED <<declared, current, made, table, kept, user, edit, stopping, shut, lost, edits, breaks, leaks>>

\* close(), when the coordinator has stopped and no request is being served.
CloseCatalog ==
    /\ ~shut /\ LockFree
    /\ \A u \in User : user[u].pc = "idle"
    /\ \A s \in Server : edit[s] = "idle"
    /\ shut' = TRUE
    /\ stopping' = [stopping EXCEPT ![Closer] =
                        Running(kept \cup {Now(s) : s \in {t \in Server : current[t] # 0}})]
    /\ current' = [s \in Server |-> 0] /\ kept' = {}
    /\ UNCHANGED <<declared, made, table, refresher, user, edit, lost, edits, breaks, leaks>>

-----------------------------------------------------------------------------
UserStep(u) ==
    \/ \E skip \in SUBSET Server, due \in BOOLEAN : AcquireTools(u, skip, due)
    \/ \E n \in user[u].held : BreakSession(u, n)
    \/ EndAttempt(u) \/ ReleaseLeases(u) \/ CutRelease(u) \/ AttemptGone(u)
EditStep(s) ==
    \/ \E fp \in Fingerprint \cup {0} : WriteServer(s, fp)
    \/ Invalidate(s) \/ AnswerEdit(s)
RefreshStep ==
    \/ \E due \in SUBSET Server : StartRefresh(due)
    \/ \E s \in Server : InstallServer(s) \/ \E session \in {"open", "failed"} : OpenServer(s, session)
    \/ RefuseRefresh \/ RefreshDone

CatalogNext ==
    \/ \E u \in User : UserStep(u)
    \/ \E s \in Server : EditStep(s)
    \/ RefreshStep \/ CloseCatalog
    \/ \E n \in Entry : Announce(n)
    \/ \E a \in Actor : \E n \in stopping[a] : StopSession(a, n)

CatalogSpec == CatalogInit /\ [][CatalogNext]_catalogVars

-----------------------------------------------------------------------------
(* Properties.                                                             *)

EntryRow == [fp : Fingerprint \cup {0}, leases : Nat, retired : BOOLEAN, refresh : BOOLEAN,
             session : {"unmade", "none", "failed", "open", "broken", "stopped"}]
RefreshTask == [pc : {"off", "lock", "opening", "installing", "stopping"}, skip : SUBSET Server,
                again : BOOLEAN, want : SUBSET Server, opened : SUBSET Server,
                fps : [Server -> Fingerprint \cup {0}]]

CatalogTypeOK ==
    /\ declared \in [Server -> Fingerprint \cup {0}]
    /\ made \in [Server -> 0..MaxEntries] /\ current \in [Server -> 0..MaxEntries]
    /\ \A s \in Server : current[s] <= made[s]
    /\ table \in [Entry -> EntryRow]
    /\ kept \subseteq Entry /\ lost \subseteq Entry /\ shut \in BOOLEAN
    /\ refresher \in RefreshTask
    /\ user \in [User -> [pc : {"idle", "using", "leaving", "stopping"}, held : SUBSET Entry]]
    /\ edit \in [Server -> {"idle", "write", "delete", "refresh", "answer"}]
    /\ stopping \in [Actor -> SUBSET Entry]
    /\ edits \in 0..MaxEdits /\ breaks \in 0..MaxBreaks /\ leaks \in 0..MaxLeaks

\* What an attempt has leased nobody stops, however often its servers are edited, disabled
\* or refreshed meanwhile.
InUseStaysUp ==
    \A u \in User : \A n \in user[u].held :
        table[n].session # "stopped" /\ \A a \in Actor : n \notin stopping[a]

\* A session that runs is one the catalogue will stop: current, kept for an attempt that
\* has not left, just opened, or about to be stopped.
NothingForgotten ==
    /\ \A n \in Entry : table[n].session = "open" =>
           \/ Installed(n) \/ n \in kept \/ \E a \in Actor : n \in stopping[a]
           \/ n[1] \in refresher.opened /\ n[2] = made[n[1]]
    /\ \A n \in kept : n \in lost \/ \E u \in User : n \in user[u].held

\* A current session that a failed call has ended is going to be replaced.
BrokenIsReplaced ==
    \A s \in Server : (~shut /\ current[s] # 0 /\ table[Now(s)].session = "broken") =>
        \/ refresher.pc = "lock" \/ refresher.again
        \/ refresher.pc = "opening" /\ s \in refresher.want
        \/ refresher.pc = "installing" /\ s \in refresher.opened

\* Sessions live as long as they are needed: a configuration change does not interrupt an
\* attempt, the last one out stops what was retired, and no broken session stays current
\* (__init__.py:159-181, 280-347, 421-480, session.py:101-112).
SessionsFollowUse == InUseStaysUp /\ NothingForgotten /\ BrokenIsReplaced
===============================================================================
