---------------------- MODULE ChildCoordinationProofs ----------------------
(***************************************************************************)
(* Theorems about a parent and its children, for every number of children, *)
(* policies, slots, waits and cancels: slots are conserved, a parent that   *)
(* completes does so by what its policy says of its children, and one that *)
(* ends after settling them leaves none active but surplus members of a    *)
(* quorum, whatever the ledgers then make of its outcome.                  *)
(***************************************************************************)
EXTENDS ChildCoordination, FiniteSetTheorems, WellFoundedInduction, TLAPS

KidStatus == ChildEnd \cup {"absent", "queued", "running", "cancelling", "waiting"}
ParentPc == {"queued", "graph", "unwind", "list", "recheck", "cancel", "waitall", "wait", "commit",
             "paused", "ended"}
Outcome == {"completed", "failed", "canceled"}

Attempt == [pc : ParentPc, out : Outcome \cup {"none", "waiting"}, level : {0, 1},
            snap : [Child -> KidStatus], todo : SUBSET Child, ids : SUBSET Child,
            then : {"commit", "recheck", "list"}, row : Outcome \cup {"queued", "running", "waiting"}]
Waiter == [pc : {"off", "lock", "poll", "take", "last"}, ids : SUBSET Child, all : BOOLEAN,
           obj : Nat, has : BOOLEAN, cut : BOOLEAN]

CoordShape ==
    /\ policy \in Policies
    /\ kid \in [Child -> KidStatus]
    /\ parent \in Attempt
    /\ wait \in [Wait -> Waiter]
    /\ free \in Nat /\ leaked \in Nat /\ cuts \in Nat /\ dictLock \in Nat

SlotInv == free + Holders = Slots + Cardinality(Lent) + leaked

\* The settlement waits for what it has chosen, and has seen the end of what it waited for.
PlaceInv ==
    /\ wait[0].pc # "off" => /\ ParentAt({"wait", "waitall"})
                             /\ wait[0].ids = parent.ids
                             /\ wait[0].all <=> ParentAt({"waitall"})
    /\ wait[0].pc \in {"take", "last"} /\ ~wait[0].cut /\ wait[0].all =>
           Ended(wait[0].ids) = wait[0].ids
    /\ \A w \in Wait \ {0} : wait[w].pc # "off" => ParentAt({"graph", "unwind"})
    /\ Executing => parent.row = "running"
    /\ ParentAt({"queued", "paused"}) => parent.row \in {"queued", "waiting"}

\* What is still active is a member of a quorum that was reached without it.
Surplus(k) == \A c \in ActiveKids(k) : policy[c].mode = "quorum" /\ QuorumMet(k, policy[c].group)
Optional(k) == ActiveIn(k, Mode(k, "best_effort"))

\* What each settled outcome says of the children, and each row of its outcome.
Justified(out) ==
    /\ out = "completed" => PolicySatisfied(kid) /\ Surplus(kid)
    /\ out \in {"failed", "canceled"} => ActiveKids(kid) = {}
RowOf(out, row) == row = "completed" => out = "completed"

\* The children a settlement has cancelled and waits for are all that its next step relies on.
SettleInv ==
    /\ ParentAt({"list"}) => parent.out \in Outcome
    /\ ParentAt({"wait"}) => parent.out = "completed" /\ parent.then = "list"
    /\ ParentAt({"recheck"}) => parent.out = "completed" /\ Optional(kid) = {}
    /\ ParentAt({"cancel", "waitall"}) =>
           \/ parent.then = "recheck" /\ parent.out = "completed" /\ Optional(kid) \subseteq parent.ids
           \/ parent.then = "commit" /\ parent.out \in {"failed", "canceled"}
              /\ ActiveKids(kid) \subseteq parent.ids
    /\ ParentAt({"commit"}) => parent.out # "none" /\ Justified(parent.out)
    /\ ParentAt({"ended"}) /\ parent.row # "running" =>
           Justified(parent.out) /\ RowOf(parent.out, parent.row)
    /\ ParentAt({"queued", "paused"}) => parent.out \in {"none", "waiting"}

CoordInv == CoordShape /\ SlotInv /\ PlaceInv /\ SettleInv

-----------------------------------------------------------------------------
(* What the children's policy says as they go on.                          *)

\* Every step but a spawn: nobody new, and an end stays an end.
Progress(k, l) == \A c \in Child :
    /\ k[c] = "absent" <=> l[c] = "absent"
    /\ k[c] \in ChildEnd => l[c] \in ChildEnd
    /\ k[c] = "completed" => l[c] = "completed"

LEMMA PolicyType ==
  ASSUME policy \in Policies
  PROVE  \A c \in Child : /\ policy[c].mode \in {"required", "best_effort", "quorum"}
                          /\ policy[c].group \in Nat /\ policy[c].need \in Nat
BY CoordAssumption

LEMMA KidSets ==
  ASSUME NEW cs \in SUBSET Child
  PROVE  IsFiniteSet(cs) /\ Cardinality(cs) \in Nat
BY CoordAssumption, FS_Subset, FS_CardinalityType

\* A quorum needs a number of members.
LEMMA NeedIsNat ==
  ASSUME policy \in Policies, NEW k, NEW g
  PROVE  Need(k, g) \in Nat
<1> DEFINE needs == {policy[c].need : c \in Members(k, g)}
           f == [c \in Members(k, g) |-> policy[c].need]
<1>1. Members(k, g) \in SUBSET Child
  BY DEF Members, Mode, Admitted
<1>2. IsFiniteSet(needs)
  <2>1. f \in Surjection(Members(k, g), needs)
    BY DEF Surjection
  <2>2. IsFiniteSet(Members(k, g))
    BY <1>1, KidSets
  <2> HIDE DEF f, needs
  <2> QED BY <2>1, <2>2, FS_Surjection
<1>3. needs \subseteq Nat
  BY <1>1, PolicyType
<1>4. Need(k, g) = IF Cardinality(needs) = 1 THEN CHOOSE n \in needs : TRUE ELSE 0
  BY DEF Need
<1>5. ASSUME Cardinality(needs) = 1 PROVE (CHOOSE n \in needs : TRUE) \in Nat
  <2> HIDE DEF needs
  <2>1. PICK n : needs = {n}
    BY <1>2, <1>5, FS_Singleton
  <2> QED BY <1>3, <2>1
<1> QED BY <1>4, <1>5

\* What a group's members agree on, if they do.
Agreed(needs) == IF Cardinality(needs) = 1 THEN CHOOSE n \in needs : TRUE ELSE 0

LEMMA ProgressKeepsMembers ==
  ASSUME NEW k, NEW l, Progress(k, l)
  PROVE  /\ Admitted(k) = Admitted(l)
         /\ \A m : Mode(k, m) = Mode(l, m)
         /\ Groups(k) = Groups(l)
         /\ \A g : Members(k, g) = Members(l, g) /\ Need(k, g) = Need(l, g)
         /\ ActiveKids(l) \subseteq ActiveKids(k)
         /\ Optional(l) \subseteq Optional(k)
<1>1. Admitted(k) = Admitted(l)
  BY DEF Progress, Admitted
<1>2. \A m : Mode(k, m) = Mode(l, m)
  BY <1>1 DEF Mode
<1>3. Groups(k) = Groups(l) /\ \A g : Members(k, g) = Members(l, g)
  BY <1>2 DEF Groups, Members
<1>4. ASSUME NEW g PROVE Need(k, g) = Need(l, g)
  <2> DEFINE K == Members(k, g)
             L == Members(l, g)
  <2>1. K = L
    BY <1>3
  <2>2. Need(k, g) = Agreed({policy[c].need : c \in K}) /\ Need(l, g) = Agreed({policy[c].need : c \in L})
    BY DEF Need, Agreed
  <2> HIDE DEF K, L
  <2>3. {policy[c].need : c \in K} = {policy[c].need : c \in L}
    BY <2>1
  <2> QED BY <2>2, <2>3
<1>5. ActiveKids(l) \subseteq ActiveKids(k)
  BY <1>1 DEF ActiveKids, ActiveIn, Admitted, Progress
<1>6. Optional(l) \subseteq Optional(k)
  BY <1>2 DEF Optional, ActiveIn, Mode, Admitted, Progress
<1> QED BY <1>1, <1>2, <1>3, <1>4, <1>5, <1>6

\* A quorum that is reached stays reached, and then it is not lost.
LEMMA QuorumStays ==
  ASSUME policy \in Policies, NEW k, NEW l, Progress(k, l), NEW g, QuorumMet(k, g)
  PROVE  QuorumMet(l, g) /\ ~QuorumLost(l, g)
<1>1. Members(k, g) = Members(l, g) /\ Need(k, g) = Need(l, g)
  BY ProgressKeepsMembers
<1> DEFINE M == Members(l, g)
<1>2. M \in SUBSET Child
  BY DEF Members, Mode, Admitted
<1>3. /\ CompletedIn(k, M) \in SUBSET CompletedIn(l, M)
      /\ CompletedIn(l, M) \in SUBSET Child /\ ActiveIn(l, M) \in SUBSET Child
      /\ CompletedIn(k, M) \in SUBSET Child
  BY <1>2 DEF CompletedIn, ActiveIn, Progress
<1>4. /\ Cardinality(CompletedIn(k, M)) \in Nat /\ Cardinality(CompletedIn(l, M)) \in Nat
      /\ Cardinality(ActiveIn(l, M)) \in Nat
      /\ Cardinality(CompletedIn(k, M)) <= Cardinality(CompletedIn(l, M))
  BY <1>3, KidSets, FS_Subset
<1>5. Need(l, g) \in Nat
  BY NeedIsNat
<1>6. Need(l, g) > 0 /\ Cardinality(CompletedIn(k, M)) >= Need(l, g)
  BY <1>1 DEF QuorumMet
<1> QED BY <1>4, <1>5, <1>6 DEF QuorumMet, QuorumLost

LEMMA SatisfiedStays ==
  ASSUME policy \in Policies, NEW k, NEW l, Progress(k, l), PolicySatisfied(k)
  PROVE  PolicySatisfied(l)
<1>1. \A m : Mode(k, m) = Mode(l, m)
  BY ProgressKeepsMembers
<1>2. \A c \in Mode(l, "required") : l[c] = "completed"
  BY <1>1 DEF PolicySatisfied, Progress, Mode, Admitted
<1>3. \A g \in Groups(l) : QuorumMet(l, g) /\ ~QuorumLost(l, g)
  BY ProgressKeepsMembers, QuorumStays DEF PolicySatisfied
<1> QED BY <1>2, <1>3 DEF PolicySatisfied, Impossible

LEMMA SurplusStays ==
  ASSUME policy \in Policies, NEW k, NEW l, Progress(k, l), Surplus(k)
  PROVE  Surplus(l)
BY ProgressKeepsMembers, QuorumStays DEF Surplus

\* A policy that can neither succeed nor fail waits for somebody.
LEMMA SomebodyToWaitFor ==
  ASSUME policy \in Policies, NEW k
  PROVE  Impossible(k) \/ PolicySatisfied(k) \/ WaitFor(k) # {}
<1> SUFFICES ASSUME ~Impossible(k), WaitFor(k) = {} PROVE PolicySatisfied(k)
  OBVIOUS
<1>1. ActiveIn(k, Mode(k, "required")) = {} /\ OpenQuorums(k) = {}
  BY DEF WaitFor
<1>2. \A c \in Mode(k, "required") : k[c] = "completed"
  BY <1>1 DEF ActiveIn, Impossible
<1>3. ASSUME NEW g \in Groups(k) PROVE QuorumMet(k, g)
  <2> SUFFICES ASSUME ~QuorumMet(k, g) PROVE FALSE
    OBVIOUS
  <2> DEFINE M == Members(k, g)
  <2>1. ~QuorumLost(k, g)
    BY <1>3 DEF Impossible
  <2>2. ActiveIn(k, M) = {}
    BY <1>1, <1>3, <2>1 DEF OpenQuorums
  <2>3. Cardinality(ActiveIn(k, M)) = 0
    BY <2>2, FS_EmptySet
  <2>4. CompletedIn(k, M) \in SUBSET Child
    BY DEF CompletedIn, Members, Mode, Admitted
  <2>5. Cardinality(CompletedIn(k, M)) \in Nat /\ Need(k, g) \in Nat
    BY <2>4, KidSets, NeedIsNat
  <2> QED BY <2>1, <2>3, <2>5 DEF QuorumLost, QuorumMet
<1> QED BY <1>2, <1>3 DEF PolicySatisfied

\* With nobody left to cancel, whoever is active under a satisfied policy is surplus.
LEMMA OthersAreSurplus ==
  ASSUME policy \in Policies, NEW k, PolicySatisfied(k), Optional(k) = {}
  PROVE  Surplus(k)
<1> SUFFICES ASSUME NEW c \in ActiveKids(k)
             PROVE  policy[c].mode = "quorum" /\ QuorumMet(k, policy[c].group)
  BY DEF Surplus
<1>1. c \in Child /\ c \in Admitted(k) /\ k[c] \notin ChildEnd
  BY DEF ActiveKids, ActiveIn, Admitted
<1>2. policy[c].mode # "required"
  BY <1>1 DEF PolicySatisfied, Mode, ChildEnd
<1>3. policy[c].mode # "best_effort"
  BY <1>1 DEF Optional, ActiveIn, Mode
<1>4. policy[c].mode = "quorum"
  BY <1>1, <1>2, <1>3, PolicyType
<1>5. policy[c].group \in Groups(k)
  BY <1>1, <1>4 DEF Groups, Mode
<1> QED BY <1>4, <1>5 DEF PolicySatisfied

-----------------------------------------------------------------------------
(* Children: slots and progress.                                           *)

LEMMA CountsAreNat ==
  /\ IsFiniteSet(Wait)
  /\ \A ws \in SUBSET Wait : IsFiniteSet(ws) /\ Cardinality(ws) \in Nat
  /\ IsFiniteSet(KidsExecuting) /\ Cardinality(KidsExecuting) \in Nat
<1>1. IsFiniteSet(Wait)
  BY CoordAssumption, FS_Interval DEF Wait
<1>2. KidsExecuting \in SUBSET Child
  BY DEF KidsExecuting
<1> QED BY <1>1, <1>2, KidSets, FS_Subset, FS_CardinalityType

Own == IF Executing THEN 1 ELSE 0

\* Slots stay conserved when what is taken and given back adds up.
LEMMA Balanced ==
  ASSUME CoordShape, CoordShape', SlotInv, NEW dk \in Int, NEW de \in Int, NEW dl \in Int,
         Cardinality(KidsExecuting') = Cardinality(KidsExecuting) + dk,
         Own' = Own + de,
         Cardinality(Lent') = Cardinality(Lent) + dl,
         free' + dk + de = free + dl + (leaked' - leaked)
  PROVE  SlotInv'
<1> DEFINE K == Cardinality(KidsExecuting)
           L == Cardinality(Lent)
           o == Own
           f == free'
           m == leaked'
<1>1. /\ K \in Nat /\ L \in Nat /\ Slots \in Nat /\ o \in Nat
      /\ free \in Nat /\ leaked \in Nat /\ f \in Nat /\ m \in Nat
  BY CountsAreNat, CoordAssumption DEF Lent, Own, CoordShape
<1>2. free + (K + o) = Slots + L + leaked
  BY DEF SlotInv, Holders, Own
<1>3. f + dk + de = free + dl + (m - leaked)
  OBVIOUS
<1>4. /\ Cardinality(KidsExecuting') = K + dk /\ Own' = o + de /\ Cardinality(Lent') = L + dl
      /\ f = free' /\ m = leaked'
  OBVIOUS
<1> HIDE DEF K, L, o, f, m
<1>5. f + ((K + dk) + (o + de)) = Slots + (L + dl) + m
  BY <1>1, <1>2, <1>3
<1> QED BY <1>4, <1>5 DEF SlotInv, Holders, Own

\* A child that starts or ends takes or gives a slot; other moves do not.
LEMMA KidSlots ==
  ASSUME CoordShape, NEW c \in Child, NEW from \in SUBSET KidStatus, NEW to \in KidStatus, NEW n \in Nat,
         KidMoves(c, from, to, n),
         \/ kid[c] \notin {"running", "cancelling"} /\ to \in {"running", "cancelling"} /\ n + 1 = free
         \/ kid[c] \in {"running", "cancelling"} /\ to \notin {"running", "cancelling"} /\ n = free + 1
         \/ kid[c] \notin {"running", "cancelling"} /\ to \notin {"running", "cancelling"} /\ n = free
  PROVE  CoordShape' /\ (SlotInv => SlotInv')
<1>1. kid' = [kid EXCEPT ![c] = to] /\ free' = n /\ UNCHANGED <<policy, parent, wait, dictLock, cuts, leaked>>
  BY DEF KidMoves
<1>2. kid'[c] = to /\ \A d \in Child \ {c} : kid'[d] = kid[d]
  BY <1>1 DEF CoordShape
<1>3. CoordShape'
  BY <1>1 DEF CoordShape
<1>4. Lent' = Lent /\ Own' = Own
  BY <1>1 DEF Lent, Own, Executing, ParentAt
<1>5. /\ IsFiniteSet(KidsExecuting) /\ Cardinality(KidsExecuting) \in Nat /\ Cardinality(Lent) \in Nat
      /\ Own \in Nat /\ free \in Nat /\ leaked \in Nat
  BY CountsAreNat DEF Lent, Own, CoordShape
<1>6. CASE kid[c] \notin {"running", "cancelling"} /\ to \in {"running", "cancelling"} /\ n + 1 = free
  <2>1. KidsExecuting' = KidsExecuting \cup {c} /\ c \notin KidsExecuting
    BY <1>2, <1>6 DEF KidsExecuting
  <2>2. Cardinality(KidsExecuting') = Cardinality(KidsExecuting) + 1
    BY <1>5, <2>1, FS_AddElement
  <2>3. Own' = Own + 0 /\ Cardinality(Lent') = Cardinality(Lent) + 0
        /\ free' + 1 + 0 = free + 0 + (leaked' - leaked)
    BY <1>1, <1>4, <1>5, <1>6
  <2> QED BY <1>3, <2>2, <2>3, Balanced
<1>7. CASE kid[c] \in {"running", "cancelling"} /\ to \notin {"running", "cancelling"} /\ n = free + 1
  <2>1. KidsExecuting' = KidsExecuting \ {c} /\ c \in KidsExecuting
    BY <1>2, <1>7 DEF KidsExecuting
  <2>2. Cardinality(KidsExecuting') = Cardinality(KidsExecuting) + (-1)
    BY <1>5, <2>1, FS_RemoveElement
  <2>3. Own' = Own + 0 /\ Cardinality(Lent') = Cardinality(Lent) + 0
        /\ free' + (-1) + 0 = free + 0 + (leaked' - leaked)
    BY <1>1, <1>4, <1>5, <1>7
  <2> QED BY <1>3, <2>2, <2>3, Balanced
<1>8. CASE kid[c] \notin {"running", "cancelling"} /\ to \notin {"running", "cancelling"} /\ n = free
  <2>1. KidsExecuting' = KidsExecuting
    BY <1>2, <1>8 DEF KidsExecuting
  <2>2. /\ Cardinality(KidsExecuting') = Cardinality(KidsExecuting) + 0
        /\ Own' = Own + 0 /\ Cardinality(Lent') = Cardinality(Lent) + 0
        /\ free' + 0 + 0 = free + 0 + (leaked' - leaked)
    BY <1>1, <1>4, <1>5, <1>8, <2>1
  <2> QED BY <1>3, <2>2, Balanced
<1> QED BY <1>6, <1>7, <1>8

\* A cancel ends no execution and revives nobody.
LEMMA CancelsProgress ==
  ASSUME CoordShape, NEW cs, kid' = CancelKids(cs)
  PROVE  /\ kid' \in [Child -> KidStatus]
         /\ Progress(kid, kid')
         /\ KidsExecuting' = KidsExecuting
<1>1. \A s \in KidStatus : /\ Canceled(s) \in KidStatus
                           /\ Canceled(s) = "absent" <=> s = "absent"
                           /\ s \in ChildEnd => Canceled(s) = s
                           /\ Canceled(s) \in {"running", "cancelling"} <=> s \in {"running", "cancelling"}
  BY DEF Canceled, KidStatus, ChildEnd
<1>2. \A c \in Child : kid[c] \in KidStatus /\ (kid'[c] = kid[c] \/ kid'[c] = Canceled(kid[c]))
  BY DEF CancelKids, CoordShape
<1>3. kid' \in [Child -> KidStatus]
  BY <1>1, <1>2 DEF CancelKids
<1>4. Progress(kid, kid')
  BY <1>1, <1>2 DEF Progress, ChildEnd
<1>5. KidsExecuting' = KidsExecuting
  BY <1>1, <1>2 DEF KidsExecuting
<1> QED BY <1>3, <1>4, <1>5

\* As children go on under an attempt that stays where it is, all that was relied on stays.
LEMMA ProgressSettles ==
  ASSUME policy \in Policies, SettleInv, Progress(kid, kid'), UNCHANGED <<policy, parent>>
  PROVE  SettleInv'
<1>1. /\ ActiveKids(kid') \subseteq ActiveKids(kid) /\ Optional(kid') \subseteq Optional(kid)
      /\ PolicySatisfied(kid) => PolicySatisfied(kid')
      /\ Surplus(kid) => Surplus(kid')
  BY ProgressKeepsMembers, SatisfiedStays, SurplusStays
<1>2. /\ ActiveKids(kid)' = ActiveKids(kid') /\ Optional(kid)' = Optional(kid')
      /\ PolicySatisfied(kid)' = PolicySatisfied(kid') /\ Surplus(kid)' = Surplus(kid')
  BY DEF ActiveKids, ActiveIn, Admitted, Optional, Mode, PolicySatisfied, Groups, QuorumMet,
     CompletedIn, Members, Need, Impossible, QuorumLost, Surplus
<1> QED BY <1>1, <1>2 DEF SettleInv, Justified, RowOf, ParentAt

\* Whom the settlement has seen ended has ended.
LEMMA SeenEnded ==
  ASSUME CoordShape, Progress(kid, kid'), wait'[0].ids = wait[0].ids, Ended(wait[0].ids) = wait[0].ids
  PROVE  (Ended(wait[0].ids) = wait[0].ids)'
<1>1. wait[0].ids \in SUBSET Child
  BY CoordAssumption DEF CoordShape, Waiter, Wait
<1> QED BY <1>1 DEF Ended, Progress

LEMMA ProgressKeeps ==
  ASSUME CoordInv, Progress(kid, kid'), UNCHANGED <<policy, parent, wait>>
  PROVE  PlaceInv' /\ SettleInv'
<1>1. PlaceInv'
  BY SeenEnded DEF CoordInv, PlaceInv, ParentAt, Executing
<1> QED BY <1>1, ProgressSettles DEF CoordInv, CoordShape

-----------------------------------------------------------------------------
(* Waits: who has lent a slot, and the parent's lock.                       *)

LEMMA LentStep ==
  ASSUME CoordShape, NEW w \in Wait, \A v \in Wait \ {w} : wait'[v].pc = wait[v].pc
  PROVE  /\ (w \in Lent <=> w \in Lent') => Cardinality(Lent') = Cardinality(Lent) + 0
         /\ w \notin Lent /\ w \in Lent' => Cardinality(Lent') = Cardinality(Lent) + 1
         /\ w \in Lent /\ w \notin Lent' => Cardinality(Lent') = Cardinality(Lent) + (-1)
<1>1. IsFiniteSet(Lent) /\ Cardinality(Lent) \in Nat
  BY CountsAreNat DEF Lent
<1>2. Lent' \ {w} = Lent \ {w}
  BY DEF Lent
<1>3. CASE w \in Lent <=> w \in Lent'
  <2>1. Lent' = Lent
    BY <1>2, <1>3
  <2> QED BY <1>1, <1>3, <2>1
<1>4. CASE w \notin Lent /\ w \in Lent'
  <2>1. Lent' = Lent \cup {w}
    BY <1>2, <1>4
  <2>2. Cardinality(Lent') = Cardinality(Lent) + 1
    BY <1>1, <1>4, <2>1, FS_AddElement
  <2> QED BY <1>4, <2>2
<1>5. CASE w \in Lent /\ w \notin Lent'
  <2>1. Lent' = Lent \ {w}
    BY <1>2, <1>5
  <2>2. Cardinality(Lent') = Cardinality(Lent) + (-1)
    BY <1>1, <1>5, <2>1, FS_RemoveElement
  <2> QED BY <1>5, <2>2
<1> QED BY <1>3, <1>4, <1>5

\* A set of numbers that is not empty has a least one.
LEMMA MinIsIn ==
  ASSUME NEW S, S \subseteq Nat, S # {}
  PROVE  Min(S) \in S
<1> DEFINE R == OpToRel(<, Nat)
<1>1. PICK x \in S : \A y \in S : ~ (<<y, x>> \in R)
  <2>1. IsWellFoundedOn(R, Nat)
    BY NatLessThanWellFounded
  <2> HIDE DEF R
  <2> QED BY <2>1, WFMin
<1>2. \A m, n \in Nat : <<m, n>> \in R <=> m < n
  BY DEF OpToRel
<1> HIDE DEF R
<1>3. ASSUME NEW y \in S PROVE x <= y
  <2>1. x \in Nat /\ y \in Nat
    OBVIOUS
  <2>2. ~(y < x)
    BY <1>1, <1>2, <2>1
  <2> QED BY <2>1, <2>2
<1> QED BY <1>3 DEF Min

\* There are more numbers for locks than waits.
LEMMA UnheldIsNat ==
  ASSUME CoordShape, dictLock = 0
  PROVE  Unheld \in Nat
<1> DEFINE objs == {wait[w].obj : w \in Wait}
           f == [w \in Wait |-> wait[w].obj]
           N == 1..(ToolWaits + 2)
<1>1. IsFiniteSet(objs) /\ Cardinality(objs) <= Cardinality(Wait)
  <2>1. f \in Surjection(Wait, objs)
    BY DEF Surjection
  <2> HIDE DEF f, objs
  <2> QED BY <2>1, CountsAreNat, FS_Surjection
<1>2. Cardinality(Wait) = ToolWaits + 1 /\ IsFiniteSet(N) /\ Cardinality(N) = ToolWaits + 2
  <2>1. 0 \in Int /\ 1 \in Int /\ ToolWaits \in Nat /\ ToolWaits + 2 \in Int
    BY CoordAssumption
  <2> QED BY <2>1, FS_Interval DEF Wait
<1>3. N \ objs # {}
  <2> SUFFICES ASSUME N \in SUBSET objs PROVE FALSE
    OBVIOUS
  <2>1. Cardinality(N) <= Cardinality(objs)
    BY <1>1, FS_Subset
  <2>2. Cardinality(objs) \in Nat /\ ToolWaits \in Nat
    BY <1>1, FS_CardinalityType, CoordAssumption
  <2> HIDE DEF N, objs
  <2> QED BY <1>1, <1>2, <2>1, <2>2
<1>4. N \ ({dictLock} \cup objs) = N \ objs
  BY CoordAssumption
<1>5. N \ objs \subseteq Nat
  OBVIOUS
<1>6. Unheld = Min(N \ objs)
  BY <1>4 DEF Unheld
<1> HIDE DEF N, objs
<1> QED BY <1>3, <1>5, <1>6, MinIsIn

LEMMA AsksLock ==
  ASSUME CoordShape, NEW w \in Wait, NEW ids \in SUBSET Child, NEW all \in BOOLEAN,
         AskLock(w, ids, all)
  PROVE  /\ dictLock' \in Nat /\ wait' \in [Wait -> Waiter]
         /\ wait'[w].pc = "lock" /\ wait'[w].ids = ids /\ wait'[w].all = all
         /\ \A v \in Wait \ {w} : wait'[v] = wait[v]
<1> DEFINE o == IF dictLock = 0 THEN Unheld ELSE dictLock
           h == \A v \in Wait : wait[v].obj # o
<1>1. o \in Nat
  BY UnheldIsNat DEF CoordShape
<1>2. h \in BOOLEAN
  OBVIOUS
<1>3. /\ dictLock' = o
      /\ wait' = [wait EXCEPT ![w] = [pc |-> "lock", ids |-> ids, all |-> all, obj |-> o, cut |-> FALSE,
                                      has |-> h]]
  BY DEF AskLock
<1> HIDE DEF o, h
<1> QED BY <1>1, <1>2, <1>3 DEF CoordShape, Waiter

-----------------------------------------------------------------------------
(* The steps of the children.                                              *)

LEMMA CoordStart == CoordInit => CoordInv
<1> SUFFICES ASSUME CoordInit PROVE CoordInv
  OBVIOUS
<1>1. 0 \in Wait
  BY CoordAssumption DEF Wait
<1>2. NoKids \in [Child -> KidStatus]
  BY DEF NoKids, KidStatus
<1>3. CoordShape
  BY <1>2, CoordAssumption DEF CoordInit, CoordShape, Attempt, Waiter, NoWait, ParentPc, Outcome
<1>4. SlotInv
  <2>1. KidsExecuting = {} /\ Lent = {} /\ ~Executing
    BY DEF CoordInit, KidsExecuting, NoKids, Lent, NoWait, Executing, ParentAt
  <2>2. Cardinality(KidsExecuting) = 0 /\ Cardinality(Lent) = 0
    BY <2>1, FS_EmptySet
  <2>3. Holders = 0
    BY <2>1, <2>2 DEF Holders
  <2> QED BY <2>2, <2>3, CoordAssumption DEF CoordInit, SlotInv
<1>5. PlaceInv
  BY <1>1 DEF CoordInit, PlaceInv, NoWait, ParentAt, Executing
<1>6. SettleInv
  BY DEF CoordInit, SettleInv, ParentAt
<1> QED BY <1>3, <1>4, <1>5, <1>6 DEF CoordInv

LEMMA KidSteps ==
  ASSUME CoordInv, NEW c \in Child, KidStep(c) \/ DecideKid(c)
  PROVE  CoordInv'
<1>1. CoordShape' /\ SlotInv' /\ Progress(kid, kid') /\ UNCHANGED <<policy, parent, wait>>
  <2>0. CoordShape /\ SlotInv /\ free \in Nat
    BY DEF CoordInv, CoordShape
  <2>1. ASSUME NEW from \in SUBSET KidStatus, NEW to \in KidStatus, NEW n \in Nat, KidMoves(c, from, to, n),
               "absent" \notin from \cup {to}, from \cap ChildEnd = {} \/ (from = {"cleanup_required"} /\ to = "failed")
        PROVE  Progress(kid, kid') /\ UNCHANGED <<policy, parent, wait>>
    <3>1. kid[c] \in from /\ kid' = [kid EXCEPT ![c] = to] /\ UNCHANGED <<policy, parent, wait>>
      BY <2>1 DEF KidMoves
    <3>2. kid'[c] = to /\ \A d \in Child \ {c} : kid'[d] = kid[d]
      BY <2>0, <3>1 DEF CoordShape
    <3> QED BY <2>1, <3>1, <3>2 DEF Progress, ChildEnd
  <2>2. CASE StartKid(c)
    <3>1. free > 0 /\ free - 1 \in Nat /\ (free - 1) + 1 = free
          /\ KidMoves(c, {"queued"}, "running", free - 1) /\ kid[c] = "queued"
      BY <2>0, <2>2 DEF StartKid, KidMoves
    <3>2. {"queued"} \in SUBSET KidStatus /\ "running" \in KidStatus
      BY DEF KidStatus
    <3>3. CoordShape' /\ SlotInv'
      BY <2>0, <3>1, <3>2, KidSlots
    <3>4. "absent" \notin {"queued"} \cup {"running"} /\ {"queued"} \cap ChildEnd = {}
      BY DEF ChildEnd
    <3> QED BY <2>1, <3>1, <3>2, <3>3, <3>4
  <2>3. CASE EndKid(c) \/ PauseKid(c)
    <3>1. PICK s \in ChildEnd \cup {"waiting"} : KidMoves(c, {"running", "cancelling"}, s, free + 1)
      BY <2>3 DEF EndKid, PauseKid
    <3>2. /\ {"running", "cancelling"} \in SUBSET KidStatus /\ s \in KidStatus
          /\ s \notin {"running", "cancelling"} /\ kid[c] \in {"running", "cancelling"}
          /\ free + 1 \in Nat
      BY <2>0, <3>1 DEF KidStatus, ChildEnd, KidMoves
    <3>3. CoordShape' /\ SlotInv'
      BY <2>0, <3>1, <3>2, KidSlots
    <3>4. "absent" \notin {"running", "cancelling"} \cup {s} /\ {"running", "cancelling"} \cap ChildEnd = {}
      BY DEF ChildEnd
    <3> QED BY <2>1, <3>1, <3>2, <3>3, <3>4
  <2>4. CASE DecideKid(c)
    <3>1. KidMoves(c, {"waiting"}, "queued", free) /\ kid[c] = "waiting"
      BY <2>4 DEF DecideKid, KidMoves
    <3>2. {"waiting"} \in SUBSET KidStatus /\ "queued" \in KidStatus
      BY DEF KidStatus
    <3>3. CoordShape' /\ SlotInv'
      BY <2>0, <3>1, <3>2, KidSlots
    <3>4. "absent" \notin {"waiting"} \cup {"queued"} /\ {"waiting"} \cap ChildEnd = {}
      BY DEF ChildEnd
    <3> QED BY <2>0, <2>1, <3>1, <3>2, <3>3, <3>4
  <2>5. CASE ConfirmKid(c)
    <3>1. KidMoves(c, {"cleanup_required"}, "failed", free) /\ kid[c] = "cleanup_required"
      BY <2>5 DEF ConfirmKid, KidMoves
    <3>2. {"cleanup_required"} \in SUBSET KidStatus /\ "failed" \in KidStatus
      BY DEF KidStatus, ChildEnd
    <3>3. CoordShape' /\ SlotInv'
      BY <2>0, <3>1, <3>2, KidSlots
    <3>4. "absent" \notin {"cleanup_required"} \cup {"failed"}
      OBVIOUS
    <3> QED BY <2>0, <2>1, <3>1, <3>2, <3>3, <3>4
  <2> QED BY <2>2, <2>3, <2>4, <2>5 DEF KidStep
<1> QED BY <1>1, ProgressKeeps DEF CoordInv

\* Only while its graph runs does a parent get another child.
LEMMA SpawnStep ==
  ASSUME CoordInv, NEW c \in Child, Spawn(c)
  PROVE  CoordInv'
<1>1. /\ ParentAt({"graph"}) /\ KidMoves(c, {"absent"}, "queued", free) /\ kid[c] = "absent"
      /\ UNCHANGED <<policy, parent, wait>>
  BY DEF Spawn, KidMoves
<1>2. CoordShape' /\ SlotInv'
  <2>1. {"absent"} \in SUBSET KidStatus /\ "queued" \in KidStatus /\ free \in Nat
    BY DEF KidStatus, CoordInv, CoordShape
  <2> QED BY <1>1, <2>1, KidSlots DEF CoordInv
<1>3. PlaceInv'
  BY <1>1 DEF CoordInv, PlaceInv, ParentAt, Executing
<1>4. SettleInv'
  BY <1>1 DEF SettleInv, ParentAt
<1> QED BY <1>2, <1>3, <1>4 DEF CoordInv

\* A cancel of children by a tool of the parent.
LEMMA ToolCancelStep ==
  ASSUME CoordInv, NEW c \in Child, ToolCancel(c)
  PROVE  CoordInv'
<1>1. kid' = CancelKids({c}) /\ UNCHANGED <<policy, parent, free, wait, dictLock, cuts, leaked>>
  BY DEF ToolCancel
<1>2. kid' \in [Child -> KidStatus] /\ Progress(kid, kid') /\ KidsExecuting' = KidsExecuting
  BY <1>1, CancelsProgress DEF CoordInv
<1>3. CoordShape'
  BY <1>1, <1>2 DEF CoordInv, CoordShape
<1>4. SlotInv'
  BY <1>1, <1>2 DEF CoordInv, SlotInv, Holders, Lent, Executing, ParentAt
<1> QED BY <1>1, <1>2, <1>3, <1>4, ProgressKeeps DEF CoordInv

-----------------------------------------------------------------------------
(* The steps of the waits.                                                 *)

\* What a settlement relies on is said of the children and the attempt.
LEMMA SettleStays ==
  ASSUME SettleInv, UNCHANGED <<policy, kid, parent>>
  PROVE  SettleInv'
<1>1. /\ ActiveKids(kid)' = ActiveKids(kid) /\ Optional(kid)' = Optional(kid)
      /\ PolicySatisfied(kid)' = PolicySatisfied(kid) /\ Surplus(kid)' = Surplus(kid)
  BY DEF ActiveKids, ActiveIn, Admitted, Optional, Mode, PolicySatisfied, Groups, QuorumMet,
     CompletedIn, Members, Need, Impossible, QuorumLost, Surplus
<1> QED BY <1>1 DEF SettleInv, ParentAt, Justified, RowOf

LEMMA ZeroWaits == 0 \in Wait
BY CoordAssumption DEF Wait

\* Of a step that changes nothing of a wait but that it has the lock.
LEMMA GetLockStep ==
  ASSUME CoordInv, NEW w \in Wait, GetLock(w)
  PROVE  CoordInv'
<1>1. wait' = [wait EXCEPT ![w].has = TRUE] /\ UNCHANGED <<policy, kid, parent, free, dictLock, cuts, leaked>>
  BY DEF GetLock
<1>2. CoordShape'
  BY <1>1 DEF CoordInv, CoordShape, Waiter
<1>3. \A v \in Wait : /\ wait'[v].pc = wait[v].pc /\ wait'[v].ids = wait[v].ids
                      /\ wait'[v].all = wait[v].all /\ wait'[v].cut = wait[v].cut
  BY <1>1 DEF CoordInv, CoordShape, Waiter
<1>4. SlotInv'
  <2>1. Lent' = Lent
    BY <1>3 DEF Lent
  <2> QED BY <1>1, <2>1 DEF CoordInv, SlotInv, Holders, KidsExecuting, Executing, ParentAt
<1>5. PlaceInv'
  BY <1>1, <1>3, ZeroWaits DEF CoordInv, PlaceInv, ParentAt, Executing, Ended
<1> QED BY <1>1, <1>2, <1>4, <1>5, SettleStays DEF CoordInv

LEMMA LendStep ==
  ASSUME CoordInv, NEW w \in Wait, Lend(w)
  PROVE  CoordInv'
<1>1. /\ wait[w].pc = "lock" /\ wait' = [wait EXCEPT ![w].pc = "poll"] /\ free' = free + 1
      /\ UNCHANGED <<policy, kid, parent, dictLock, cuts, leaked>>
  BY DEF Lend
<1>2. CoordShape'
  BY <1>1 DEF CoordInv, CoordShape, Waiter
<1>3. /\ \A v \in Wait \ {w} : wait'[v] = wait[v]
      /\ wait'[w].pc = "poll" /\ wait'[w].ids = wait[w].ids /\ wait'[w].all = wait[w].all
  BY <1>1 DEF CoordInv, CoordShape, Waiter
<1>4. SlotInv'
  <2>1. w \notin Lent /\ w \in Lent'
    BY <1>1, <1>3 DEF Lent
  <2>2. Cardinality(Lent') = Cardinality(Lent) + 1
    BY <1>3, <2>1, LentStep DEF CoordInv
  <2>3. KidsExecuting' = KidsExecuting /\ Own' = Own
    BY <1>1 DEF KidsExecuting, Own, Executing, ParentAt
  <2>4. Own \in Nat /\ Cardinality(KidsExecuting) \in Nat /\ leaked \in Nat /\ free \in Nat
    BY CountsAreNat DEF Own, CoordInv, CoordShape
  <2>5. /\ Cardinality(KidsExecuting') = Cardinality(KidsExecuting) + 0 /\ Own' = Own + 0
        /\ free' + 0 + 0 = free + 1 + (leaked' - leaked)
    BY <1>1, <2>3, <2>4
  <2> QED BY <1>2, <2>2, <2>5, Balanced DEF CoordInv
<1>5. PlaceInv'
  BY <1>1, <1>3, ZeroWaits DEF CoordInv, PlaceInv, ParentAt, Executing, Ended
<1> QED BY <1>1, <1>2, <1>4, <1>5, SettleStays DEF CoordInv

\* The settlement's wait for all ends when it has seen all of them ended.
LEMMA PollKidsStep ==
  ASSUME CoordInv, NEW w \in Wait, PollKids(w)
  PROVE  CoordInv'
<1>1. /\ wait[w].pc = "poll" /\ (w # 0 \/ Arrived(w)) /\ wait' = [wait EXCEPT ![w].pc = "take"]
      /\ UNCHANGED <<policy, kid, parent, free, dictLock, cuts, leaked>>
  BY DEF PollKids
<1>2. CoordShape'
  BY <1>1 DEF CoordInv, CoordShape, Waiter
<1>3. /\ \A v \in Wait \ {w} : wait'[v] = wait[v]
      /\ wait'[w].pc = "take" /\ wait'[w].ids = wait[w].ids /\ wait'[w].all = wait[w].all
  BY <1>1 DEF CoordInv, CoordShape, Waiter
<1>4. SlotInv'
  <2>1. Lent' = Lent
    BY <1>1, <1>3 DEF Lent
  <2> QED BY <1>1, <2>1 DEF CoordInv, SlotInv, Holders, KidsExecuting, Executing, ParentAt
<1>5. PlaceInv'
  <2>1. w = 0 /\ wait[0].all => Ended(wait[0].ids) = wait[0].ids
    BY <1>1 DEF Arrived
  <2> QED BY <1>1, <1>3, <2>1, ZeroWaits DEF CoordInv, PlaceInv, ParentAt, Executing, Ended
<1> QED BY <1>1, <1>2, <1>4, <1>5, SettleStays DEF CoordInv

\* A cancelled attempt settles its children once, as canceled; the second time it just ends.
LEMMA CanceledOnce ==
  ASSUME CoordInv, Executing, parent' = AfterCancel
  PROVE  /\ parent' \in Attempt /\ SettleInv' /\ parent'.pc \in {"list", "ended"}
         /\ (Executing => parent.row = "running")'
         /\ parent.level = 0 => Own' = Own + 0
         /\ parent.level # 0 => Own' = Own + (-1)
<1>1. parent \in Attempt /\ parent.row = "running"
  BY DEF CoordInv, CoordShape, PlaceInv
<1>2. CASE parent.level = 0
  <2>1. parent' = [parent EXCEPT !.level = 1, !.out = "canceled", !.pc = "list"]
    BY <1>2 DEF AfterCancel
  <2>2. /\ parent' \in Attempt /\ parent'.pc = "list" /\ parent'.out = "canceled"
        /\ parent'.row = "running"
    BY <1>1, <2>1 DEF Attempt, ParentPc, Outcome
  <2>3. SettleInv'
    BY <2>2 DEF SettleInv, ParentAt, Outcome
  <2>4. Own' = 1 /\ Own = 1
    BY <2>2 DEF Own, Executing, ParentAt
  <2> QED BY <1>2, <2>2, <2>3, <2>4
<1>3. CASE parent.level # 0
  <2>1. parent' = [parent EXCEPT !.pc = "ended"]
    BY <1>3 DEF AfterCancel
  <2>2. parent' \in Attempt /\ parent'.pc = "ended" /\ parent'.row = "running"
    BY <1>1, <2>1 DEF Attempt, ParentPc
  <2>3. SettleInv'
    BY <2>2 DEF SettleInv, ParentAt, Justified
  <2>4. Own' = 0 /\ Own = 1
    BY <2>2 DEF Own, Executing, ParentAt
  <2> QED BY <1>3, <2>2, <2>3, <2>4
<1> QED BY <1>2, <1>3

\* After its wait the settlement is where it wanted to go on, with what it waited for.
LEMMA WaitIsOver ==
  ASSUME CoordInv, wait[0].pc \in {"take", "last"}, ~wait[0].cut, UNCHANGED <<policy, kid>>,
         parent' = [parent EXCEPT !.pc = parent.then]
  PROVE  /\ parent' \in Attempt /\ SettleInv' /\ parent'.pc \in {"commit", "recheck", "list"}
         /\ parent'.row = "running"
<1>1. /\ parent \in Attempt /\ parent.row = "running" /\ parent.pc \in {"wait", "waitall"}
      /\ wait[0].ids = parent.ids /\ (wait[0].all <=> parent.pc = "waitall")
  BY DEF CoordInv, CoordShape, PlaceInv, ParentAt, Executing
<1>2. /\ parent' \in Attempt /\ parent'.pc = parent.then /\ parent'.out = parent.out
      /\ parent.then \in {"commit", "recheck", "list"} /\ parent'.row = "running"
  BY <1>1 DEF Attempt, ParentPc
<1>3. CASE parent.pc = "wait"
  <2>1. parent.then = "list" /\ parent.out = "completed"
    BY <1>3 DEF CoordInv, SettleInv, ParentAt
  <2> QED BY <1>2, <2>1 DEF SettleInv, ParentAt, Outcome
<1>4. CASE parent.pc = "waitall"
  <2>1. Ended(parent.ids) = parent.ids
    BY <1>1, <1>4 DEF CoordInv, PlaceInv
  <2>2. \A c \in parent.ids : kid[c] \in ChildEnd
    BY <2>1 DEF Ended
  <2>3. CASE parent.then = "recheck" /\ parent.out = "completed" /\ Optional(kid) \subseteq parent.ids
    <3>1. Optional(kid) = {}
      BY <2>2, <2>3 DEF Optional, ActiveIn
    <3>2. Optional(kid)' = Optional(kid)
      BY DEF Optional, ActiveIn, Mode, Admitted
    <3> QED BY <1>2, <2>3, <3>1, <3>2 DEF SettleInv, ParentAt
  <2>4. CASE parent.then = "commit" /\ parent.out \in {"failed", "canceled"} /\ ActiveKids(kid) \subseteq parent.ids
    <3>1. ActiveKids(kid) = {}
      BY <2>2, <2>4 DEF ActiveKids, ActiveIn
    <3>2. ActiveKids(kid)' = ActiveKids(kid)
      BY DEF ActiveKids, ActiveIn, Admitted
    <3> QED BY <1>2, <2>4, <3>1, <3>2 DEF SettleInv, ParentAt, Justified
  <2> QED BY <1>4, <2>3, <2>4 DEF CoordInv, SettleInv, ParentAt
<1> QED BY <1>1, <1>2, <1>3, <1>4

LEMMA TakeBackStep ==
  ASSUME CoordInv, NEW w \in Wait, TakeBack(w)
  PROVE  CoordInv'
<1>1. /\ wait[w].pc \in {"take", "last"} /\ free > 0 /\ wait' = [wait EXCEPT ![w] = NoWait]
      /\ UNCHANGED <<policy, kid, cuts, leaked>> /\ dictLock' \in {0, dictLock}
  BY DEF TakeBack
<1>2. CoordShape /\ SlotInv /\ free \in Nat /\ leaked \in Nat /\ free - 1 \in Nat
  BY <1>1 DEF CoordInv, CoordShape
<1>3. /\ wait' \in [Wait -> Waiter] /\ wait'[w].pc = "off"
      /\ \A v \in Wait \ {w} : wait'[v] = wait[v]
  BY <1>1, <1>2 DEF CoordShape, Waiter, NoWait
<1>4. Cardinality(Lent') = Cardinality(Lent) + (-1)
  <2>1. w \in Lent /\ w \notin Lent'
    BY <1>1, <1>3 DEF Lent
  <2> QED BY <1>2, <1>3, <2>1, LentStep
<1>5. Cardinality(KidsExecuting') = Cardinality(KidsExecuting) + 0
  <2>1. KidsExecuting' = KidsExecuting
    BY <1>1 DEF KidsExecuting
  <2> QED BY <2>1, CountsAreNat
<1>6. Own \in Nat
  BY DEF Own
<1>7. w # 0 => parent.pc \in {"graph", "unwind"}
  BY <1>1 DEF CoordInv, PlaceInv, ParentAt
<1>8. w = 0 => parent.pc \in {"wait", "waitall"} /\ \A v \in Wait \ {0} : wait[v].pc = "off"
  BY <1>1 DEF CoordInv, PlaceInv, ParentAt
<1>9. CASE w # 0
  <2>1. parent' = parent /\ free' = free - 1
    BY <1>9 DEF TakeBack
  <2>2. CoordShape'
    BY <1>1, <1>2, <1>3, <2>1 DEF CoordShape
  <2>3. Own' = Own + 0 /\ free' + 0 + 0 = free + (-1) + (leaked' - leaked)
    BY <1>1, <1>2, <1>6, <2>1 DEF Own, Executing, ParentAt
  <2>4. SlotInv'
    BY <1>2, <1>4, <1>5, <2>2, <2>3, Balanced
  <2>5. PlaceInv'
    BY <1>1, <1>3, <1>9, <2>1, ZeroWaits DEF CoordInv, PlaceInv, ParentAt, Executing, Ended
  <2> QED BY <1>1, <2>1, <2>2, <2>4, <2>5, SettleStays DEF CoordInv
<1>10. CASE w = 0 /\ wait[w].cut
  <2>1. parent' = AfterCancel /\ free' = SlotsAfterCancel(free - 1) /\ Executing
    BY <1>8, <1>10 DEF TakeBack, Executing, ParentAt
  <2>2. /\ parent' \in Attempt /\ SettleInv' /\ parent'.pc \in {"list", "ended"}
        /\ (Executing => parent.row = "running")'
        /\ parent.level = 0 => Own' = Own + 0 /\ free' = free - 1
        /\ parent.level # 0 => Own' = Own + (-1) /\ free' = (free - 1) + 1
    BY <2>1, CanceledOnce DEF SlotsAfterCancel
  <2>3. CoordShape'
    BY <1>1, <1>2, <1>3, <2>2 DEF CoordShape
  <2>4. SlotInv'
    <3>1. CASE parent.level = 0
      <4>1. free' + 0 + 0 = free + (-1) + (leaked' - leaked)
        BY <1>1, <1>2, <2>2, <3>1
      <4> QED BY <1>2, <1>4, <1>5, <2>2, <2>3, <3>1, <4>1, Balanced
    <3>2. CASE parent.level # 0
      <4>1. free' + 0 + (-1) = free + (-1) + (leaked' - leaked)
        BY <1>1, <1>2, <2>2, <3>2
      <4> QED BY <1>2, <1>4, <1>5, <2>2, <2>3, <3>2, <4>1, Balanced
    <3> QED BY <3>1, <3>2
  <2>5. PlaceInv'
    BY <1>3, <1>8, <1>10, <2>2, ZeroWaits DEF PlaceInv, ParentAt
  <2> QED BY <2>2, <2>3, <2>4, <2>5 DEF CoordInv
<1>11. CASE w = 0 /\ ~wait[w].cut
  <2>1. parent' = [parent EXCEPT !.pc = parent.then] /\ free' = free - 1
    BY <1>11 DEF TakeBack
  <2>2. /\ parent' \in Attempt /\ SettleInv' /\ parent'.pc \in {"commit", "recheck", "list"}
        /\ parent'.row = "running"
    BY <1>1, <1>11, <2>1, WaitIsOver
  <2>3. CoordShape'
    BY <1>1, <1>2, <1>3, <2>1, <2>2 DEF CoordShape
  <2>4. Own' = Own + 0 /\ free' + 0 + 0 = free + (-1) + (leaked' - leaked)
    BY <1>1, <1>2, <1>8, <1>11, <2>1, <2>2 DEF Own, Executing, ParentAt
  <2>5. SlotInv'
    BY <1>2, <1>4, <1>5, <2>3, <2>4, Balanced
  <2>6. PlaceInv'
    BY <1>3, <1>8, <1>11, <2>2, ZeroWaits DEF PlaceInv, ParentAt
  <2> QED BY <2>2, <2>3, <2>5, <2>6 DEF CoordInv
<1> QED BY <1>9, <1>10, <1>11

\* A wait that has asked for the lock has lent nothing yet.
LEMMA AskingSteps ==
  ASSUME CoordInv, NEW w \in Wait,
         \/ SettleWait /\ w = 0
         \/ w # 0 /\ \E ids \in SUBSET Child, all \in BOOLEAN : ToolWait(w, ids, all)
  PROVE  CoordInv'
<1>1. PICK ids \in SUBSET Child, all \in BOOLEAN :
         /\ AskLock(w, ids, all) /\ wait[w].pc = "off"
         /\ w # 0 => ParentAt({"graph"})
         /\ w = 0 => ParentAt({"wait", "waitall"}) /\ ids = parent.ids /\ all = ParentAt({"waitall"})
  <2>1. CASE SettleWait /\ w = 0
    <3>1. parent.ids \in SUBSET Child /\ ParentAt({"waitall"}) \in BOOLEAN
      BY DEF CoordInv, CoordShape, Attempt, ParentAt
    <3> QED BY <2>1, <3>1 DEF SettleWait
  <2>2. CASE w # 0 /\ \E ids \in SUBSET Child, all \in BOOLEAN : ToolWait(w, ids, all)
    BY <2>2 DEF ToolWait
  <2> QED BY <2>1, <2>2
<1>2. UNCHANGED <<policy, kid, parent, free, cuts, leaked>>
  BY DEF SettleWait, ToolWait
<1>3. /\ dictLock' \in Nat /\ wait' \in [Wait -> Waiter]
      /\ wait'[w].pc = "lock" /\ wait'[w].ids = ids /\ wait'[w].all = all
      /\ \A v \in Wait \ {w} : wait'[v] = wait[v]
  BY <1>1, AsksLock DEF CoordInv
<1>4. CoordShape'
  BY <1>2, <1>3 DEF CoordInv, CoordShape
<1>5. SlotInv'
  <2>1. Lent' = Lent
    BY <1>1, <1>3 DEF Lent
  <2> QED BY <1>2, <2>1 DEF CoordInv, SlotInv, Holders, KidsExecuting, Executing, ParentAt
<1>6. PlaceInv'
  BY <1>1, <1>2, <1>3, ZeroWaits DEF CoordInv, PlaceInv, ParentAt, Executing, Ended
<1> QED BY <1>2, <1>4, <1>5, <1>6, SettleStays DEF CoordInv

-----------------------------------------------------------------------------
(* The steps of the attempt.                                               *)

\* A step of the attempt between two slots.
LEMMA AttemptMoves ==
  ASSUME CoordInv, parent' \in Attempt, UNCHANGED <<policy, kid, wait, dictLock, cuts, leaked>>,
         free' \in Nat, NEW de \in Int, Own' = Own + de, free' + de = free,
         wait[0].pc = "off",
         ParentAt({"graph", "unwind"})' \/ \A w \in Wait \ {0} : wait[w].pc = "off",
         (Executing => parent.row = "running")',
         (ParentAt({"queued", "paused"}) => parent.row \in {"queued", "waiting"})',
         SettleInv'
  PROVE  CoordInv'
<1>1. CoordShape'
  BY DEF CoordInv, CoordShape
<1>2. SlotInv'
  <2>1. Lent' = Lent /\ KidsExecuting' = KidsExecuting
    BY DEF Lent, KidsExecuting
  <2>2. /\ Cardinality(KidsExecuting) \in Nat /\ Cardinality(Lent) \in Nat
        /\ free \in Nat /\ leaked \in Nat
    BY CountsAreNat DEF Lent, CoordInv, CoordShape
  <2> DEFINE K == Cardinality(KidsExecuting)
             L == Cardinality(Lent)
  <2>3. Cardinality(KidsExecuting') = K /\ Cardinality(Lent') = L
    BY <2>1
  <2>4. K \in Nat /\ L \in Nat
    BY <2>2
  <2> HIDE DEF K, L
  <2>5. K = K + 0 /\ L = L + 0
    BY <2>4
  <2>6. Cardinality(KidsExecuting') = K + 0 /\ Cardinality(Lent') = L + 0
    BY <2>3, <2>5
  <2>7. free' + 0 + de = free + 0 + (leaked - leaked)
    <3>1. PICK f \in Nat : f = free'
      OBVIOUS
    <3>2. f + de = free
      BY <3>1
    <3>3. f + 0 + de = free + 0 + (leaked - leaked)
      BY <2>2, <3>2
    <3> QED BY <3>1, <3>3
  <2>8. free' + 0 + de = free + 0 + (leaked' - leaked)
    BY <2>7
  <2> QED BY <1>1, <2>6, <2>8, Balanced DEF CoordInv, K, L
<1>3. PlaceInv'
  BY ZeroWaits DEF PlaceInv, ParentAt
<1> QED BY <1>1, <1>2, <1>3 DEF CoordInv

LEMMA Whereabouts ==
  ASSUME CoordInv
  PROVE  /\ parent \in Attempt /\ free \in Nat
         /\ ~ParentAt({"wait", "waitall"}) => wait[0].pc = "off"
         /\ ~ParentAt({"graph", "unwind"}) => \A w \in Wait \ {0} : wait[w].pc = "off"
         /\ Executing => parent.row = "running"
BY DEF CoordInv, CoordShape, PlaceInv, ParentAt

LEMMA StartParentStep ==
  ASSUME CoordInv, StartParent
  PROVE  CoordInv'
<1>1. /\ parent.pc = "queued" /\ free > 0 /\ free' = free - 1
      /\ parent' = [parent EXCEPT !.pc = "graph", !.row = "running", !.out = "none", !.level = 0]
      /\ UNCHANGED <<policy, kid, wait, dictLock, cuts, leaked>>
  BY DEF StartParent, ParentAt
<1>2. parent' \in Attempt /\ parent'.pc = "graph" /\ parent'.row = "running"
  BY <1>1, Whereabouts DEF Attempt, ParentPc, Outcome
<1>3. free' \in Nat /\ free' + 1 = free
  BY <1>1, Whereabouts
<1>4. Own' = Own + 1 /\ wait[0].pc = "off"
  BY <1>1, <1>2, Whereabouts DEF Own, Executing, ParentAt
<1>5. SettleInv' /\ ParentAt({"graph", "unwind"})' /\ (Executing => parent.row = "running")'
      /\ (ParentAt({"queued", "paused"}) => parent.row \in {"queued", "waiting"})'
  BY <1>2 DEF SettleInv, ParentAt
<1> QED BY <1>1, <1>2, <1>3, <1>4, <1>5, AttemptMoves

LEMMA CommitParentStep ==
  ASSUME CoordInv, CommitParent
  PROVE  CoordInv'
<1>1. /\ parent.pc = "commit" /\ free' = free + 1
      /\ UNCHANGED <<policy, kid, wait, dictLock, cuts, leaked>>
  BY DEF CommitParent, ParentAt
<1>2. PICK row \in {parent.out, "failed"} :
        parent' = [parent EXCEPT !.row = row, !.pc = IF row = "waiting" THEN "paused" ELSE "ended"]
  BY DEF CommitParent
<1>3. parent.out # "none" /\ Justified(parent.out)
  BY <1>1 DEF CoordInv, SettleInv, ParentAt
<1>4. row \in Outcome \cup {"waiting"}
  BY <1>2, <1>3, Whereabouts DEF Attempt, Outcome
<1>5. /\ parent' \in Attempt /\ parent'.row = row /\ parent'.out = parent.out
      /\ parent'.pc = IF row = "waiting" THEN "paused" ELSE "ended"
  BY <1>2, <1>4, Whereabouts DEF Attempt, ParentPc
<1>6. free' \in Nat /\ free' + (-1) = free
  BY <1>1, Whereabouts
<1>7. Own' = Own + (-1) /\ wait[0].pc = "off" /\ \A w \in Wait \ {0} : wait[w].pc = "off"
  BY <1>1, <1>5, Whereabouts DEF Own, Executing, ParentAt
<1>8. Justified(parent.out)' /\ RowOf(parent.out, parent.row)'
  <2>1. /\ ActiveKids(kid)' = ActiveKids(kid) /\ Surplus(kid)' = Surplus(kid)
        /\ PolicySatisfied(kid)' = PolicySatisfied(kid)
    BY <1>1 DEF ActiveKids, ActiveIn, Admitted, Mode, PolicySatisfied, Groups, QuorumMet,
       CompletedIn, Members, Need, Impossible, QuorumLost, Surplus
  <2> QED BY <1>2, <1>3, <1>5, <2>1 DEF Justified, RowOf
<1>9. parent'.pc = "paused" => parent'.out = "waiting"
  BY <1>2, <1>5
<1>10. SettleInv'
  BY <1>5, <1>8, <1>9 DEF SettleInv, ParentAt
<1>11. /\ (Executing => parent.row = "running")'
       /\ (ParentAt({"queued", "paused"}) => parent.row \in {"queued", "waiting"})'
  BY <1>5 DEF Executing, ParentAt
<1> QED BY <1>1, <1>5, <1>6, <1>7, <1>10, <1>11, AttemptMoves

\* Where the attempt stays an attempt.
LEMMA StaysAttempt ==
  ASSUME CoordInv, parent' \in Attempt, UNCHANGED <<policy, kid, free, wait, dictLock, cuts, leaked>>,
         Executing, ~ParentAt({"wait", "waitall"}), \A w \in Wait \ {0} : wait[w].pc = "off",
         parent'.row = parent.row, parent'.pc \notin {"queued", "paused", "ended"}, SettleInv'
  PROVE  CoordInv'
<1>1. parent.row = "running" /\ free \in Nat /\ wait[0].pc = "off"
  BY Whereabouts
<1>2. Own' = Own + 0
  BY DEF Own, Executing, ParentAt
<1>3. /\ (Executing => parent.row = "running")' /\ free' \in Nat /\ free' + 0 = free
      /\ (ParentAt({"queued", "paused"}) => parent.row \in {"queued", "waiting"})'
  BY <1>1 DEF ParentAt
<1> QED BY <1>1, <1>2, <1>3, AttemptMoves

LEMMA GraphEndSteps ==
  ASSUME CoordInv, Unwound \/ \E out \in {"completed", "failed", "waiting"} : StopGraph(out)
  PROVE  CoordInv'
<1>1. /\ parent.pc \in {"graph", "unwind"} /\ NoToolWaits
      /\ UNCHANGED <<policy, kid, free, wait, dictLock, cuts, leaked>>
  BY DEF Unwound, StopGraph, ParentAt
<1>2. PICK out \in Outcome \cup {"waiting"} :
        parent' = [parent EXCEPT !.out = out, !.pc = IF out = "waiting" THEN "commit" ELSE "list"]
  BY DEF Unwound, StopGraph, Outcome
<1>3. /\ parent' \in Attempt /\ parent'.row = parent.row /\ parent'.out = out
      /\ parent'.pc = IF out = "waiting" THEN "commit" ELSE "list"
  <2>1. parent \in Attempt
    BY Whereabouts
  <2> QED BY <1>2, <2>1 DEF Attempt, ParentPc, Outcome
<1>4. SettleInv'
  <2>1. CASE out = "waiting"
    BY <1>3, <2>1 DEF SettleInv, ParentAt, Justified
  <2>2. CASE out # "waiting"
    <3>1. parent'.pc = "list" /\ parent'.out \in Outcome
      BY <1>3, <2>2
    <3> QED BY <3>1 DEF SettleInv, ParentAt
  <2> QED BY <2>1, <2>2
<1>5. Executing /\ ~ParentAt({"wait", "waitall"}) /\ \A w \in Wait \ {0} : wait[w].pc = "off"
  BY <1>1 DEF Executing, ParentAt, NoToolWaits
<1> QED BY <1>1, <1>3, <1>4, <1>5, StaysAttempt

\* What the reading of the children decides.
LEMMA JudgedStep ==
  ASSUME CoordInv, ParentAt({"list", "recheck"}), Optional(kid) = {}, UNCHANGED <<policy, kid>>,
         parent.out = "completed", parent' = Judged
  PROVE  /\ parent' \in Attempt /\ parent'.row = parent.row /\ parent'.pc \in {"cancel", "commit", "wait"}
         /\ SettleInv'
<1>1. /\ parent \in Attempt /\ policy \in Policies /\ kid \in [Child -> KidStatus]
      /\ ActiveKids(kid) \in SUBSET Child
  BY DEF CoordInv, CoordShape, ActiveKids, ActiveIn, Admitted
<1>2. WaitFor(kid) \in SUBSET Child
  BY DEF WaitFor, OpenQuorums, ActiveIn, Mode, Members, Admitted
<1>3. /\ ActiveKids(kid)' = ActiveKids(kid) /\ Surplus(kid)' = Surplus(kid)
      /\ PolicySatisfied(kid)' = PolicySatisfied(kid)
  BY DEF ActiveKids, ActiveIn, Admitted, Mode, PolicySatisfied, Groups, QuorumMet,
     CompletedIn, Members, Need, Impossible, QuorumLost, Surplus
<1>4. Impossible(kid) \/ PolicySatisfied(kid) \/ WaitFor(kid) # {}
  BY <1>1, SomebodyToWaitFor
<1>5. CASE Impossible(kid) /\ ActiveKids(kid) # {}
  <2>1. parent' = CancelAll(ActiveKids(kid), "commit", "failed")
    BY <1>5 DEF Judged, PolicySatisfied
  <2>2. /\ parent' \in Attempt /\ parent'.row = parent.row /\ parent'.pc = "cancel"
        /\ parent'.then = "commit" /\ parent'.out = "failed" /\ parent'.ids = ActiveKids(kid)
    BY <1>1, <2>1 DEF CancelAll, Attempt, ParentPc, Outcome
  <2> QED BY <1>3, <2>2 DEF SettleInv, ParentAt
<1>6. CASE Impossible(kid) /\ ActiveKids(kid) = {}
  <2>1. parent' = Finish("failed")
    BY <1>6 DEF Judged, PolicySatisfied
  <2>2. parent' \in Attempt /\ parent'.row = parent.row /\ parent'.pc = "commit" /\ parent'.out = "failed"
    BY <1>1, <2>1 DEF Finish, Attempt, ParentPc, Outcome
  <2> QED BY <1>3, <1>6, <2>2 DEF SettleInv, ParentAt, Justified
<1>7. CASE PolicySatisfied(kid)
  <2>1. parent' = Finish("completed")
    BY <1>7 DEF Judged, PolicySatisfied
  <2>2. parent' \in Attempt /\ parent'.row = parent.row /\ parent'.pc = "commit" /\ parent'.out = "completed"
    BY <1>1, <2>1 DEF Finish, Attempt, ParentPc, Outcome
  <2>3. Surplus(kid)
    BY <1>1, <1>7, OthersAreSurplus
  <2> QED BY <1>3, <1>7, <2>2, <2>3 DEF SettleInv, ParentAt, Justified
<1>8. CASE ~Impossible(kid) /\ ~PolicySatisfied(kid)
  <2>1. parent' = [parent EXCEPT !.pc = "wait", !.ids = WaitFor(kid), !.snap = kid, !.then = "list"]
    BY <1>4, <1>8 DEF Judged
  <2>2. /\ parent' \in Attempt /\ parent'.row = parent.row /\ parent'.pc = "wait"
        /\ parent'.then = "list" /\ parent'.out = "completed"
    BY <1>1, <1>2, <2>1 DEF Attempt, ParentPc
  <2> QED BY <2>2 DEF SettleInv, ParentAt
<1> QED BY <1>5, <1>6, <1>7, <1>8

LEMMA ReadingStep ==
  ASSUME CoordInv, Settle
  PROVE  CoordInv'
<1>1. /\ ParentAt({"list", "recheck"}) /\ UNCHANGED <<policy, kid, free, wait, dictLock, cuts, leaked>>
  BY DEF Settle
<1>2. /\ Executing /\ ~ParentAt({"wait", "waitall"}) /\ parent \in Attempt
      /\ \A w \in Wait \ {0} : wait[w].pc = "off"
  BY <1>1, Whereabouts DEF Executing, ParentAt
<1>3. /\ ActiveKids(kid)' = ActiveKids(kid) /\ Optional(kid)' = Optional(kid)
      /\ ActiveKids(kid) \in SUBSET Child /\ ToCancel(kid) \in SUBSET Child
      /\ Optional(kid) \subseteq ToCancel(kid)
  BY <1>1 DEF ActiveKids, ActiveIn, Admitted, ToCancel, Optional, Mode, OpenQuorums, Members
<1> SUFFICES /\ parent' \in Attempt /\ parent'.row = parent.row
             /\ parent'.pc \in {"cancel", "commit", "wait"} /\ SettleInv'
  BY <1>1, <1>2, StaysAttempt
<1>4. ASSUME Optional(kid) = {}, parent.out = "completed", parent' = Judged
      PROVE  /\ parent' \in Attempt /\ parent'.row = parent.row
             /\ parent'.pc \in {"cancel", "commit", "wait"} /\ SettleInv'
  BY <1>1, <1>4, JudgedStep
<1>5. CASE parent.pc = "recheck"
  <2>1. parent' = Judged
    BY <1>5 DEF Settle
  <2>2. parent.out = "completed" /\ Optional(kid) = {}
    BY <1>5 DEF CoordInv, SettleInv, ParentAt
  <2> QED BY <1>4, <2>1, <2>2
<1>6. CASE parent.pc = "list" /\ parent.out # "completed" /\ ActiveKids(kid) = {}
  <2>1. parent' = Finish(parent.out) /\ parent.out \in Outcome
    BY <1>6 DEF Settle, CoordInv, SettleInv, ParentAt
  <2>2. /\ parent' \in Attempt /\ parent'.row = parent.row /\ parent'.pc = "commit"
        /\ parent'.out = parent.out
    BY <1>2, <2>1 DEF Finish, Attempt, ParentPc
  <2> QED BY <1>3, <1>6, <2>1, <2>2 DEF SettleInv, ParentAt, Justified, Outcome
<1>7. CASE parent.pc = "list" /\ parent.out # "completed" /\ ActiveKids(kid) # {}
  <2>1. parent' = CancelAll(ActiveKids(kid), "commit", parent.out) /\ parent.out \in {"failed", "canceled"}
    BY <1>7 DEF Settle, CoordInv, SettleInv, ParentAt, Outcome
  <2>2. /\ parent' \in Attempt /\ parent'.row = parent.row /\ parent'.pc = "cancel"
        /\ parent'.out = parent.out /\ parent'.then = "commit" /\ parent'.ids = ActiveKids(kid)
    BY <1>2, <1>3, <2>1 DEF CancelAll, Attempt, ParentPc
  <2> QED BY <1>3, <2>1, <2>2 DEF SettleInv, ParentAt
<1>8. CASE parent.pc = "list" /\ parent.out = "completed" /\ ToCancel(kid) = {}
  <2>1. parent' = Judged /\ Optional(kid) = {}
    BY <1>3, <1>8 DEF Settle
  <2> QED BY <1>4, <1>8, <2>1
<1>9. CASE parent.pc = "list" /\ parent.out = "completed" /\ ToCancel(kid) # {}
  <2>1. parent' = CancelAll(ToCancel(kid), "recheck", "completed")
    BY <1>9 DEF Settle
  <2>2. /\ parent' \in Attempt /\ parent'.row = parent.row /\ parent'.pc = "cancel"
        /\ parent'.out = "completed" /\ parent'.then = "recheck" /\ parent'.ids = ToCancel(kid)
    BY <1>2, <1>3, <2>1 DEF CancelAll, Attempt, ParentPc, Outcome
  <2> QED BY <1>3, <2>2 DEF SettleInv, ParentAt
<1> QED BY <1>1, <1>5, <1>6, <1>7, <1>8, <1>9 DEF ParentAt

LEMMA DecideParentStep ==
  ASSUME CoordInv, DecideParent
  PROVE  CoordInv'
<1>1. /\ parent.pc = "paused" /\ parent' = [parent EXCEPT !.pc = "queued", !.row = "queued"]
      /\ UNCHANGED <<policy, kid, free, wait, dictLock, cuts, leaked>>
  BY DEF DecideParent, ParentAt
<1>2. /\ parent' \in Attempt /\ parent'.pc = "queued" /\ parent'.row = "queued"
      /\ parent'.out \in {"none", "waiting"}
  BY <1>1, Whereabouts DEF Attempt, ParentPc, CoordInv, SettleInv, ParentAt
<1>3. free' \in Nat /\ free' + 0 = free
  BY <1>1, Whereabouts
<1>4. Own' = Own + 0 /\ wait[0].pc = "off" /\ \A w \in Wait \ {0} : wait[w].pc = "off"
  BY <1>1, <1>2, Whereabouts DEF Own, Executing, ParentAt
<1>5. /\ SettleInv' /\ (Executing => parent.row = "running")'
      /\ (ParentAt({"queued", "paused"}) => parent.row \in {"queued", "waiting"})'
  BY <1>2 DEF SettleInv, Executing, ParentAt
<1> QED BY <1>1, <1>2, <1>3, <1>4, <1>5, AttemptMoves

\* One of the children that the settlement cancels, of those it waits for.
LEMMA CancelOneStep ==
  ASSUME CoordInv, NEW c \in Child, CancelOne(c)
  PROVE  CoordInv'
<1>1. /\ parent.pc = "cancel" /\ kid' = CancelKids({c})
      /\ parent' = [parent EXCEPT !.todo = @ \ {c}, !.pc = IF parent.todo = {c} THEN "waitall" ELSE "cancel"]
      /\ UNCHANGED <<policy, free, wait, dictLock, cuts, leaked>>
  BY DEF CancelOne, ParentAt
<1>2. /\ parent' \in Attempt /\ parent'.pc \in {"cancel", "waitall"} /\ parent'.row = parent.row
      /\ parent'.ids = parent.ids /\ parent'.out = parent.out /\ parent'.then = parent.then
  BY <1>1, Whereabouts DEF Attempt, ParentPc
<1>3. kid' \in [Child -> KidStatus] /\ Progress(kid, kid') /\ KidsExecuting' = KidsExecuting
  BY <1>1, CancelsProgress DEF CoordInv
<1>4. CoordShape'
  BY <1>1, <1>2, <1>3 DEF CoordInv, CoordShape
<1>5. SlotInv'
  <2>1. Executing' = Executing
    BY <1>1, <1>2 DEF Executing, ParentAt
  <2> QED BY <1>1, <1>3, <2>1 DEF CoordInv, SlotInv, Holders, Lent
<1>6. PlaceInv'
  BY <1>1, <1>2, Whereabouts, ZeroWaits DEF CoordInv, PlaceInv, Executing, ParentAt
<1>7. SettleInv'
  <2>1. /\ ActiveKids(kid') \subseteq ActiveKids(kid) /\ Optional(kid') \subseteq Optional(kid)
        /\ ActiveKids(kid)' = ActiveKids(kid') /\ Optional(kid)' = Optional(kid')
    BY <1>1, <1>3, ProgressKeepsMembers DEF ActiveKids, ActiveIn, Admitted, Optional, Mode
  <2> QED BY <1>1, <1>2, <2>1 DEF CoordInv, SettleInv, ParentAt
<1> QED BY <1>4, <1>5, <1>6, <1>7 DEF CoordInv

-----------------------------------------------------------------------------
(* CancelledError.                                                         *)

\* Each doubly cancelled wait of a tool loses its slot, and the others keep what they lent.
LEMMA CutToolsSlots ==
  ASSUME CoordShape, CutTools
  PROVE  /\ wait' \in [Wait -> Waiter] /\ wait'[0] = wait[0]
         /\ \E n \in Nat : leaked' = leaked + n /\ Cardinality(Lent') = Cardinality(Lent) + (-n)
<1> DEFINE X == {w \in Wait \ {0} : wait[w].pc = "last"}
<1>1. /\ wait' = [w \in Wait |-> IF w = 0 THEN wait[0] ELSE CutWait(wait[w])]
      /\ leaked' = leaked + Cardinality(X)
  BY DEF CutTools, Lost
<1>2. \A x \in Waiter : /\ CutWait(x) \in Waiter
                        /\ CutWait(x).pc \in {"poll", "take", "last"} <=> x.pc \in {"poll", "take"}
  BY DEF CutWait, Waiter, NoWait
<1>3. wait' \in [Wait -> Waiter] /\ wait'[0] = wait[0]
  BY <1>1, <1>2, ZeroWaits DEF CoordShape
<1>4. \A w \in Wait : w \in Lent' <=> w \in Lent /\ w \notin X
  BY <1>1, <1>2, ZeroWaits DEF CoordShape, Lent
<1>5. Lent' = Lent \ X /\ Lent \cap X = X
  BY <1>4 DEF Lent
<1>6. IsFiniteSet(Lent) /\ Cardinality(Lent) \in Nat /\ Cardinality(X) \in Nat
  BY CountsAreNat DEF Lent
<1> HIDE DEF X
<1>7. Cardinality(Lent') = Cardinality(Lent) - Cardinality(X)
  <2>1. Cardinality(Lent \ X) = Cardinality(Lent) - Cardinality(Lent \cap X)
    BY <1>6, FS_Difference
  <2> QED BY <1>5, <2>1
<1>8. Cardinality(Lent') = Cardinality(Lent) + (-Cardinality(X))
  BY <1>6, <1>7
<1> QED BY <1>1, <1>3, <1>6, <1>8

\* A cancel that reaches the attempt, while children may be cancelled with it.
LEMMA CutStep ==
  ASSUME CoordInv, Cut, kid' \in [Child -> KidStatus], Progress(kid, kid'), KidsExecuting' = KidsExecuting
  PROVE  CoordInv'
<1>1. Executing /\ cuts' = cuts + 1 /\ UNCHANGED <<policy, dictLock>>
  BY DEF Cut
<1>2. /\ CoordShape /\ SlotInv /\ SettleInv /\ policy \in Policies /\ free \in Nat /\ leaked \in Nat
      /\ cuts \in Nat /\ Own \in Nat /\ Cardinality(Lent) \in Nat /\ wait[0] \in Waiter
      /\ Cardinality(KidsExecuting') = Cardinality(KidsExecuting) + 0
  BY CountsAreNat, ZeroWaits DEF CoordInv, CoordShape, Own, Lent
<1>3. CASE ParentAt({"graph", "unwind"}) /\ CutTools /\ UNCHANGED free
           /\ parent' = [parent EXCEPT !.pc = "unwind"]
  <2>1. parent' \in Attempt /\ parent'.pc = "unwind" /\ parent'.row = "running"
    BY <1>1, <1>3, Whereabouts DEF Attempt, ParentPc
  <2>2. wait' \in [Wait -> Waiter] /\ wait'[0] = wait[0]
    BY <1>2, <1>3, CutToolsSlots
  <2>3. PICK n \in Nat : leaked' = leaked + n /\ Cardinality(Lent') = Cardinality(Lent) + (-n)
    BY <1>2, <1>3, CutToolsSlots
  <2>4. CoordShape'
    BY <1>1, <1>2, <1>3, <2>1, <2>2, <2>3 DEF CoordShape
  <2>5. Own' = Own + 0
    BY <1>1, <2>1 DEF Own, Executing, ParentAt
  <2>6. free' + 0 + 0 = free + (-n) + (leaked' - leaked)
    <3>1. \A f, l \in Nat : f + 0 + 0 = f + (-n) + ((l + n) - l)
      OBVIOUS
    <3> QED BY <1>2, <1>3, <2>3, <3>1
  <2>7. SlotInv'
    BY <1>2, <2>3, <2>4, <2>5, <2>6, Balanced
  <2>8. wait[0].pc = "off"
    BY <1>3, Whereabouts DEF ParentAt
  <2>9. PlaceInv' /\ SettleInv'
    BY <2>1, <2>2, <2>8, ZeroWaits DEF PlaceInv, SettleInv, ParentAt
  <2> QED BY <2>4, <2>7, <2>9 DEF CoordInv
<1>4. CASE ParentAt({"unwind"}) /\ UNCHANGED <<wait, leaked, parent, free>>
  <2>1. CoordShape'
    BY <1>1, <1>2, <1>4 DEF CoordShape
  <2>2. SlotInv'
    BY <1>2, <1>4 DEF SlotInv, Holders, Lent, Executing, ParentAt
  <2> QED BY <1>1, <1>4, <2>1, <2>2, ProgressKeeps DEF CoordInv
<1>5. CASE /\ wait[0].pc \in {"poll", "take"} /\ wait' = [wait EXCEPT ![0] = CutWait(wait[0])]
           /\ UNCHANGED <<parent, free, leaked>>
  <2>1. /\ CutWait(wait[0]) \in Waiter /\ CutWait(wait[0]).pc \in {"take", "last"} /\ CutWait(wait[0]).cut
        /\ CutWait(wait[0]).ids = wait[0].ids /\ CutWait(wait[0]).all = wait[0].all
    BY <1>2, <1>5 DEF CutWait, Waiter
  <2>2. /\ wait' \in [Wait -> Waiter] /\ wait'[0] = CutWait(wait[0])
        /\ \A v \in Wait \ {0} : wait'[v] = wait[v]
    BY <1>2, <1>5, <2>1, ZeroWaits DEF CoordShape
  <2>3. CoordShape'
    BY <1>1, <1>2, <1>5, <2>2 DEF CoordShape
  <2>4. SlotInv'
    <3>1. Lent' = Lent
      BY <1>5, <2>1, <2>2, ZeroWaits DEF Lent
    <3> QED BY <1>2, <1>5, <3>1 DEF SlotInv, Holders, Executing, ParentAt
  <2>5. PlaceInv'
    BY <1>5, <2>1, <2>2, ZeroWaits DEF CoordInv, PlaceInv, ParentAt, Executing
  <2>6. SettleInv'
    BY <1>1, <1>2, <1>5, ProgressSettles
  <2> QED BY <2>3, <2>4, <2>5, <2>6 DEF CoordInv
<1>6. CASE /\ ~ParentAt({"graph", "unwind"}) /\ wait[0].pc \in {"off", "lock", "last"}
           /\ wait' = [wait EXCEPT ![0] = NoWait] /\ leaked' = leaked + Lost({0})
           /\ parent' = AfterCancel /\ free' = SlotsAfterCancel(free)
  <2>1. /\ parent' \in Attempt /\ SettleInv' /\ parent'.pc \in {"list", "ended"}
        /\ (Executing => parent.row = "running")'
        /\ parent.level = 0 => Own' = Own + 0 /\ free' = free
        /\ parent.level # 0 => Own' = Own + (-1) /\ free' = free + 1
    BY <1>1, <1>6, CanceledOnce DEF SlotsAfterCancel
  <2>2. /\ wait' \in [Wait -> Waiter] /\ wait'[0].pc = "off"
        /\ \A v \in Wait \ {0} : wait'[v] = wait[v]
    BY <1>2, <1>6, ZeroWaits DEF CoordShape, Waiter, NoWait
  <2>3. PICK n \in {0, 1} : leaked' = leaked + n /\ Cardinality(Lent') = Cardinality(Lent) + (-n)
    <3>1. CASE wait[0].pc = "last"
      <4>1. {w \in {0} : wait[w].pc = "last"} = {0}
        BY <3>1
      <4>2. Lost({0}) = 1
        BY <4>1, FS_Singleton DEF Lost
      <4>3. 0 \in Lent /\ 0 \notin Lent'
        BY <2>2, <3>1, ZeroWaits DEF Lent
      <4>4. Cardinality(Lent') = Cardinality(Lent) + (-1)
        BY <1>2, <2>2, <4>3, ZeroWaits, LentStep
      <4> QED BY <1>6, <4>2, <4>4
    <3>2. CASE wait[0].pc # "last"
      <4>1. {w \in {0} : wait[w].pc = "last"} = {}
        BY <3>2
      <4>2. Lost({0}) = 0
        BY <4>1, FS_EmptySet DEF Lost
      <4>3. 0 \notin Lent /\ 0 \notin Lent'
        BY <1>6, <2>2, <3>2, ZeroWaits DEF Lent
      <4>4. Cardinality(Lent') = Cardinality(Lent) + 0
        BY <1>2, <2>2, <4>3, ZeroWaits, LentStep
      <4> QED BY <1>6, <4>2, <4>4
    <3> QED BY <3>1, <3>2
  <2>4. CoordShape'
    BY <1>1, <1>2, <2>1, <2>2, <2>3 DEF CoordShape
  <2>5. SlotInv'
    <3>1. \A f, l \in Nat : /\ f + 0 + 0 = f + (-n) + ((l + n) - l)
                            /\ (f + 1) + 0 + (-1) = f + (-n) + ((l + n) - l)
      OBVIOUS
    <3>2. CASE parent.level = 0
      <4>1. free' + 0 + 0 = free + (-n) + (leaked' - leaked)
        BY <1>2, <2>1, <2>3, <3>1, <3>2
      <4> QED BY <1>2, <2>1, <2>3, <2>4, <3>2, <4>1, Balanced
    <3>3. CASE parent.level # 0
      <4>1. free' + 0 + (-1) = free + (-n) + (leaked' - leaked)
        BY <1>2, <2>1, <2>3, <3>1, <3>3
      <4> QED BY <1>2, <2>1, <2>3, <2>4, <3>3, <4>1, Balanced
    <3> QED BY <3>2, <3>3
  <2>6. PlaceInv'
    BY <1>6, <2>1, <2>2, Whereabouts, ZeroWaits DEF PlaceInv, ParentAt
  <2> QED BY <2>1, <2>4, <2>5, <2>6 DEF CoordInv
<1>7. ParentAt({"unwind"}) => parent = [parent EXCEPT !.pc = "unwind"]
  BY <1>2 DEF CoordShape, Attempt, ParentAt
<1> QED BY <1>3, <1>4, <1>5, <1>6, <1>7 DEF Cut, ParentAt

\* cancel_run and the heartbeat.
LEMMA CancelSteps ==
  ASSUME CoordInv, CancelTreeOf \/ Heartbeat
  PROVE  CoordInv'
<1>1. CASE Heartbeat
  <2>1. Cut /\ kid' = kid
    BY <1>1 DEF Heartbeat
  <2>2. kid' \in [Child -> KidStatus] /\ Progress(kid, kid') /\ KidsExecuting' = KidsExecuting
    BY <2>1 DEF CoordInv, CoordShape, Progress, KidsExecuting
  <2> QED BY <2>1, <2>2, CutStep
<1>2. CASE CancelTreeOf
  <2>1. kid' \in [Child -> KidStatus] /\ Progress(kid, kid') /\ KidsExecuting' = KidsExecuting
    BY <1>2, CancelsProgress DEF CancelTreeOf, CoordInv
  <2>2. CASE Executing
    BY <1>2, <2>1, <2>2, CutStep DEF CancelTreeOf
  <2>3. CASE ~Executing
    <3>1. /\ parent.pc \in {"queued", "paused"}
          /\ parent' = [parent EXCEPT !.pc = "ended", !.row = "canceled"]
          /\ UNCHANGED <<policy, free, wait, dictLock, cuts, leaked>>
      BY <1>2, <2>3 DEF CancelTreeOf, ParentAt
    <3>2. /\ parent' \in Attempt /\ parent'.pc = "ended" /\ parent'.row = "canceled"
          /\ parent'.out \in {"none", "waiting"}
      BY <3>1, Whereabouts DEF Attempt, ParentPc, Outcome, CoordInv, SettleInv, ParentAt
    <3>3. CoordShape'
      BY <2>1, <3>1, <3>2 DEF CoordInv, CoordShape
    <3>4. SlotInv'
      <4>1. Executing' = Executing
        BY <3>1, <3>2 DEF Executing, ParentAt
      <4> QED BY <2>1, <3>1, <4>1 DEF CoordInv, SlotInv, Holders, Lent
    <3>5. PlaceInv'
      BY <3>1, <3>2, Whereabouts, ZeroWaits DEF PlaceInv, Executing, ParentAt
    <3>6. SettleInv'
      BY <3>2 DEF SettleInv, ParentAt, Justified, RowOf
    <3> QED BY <3>3, <3>4, <3>5, <3>6 DEF CoordInv
  <2> QED BY <2>2, <2>3
<1> QED BY <1>1, <1>2

-----------------------------------------------------------------------------
LEMMA CoordStep == CoordInv /\ [CoordNext]_coordVars => CoordInv'
<1> SUFFICES ASSUME CoordInv, [CoordNext]_coordVars PROVE CoordInv'
  OBVIOUS
<1>1. CASE UNCHANGED coordVars
  <2>1. UNCHANGED <<policy, kid, parent, free, wait, dictLock, cuts, leaked>>
    BY <1>1 DEF coordVars
  <2>2. CoordShape'
    BY <2>1 DEF CoordInv, CoordShape
  <2>3. SlotInv'
    BY <2>1 DEF CoordInv, SlotInv, Holders, Lent, KidsExecuting, Executing, ParentAt
  <2>4. Progress(kid, kid')
    BY <2>1 DEF Progress
  <2> QED BY <2>1, <2>2, <2>3, <2>4, ProgressKeeps DEF CoordInv
<1>2. ASSUME NEW w \in Wait, WaitStep(w) PROVE CoordInv'
  BY <1>2, GetLockStep, LendStep, PollKidsStep, TakeBackStep DEF WaitStep
<1>3. CASE SettleStep
  BY <1>2, <1>3, GraphEndSteps, ReadingStep, AskingSteps, CommitParentStep, CancelOneStep, ZeroWaits
     DEF SettleStep
<1>4. ASSUME NEW c \in Child, Spawn(c) \/ KidStep(c) \/ DecideKid(c) \/ ToolCancel(c) PROVE CoordInv'
  BY <1>4, SpawnStep, KidSteps, ToolCancelStep
<1>5. ASSUME NEW w \in Wait \ {0},
             WaitStep(w) \/ \E ids \in SUBSET Child, all \in BOOLEAN : ToolWait(w, ids, all)
      PROVE  CoordInv'
  BY <1>2, <1>5, AskingSteps
<1>6. CASE StartParent \/ DecideParent \/ CancelTreeOf \/ Heartbeat
           \/ \E out \in {"completed", "failed", "waiting"} : StopGraph(out)
  BY <1>6, StartParentStep, DecideParentStep, CancelSteps, GraphEndSteps
<1> QED BY <1>1, <1>3, <1>4, <1>5, <1>6 DEF CoordNext

\* The inductive invariant of the coordination: slots, where the parent and its waits are, and
\* what a settlement has cancelled and may rely on (runs/collaboration.py, runs/settlement.py).
THEOREM CoordInvariant == CoordSpec => []CoordInv
BY CoordStart, CoordStep, PTL DEF CoordSpec

LEMMA CoordTypes == CoordInv => CoordTypeOK
<1> SUFFICES ASSUME CoordInv PROVE CoordTypeOK
  OBVIOUS
<1>1. Impossible(kid) \/ PolicySatisfied(kid) \/ WaitFor(kid) # {}
  BY SomebodyToWaitFor DEF CoordInv, CoordShape
<1>2. ParentAt({"wait", "waitall"}) \/ wait[0].pc = "off"
  BY Whereabouts
<1>3. \A c \in Child : kid[c] \in KidStatus
  BY DEF CoordInv, CoordShape
<1> QED BY <1>1, <1>2, <1>3 DEF CoordInv, CoordShape, SlotInv, KidStatus, CoordTypeOK

\* Slots are conserved through every wait, lend and cancel, up to those that a doubly
\* cancelled wait did not take again (collaboration.py:328-345); a settlement always has
\* somebody to wait for or something to decide (settlement.py:181-231).
THEOREM CoordTypesHold == CoordSpec => []CoordTypeOK
BY CoordInvariant, CoordTypes, PTL

\* Where a parent has the row of an end.
LEMMA EndedRows ==
  ASSUME CoordInv, parent.row \in {"completed", "failed", "canceled"}
  PROVE  Justified(parent.out) /\ RowOf(parent.out, parent.row)
<1>1. parent.pc = "ended"
  BY DEF CoordInv, CoordShape, Attempt, ParentPc, PlaceInv, Executing, ParentAt
<1> QED BY <1>1 DEF CoordInv, SettleInv, ParentAt

\* A parent that has completed has what its policy asks for (collaboration.py:99-101).
THEOREM CompletedIsByPolicy == CoordSpec => []CompletedByPolicy
<1>1. CoordInv => CompletedByPolicy
  BY EndedRows DEF CompletedByPolicy, Justified, RowOf
<1> QED BY <1>1, CoordInvariant, PTL

\* A parent that has ended after it settled its children, and whatever its ledgers then made
\* of the outcome, leaves none active, or after a completed outcome only surplus members of
\* a quorum (settlement.py:96-129, 181-231).
THEOREM NoOtherOutlives == CoordSpec => []OnlySurplusOutlives
<1>1. CoordInv => OnlySurplusOutlives
  BY EndedRows DEF OnlySurplusOutlives, Justified, Surplus
<1> QED BY <1>1, CoordInvariant, PTL

=============================================================================
