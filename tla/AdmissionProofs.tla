--------------------------- MODULE AdmissionProofs ---------------------------
(***************************************************************************)
(* Proofs about admission, for every number of workflows and projects,     *)
(* every limit, lease and lag, and any number of troubles, in both builds.  *)
(*                                                                         *)
(* The argument for the leases: whatever order the queue is in, a workflow *)
(* that waits has no lease (Whole), so that the places which lapse take no *)
(* lease with them, and a lease is only reaped by a call whose time is at  *)
(* most now.                                                               *)
(*                                                                         *)
(* The argument for the queue: whoever waits stands in the queue of its    *)
(* project, once, and a project has a turn if and only if it has a queue   *)
(* (Ordered).  Between two calls the only other thing in a queue is what   *)
(* a release build left at its head (LeftBehind), and every call that      *)
(* admits has removed that before it looks (Settled).  Each operation      *)
(* either drops elements, which brings the others nearer (Closer), or      *)
(* appends one (Extended), or takes the head away.                         *)
(***************************************************************************)
EXTENDS Admission, FiniteSetTheorems, SequenceTheorems, TLAPS

(***************************************************************************)
(* Sequences without repetition.                                           *)
(***************************************************************************)
(* How many places of K there are up to i. *)
Rank(K, i) == Cardinality({j \in K : j <= i})

(* The places of a set are numbered in their order. *)
LEMMA Ranks ==
  ASSUME NEW N \in Nat, NEW K \in SUBSET (1 .. N)
  PROVE  /\ IsFiniteSet(K) /\ Cardinality(K) \in Nat
         /\ \A i \in K : Rank(K, i) \in 1 .. Cardinality(K) /\ Rank(K, i) <= i
         /\ \A i, j \in K : Rank(K, i) = Rank(K, j) => i = j
         /\ \A n \in 1 .. Cardinality(K) : \E i \in K : Rank(K, i) = n
<1> DEFINE Upto(i) == {j \in K : j <= i}
<1>1. IsFiniteSet(K) /\ Cardinality(K) \in Nat
  <2>1. 1 \in Int /\ N \in Int
    OBVIOUS
  <2>2. IsFiniteSet(1 .. N)
    BY <2>1, FS_Interval
  <2>3. IsFiniteSet(K)
    BY <2>2, FS_Subset
  <2>4. QED
    BY <2>3, FS_CardinalityType
<1>0. \A i \in K : i \in Nat /\ i >= 1
  OBVIOUS
<1>2. ASSUME NEW i \in K
      PROVE  /\ IsFiniteSet(Upto(i)) /\ Rank(K, i) = Cardinality(Upto(i)) /\ Rank(K, i) \in Nat
             /\ Rank(K, i) <= Cardinality(K)
  <2>1. Upto(i) \in SUBSET K
    OBVIOUS
  <2>2. QED
    BY <1>1, <2>1, FS_Subset, FS_CardinalityType DEF Rank
<1>3. ASSUME NEW i \in K
      PROVE  Rank(K, i) <= i /\ Rank(K, i) # 0
  <2>1. i \in Nat /\ i >= 1 /\ 1 \in Int /\ i \in Int
    BY <1>0
  <2>2. IsFiniteSet(1 .. i) /\ Cardinality(1 .. i) = i
    BY <2>1, FS_Interval
  <2>3. Upto(i) \in SUBSET (1 .. i)
    <3>1. \A j \in K : j <= i => j \in 1 .. i
      BY <1>0, <2>1
    <3>2. QED
      BY <3>1
  <2>4. Cardinality(Upto(i)) <= Cardinality(1 .. i)
    BY <2>2, <2>3, FS_Subset
  <2>5. Cardinality(Upto(i)) # 0
    <3>1. i \in Upto(i)
      BY <2>1
    <3>2. QED
      BY <1>2, <3>1, FS_EmptySet
  <2>6. QED
    BY <1>2, <2>2, <2>4, <2>5
<1>4. ASSUME NEW i \in K, NEW j \in K, i < j
      PROVE  Rank(K, i) # Rank(K, j)
  <2>1. \A k \in K : k <= i => k <= j
    BY <1>0, <1>4
  <2>2. Upto(i) \in SUBSET Upto(j)
    BY <2>1
  <2>3. j \notin Upto(i) /\ j \in Upto(j)
    BY <1>0, <1>4
  <2>4. Cardinality(Upto(j)) = Cardinality(Upto(i)) => Upto(j) = Upto(i)
    BY <1>2, <2>2, FS_Subset
  <2>5. QED
    BY <1>2, <2>3, <2>4
<1>5. ASSUME NEW i \in K, NEW j \in K, Rank(K, i) = Rank(K, j)
      PROVE  i = j
  <2>1. i < j \/ j < i \/ i = j
    BY <1>0
  <2>2. QED
    BY <1>4, <1>5, <2>1
<1>6. ASSUME NEW i \in K
      PROVE  Rank(K, i) \in 1 .. Cardinality(K)
  <2>1. Rank(K, i) \in Nat /\ Rank(K, i) # 0 /\ Rank(K, i) <= Cardinality(K)
    BY <1>2, <1>3
  <2>2. QED
    BY <1>1, <2>1
<1>7. ASSUME NEW n \in 1 .. Cardinality(K)
      PROVE  \E i \in K : Rank(K, i) = n
  <2> DEFINE f == [i \in K |-> Rank(K, i)]
  <2>1. f \in Injection(K, 1 .. Cardinality(K))
    BY <1>5, <1>6 DEF Injection, IsInjective
  <2>2. IsFiniteSet(1 .. Cardinality(K)) /\ Cardinality(1 .. Cardinality(K)) = Cardinality(K)
    BY <1>1, FS_Interval
  <2>3. f \in Surjection(K, 1 .. Cardinality(K))
    BY <2>1, <2>2, FS_Injection
  <2>4. QED
    BY <2>3 DEF Surjection
<1>8. QED
  BY <1>1, <1>3, <1>5, <1>6, <1>7

(* Each element of t stands in seq, and not before its place in t. *)
Closer(t, seq) == \A n \in DOMAIN t : \E i \in DOMAIN seq : n <= i /\ seq[i] = t[n]

LEMMA Subsequences ==
  ASSUME NEW T, NEW seq \in Seq(T), NEW K \in SUBSET DOMAIN seq
  PROVE  /\ Subsequence(seq, K) \in Seq(T)
         /\ \A n \in DOMAIN Subsequence(seq, K) :
              \E i \in K : n = Rank(K, i) /\ n <= i /\ Subsequence(seq, K)[n] = seq[i]
         /\ \A i \in K : \E n \in DOMAIN Subsequence(seq, K) : Subsequence(seq, K)[n] = seq[i]
<1> DEFINE size == Cardinality(K)
<1> DEFINE at(n) == CHOOSE i \in K : Cardinality({j \in K : j <= i}) = n
<1>1. DOMAIN seq = 1 .. Len(seq) /\ Len(seq) \in Nat /\ \A i \in DOMAIN seq : seq[i] \in T
  BY LenProperties, ElementOfSeq
<1>2. K \in SUBSET (1 .. Len(seq))
  BY <1>1
<1>3. /\ size \in Nat
      /\ \A i \in K : Rank(K, i) \in 1 .. size /\ Rank(K, i) <= i
      /\ \A i, j \in K : Rank(K, i) = Rank(K, j) => i = j
      /\ \A n \in 1 .. size : \E i \in K : Rank(K, i) = n
  <2>1. \A i \in K : Rank(K, i) \in 1 .. Cardinality(K) /\ Rank(K, i) <= i
    BY <1>1, <1>2, Ranks
  <2>2. \A i, j \in K : Rank(K, i) = Rank(K, j) => i = j
    BY <1>1, <1>2, Ranks
  <2>3. \A n \in 1 .. Cardinality(K) : \E i \in K : Rank(K, i) = n
    BY <1>1, <1>2, Ranks
  <2>4. QED
    BY <1>1, <1>2, <2>1, <2>2, <2>3, Ranks
<1>4. ASSUME NEW n \in 1 .. size
      PROVE  at(n) \in K /\ Rank(K, at(n)) = n
  BY <1>3 DEF Rank
<1>5. Subsequence(seq, K) = [n \in 1 .. size |-> seq[at(n)]]
  BY DEF Subsequence
<1> HIDE DEF at, size
<1>6. Subsequence(seq, K) \in Seq(T)
  <2>1. \A n \in 1 .. size : seq[at(n)] \in T
    BY <1>1, <1>4
  <2>2. QED
    BY <1>3, <1>5, <2>1, IsASeq
<1>7. ASSUME NEW n \in DOMAIN Subsequence(seq, K)
      PROVE  \E i \in K : n = Rank(K, i) /\ n <= i /\ Subsequence(seq, K)[n] = seq[i]
  BY <1>3, <1>4, <1>5
<1>8. ASSUME NEW i \in K
      PROVE  \E n \in DOMAIN Subsequence(seq, K) : Subsequence(seq, K)[n] = seq[i]
  <2>1. Rank(K, i) \in 1 .. size /\ at(Rank(K, i)) = i
    BY <1>3, <1>4
  <2>2. QED
    BY <1>5, <2>1
<1>9. QED
  BY <1>6, <1>7, <1>8

LEMMA Retaining ==
  ASSUME NEW T, NEW seq \in Seq(T), NEW S, IsInjective(seq)
  PROVE  /\ Retain(seq, S) \in Seq(T) /\ IsInjective(Retain(seq, S))
         /\ Range(Retain(seq, S)) = Range(seq) \cap S
         /\ Closer(Retain(seq, S), seq)
         /\ Subsequence(seq, FirstOccurrences(seq, S)) = Retain(seq, S)
<1> DEFINE K == {i \in DOMAIN seq : seq[i] \in S}
<1> DEFINE t == Retain(seq, S)
<1>1. t = Subsequence(seq, K) /\ K \in SUBSET DOMAIN seq
  BY DEF Retain
<1> HIDE DEF K, t
<1>2. /\ t \in Seq(T)
      /\ \A n \in DOMAIN t : \E i \in K : n = Rank(K, i) /\ n <= i /\ t[n] = seq[i]
      /\ \A i \in K : \E n \in DOMAIN t : t[n] = seq[i]
  BY <1>1, Subsequences
<1> USE DEF K
<1>3. FirstOccurrences(seq, S) = K
  <2>1. DOMAIN seq = 1 .. Len(seq) /\ Len(seq) \in Nat
    BY LenProperties
  <2>2. \A i \in DOMAIN seq : \A j \in 1 .. i - 1 : j \in DOMAIN seq /\ j # i
    BY <2>1
  <2>3. QED
    BY <2>2 DEF FirstOccurrences, IsInjective
<1>4. IsInjective(t)
  <2> SUFFICES ASSUME NEW m \in DOMAIN t, NEW n \in DOMAIN t, t[m] = t[n]
               PROVE  m = n
    BY DEF IsInjective
  <2>1. PICK i \in K : m = Rank(K, i) /\ t[m] = seq[i]
    BY <1>2
  <2>2. PICK j \in K : n = Rank(K, j) /\ t[n] = seq[j]
    BY <1>2
  <2>3. i = j
    BY <2>1, <2>2 DEF IsInjective
  <2>4. QED
    BY <2>1, <2>2, <2>3
<1>5. Range(t) = Range(seq) \cap S
  <2>1. ASSUME NEW n \in DOMAIN t
        PROVE  t[n] \in Range(seq) \cap S
    BY <1>2 DEF Range
  <2>2. ASSUME NEW i \in DOMAIN seq, seq[i] \in S
        PROVE  seq[i] \in Range(t)
    <3>1. PICK n \in DOMAIN t : t[n] = seq[i]
      BY <1>2, <2>2
    <3>2. QED
      BY <3>1 DEF Range
  <2>3. QED
    BY <2>1, <2>2 DEF Range
<1>6. Closer(t, seq)
  BY <1>2 DEF Closer
<1>7. QED
  BY <1>1, <1>2, <1>3, <1>4, <1>5, <1>6 DEF t

LEMMA CloserIsTransitive ==
  ASSUME NEW S, NEW T, NEW U, NEW r \in Seq(S), NEW s \in Seq(T), NEW t \in Seq(U),
         Closer(t, s), Closer(s, r)
  PROVE  Closer(t, r)
<1>1. \A i \in DOMAIN r \cup DOMAIN s \cup DOMAIN t : i \in Int
  BY LenProperties
<1>2. QED
  BY <1>1 DEF Closer

LEMMA CloserToItself ==
  ASSUME NEW T, NEW seq \in Seq(T)
  PROVE  Closer(seq, seq)
<1>1. \A i \in DOMAIN seq : i \in Int
  BY LenProperties
<1>2. QED
  BY <1>1 DEF Closer

LEMMA EmptyRange ==
  ASSUME NEW T, NEW seq \in Seq(T)
  PROVE  seq = << >> <=> Range(seq) = {}
<1>1. Len(seq) \in Nat /\ DOMAIN seq = 1 .. Len(seq)
  BY LenProperties
<1>2. seq # << >> => Len(seq) # 0
  BY EmptySeq
<1>3. seq # << >> => 1 \in DOMAIN seq
  BY <1>1, <1>2
<1>4. QED
  BY <1>3 DEF Range

LEMMA NothingToAppend == SetToSeq({}) = << >>
<1>1. Cardinality({}) = 0 /\ 1 .. 0 = {}
  BY FS_EmptySet
<1>2. << >> \in [1 .. 0 -> {}] /\ IsInjective(<< >>)
  BY <1>1 DEF IsInjective
<1>3. SetToSeq({}) \in [1 .. 0 -> {}]
  BY <1>1, <1>2 DEF SetToSeq
<1>4. SetToSeq({}) \in Seq({}) /\ DOMAIN SetToSeq({}) = {}
  BY <1>1, <1>3, IsASeq
<1>5. Range(SetToSeq({})) = {}
  BY <1>4 DEF Range
<1>6. QED
  BY <1>4, <1>5, EmptyRange


(* Every element of seq keeps its place in t. *)
Extended(t, seq) == \A i \in DOMAIN seq : i \in DOMAIN t /\ t[i] = seq[i]

LEMMA Appending ==
  ASSUME NEW T, NEW seq \in Seq(T), NEW x \in T
  PROVE  /\ Append(seq, x) \in Seq(T) /\ Extended(Append(seq, x), seq)
         /\ Range(Append(seq, x)) = Range(seq) \cup {x}
         /\ IsInjective(seq) /\ x \notin Range(seq) => IsInjective(Append(seq, x))
         /\ Append(seq, x) # << >>
<1> DEFINE t == Append(seq, x)
<1>1. /\ t \in Seq(T) /\ Len(seq) \in Nat /\ DOMAIN seq = 1 .. Len(seq)
      /\ DOMAIN t = 1 .. Len(seq) + 1
      /\ \A i \in 1 .. Len(seq) : t[i] = seq[i]
      /\ t[Len(seq) + 1] = x
  BY AppendProperties, LenProperties
<1> HIDE DEF t
<1>2. /\ DOMAIN t = DOMAIN seq \cup {Len(seq) + 1}
      /\ \A i \in DOMAIN seq : t[i] = seq[i]
  BY <1>1
<1>3. Range(t) = Range(seq) \cup {x}
  BY <1>1, <1>2 DEF Range
<1>4. IsInjective(seq) /\ x \notin Range(seq) => IsInjective(t)
  BY <1>1, <1>2 DEF IsInjective, Range
<1>5. QED
  BY <1>1, <1>2, <1>3, <1>4, EmptyRange DEF Extended, t

(* The first of a sequence leaves it. *)
LEMMA Leaving ==
  ASSUME NEW T, NEW seq \in Seq(T), seq # << >>, IsInjective(seq)
  PROVE  /\ Head(seq) = seq[1] /\ 1 \in DOMAIN seq /\ Head(seq) \in Range(seq)
         /\ Tail(seq) \in Seq(T) /\ IsInjective(Tail(seq))
         /\ Range(Tail(seq)) = Range(seq) \ {Head(seq)}
         /\ Closer(Tail(seq), seq)
<1> DEFINE t == Tail(seq)
<1>1. /\ Len(seq) \in Nat /\ Len(seq) # 0 /\ DOMAIN seq = 1 .. Len(seq)
      /\ t \in Seq(T) /\ Len(t) = Len(seq) - 1 /\ DOMAIN t = 1 .. Len(t)
      /\ \A i \in 1 .. Len(t) : t[i] = seq[i + 1]
      /\ Head(seq) = seq[1]
  BY HeadTailProperties, LenProperties, EmptySeq
<1> HIDE DEF t
<1>2. 1 \in DOMAIN seq
  BY <1>1
<1>3. \A i \in DOMAIN t : i + 1 \in DOMAIN seq /\ i + 1 # 1 /\ i <= i + 1 /\ t[i] = seq[i + 1]
  BY <1>1
<1>4. \A i \in DOMAIN seq \ {1} : i - 1 \in DOMAIN t /\ t[i - 1] = seq[i]
  BY <1>1
<1>5. Closer(t, seq)
  BY <1>3 DEF Closer
<1>6. IsInjective(t)
  <2> SUFFICES ASSUME NEW i \in DOMAIN t, NEW j \in DOMAIN t, t[i] = t[j]
               PROVE  i = j
    BY DEF IsInjective
  <2>1. i + 1 = j + 1
    BY <1>3 DEF IsInjective
  <2>2. QED
    BY <1>1, <2>1
<1>7. ASSUME NEW i \in DOMAIN t
      PROVE  t[i] \in Range(seq) \ {seq[1]}
  BY <1>2, <1>3 DEF IsInjective, Range
<1>8. ASSUME NEW i \in DOMAIN seq, seq[i] # seq[1]
      PROVE  seq[i] \in Range(t)
  <2>1. i - 1 \in DOMAIN t /\ t[i - 1] = seq[i]
    BY <1>4, <1>8
  <2>2. QED
    BY <2>1 DEF Range
<1>9. Range(t) = Range(seq) \ {seq[1]}
  BY <1>7, <1>8 DEF Range
<1>10. QED
  BY <1>1, <1>2, <1>5, <1>6, <1>9 DEF t, Range

(* Where an element stands. *)
At(seq, x) == CHOOSE i \in DOMAIN seq : seq[i] = x

LEMMA Standing ==
  ASSUME NEW T, NEW seq \in Seq(T), IsInjective(seq), NEW i \in DOMAIN seq
  PROVE  At(seq, seq[i]) = i /\ i \in Nat
<1>1. i \in Nat
  BY LenProperties
<1>2. QED
  BY <1>1 DEF At, IsInjective

LEMMA Nearer ==
  ASSUME NEW S, NEW T, NEW r \in Seq(S), NEW seq \in Seq(T), IsInjective(r), IsInjective(seq),
         NEW x \in Range(r),
         \A n \in DOMAIN r : r[n] = x => \E i \in DOMAIN seq : n <= i /\ seq[i] = x
  PROVE  At(r, x) <= At(seq, x) /\ At(r, x) \in Nat /\ At(seq, x) \in Nat
<1>1. PICK n \in DOMAIN r : r[n] = x
  BY DEF Range
<1>2. PICK i \in DOMAIN seq : n <= i /\ seq[i] = x
  BY <1>1
<1>3. At(r, x) = n /\ n \in Nat /\ At(seq, x) = i /\ i \in Nat
  BY <1>1, <1>2, Standing
<1>4. QED
  BY <1>2, <1>3

LEMMA SamePlace ==
  ASSUME NEW S, NEW T, NEW r \in Seq(S), NEW seq \in Seq(T), IsInjective(r), IsInjective(seq),
         NEW x \in Range(seq), Extended(r, seq)
  PROVE  At(r, x) = At(seq, x) /\ At(seq, x) \in Nat
<1>1. PICK i \in DOMAIN seq : seq[i] = x
  BY DEF Range
<1>2. i \in DOMAIN r /\ r[i] = x
  BY <1>1 DEF Extended
<1>3. QED
  BY <1>1, <1>2, Standing

(***************************************************************************)
(* Leases and places.                                                      *)
(***************************************************************************)
(* A content of the queue: four of its five fields are related; of the     *)
(* order of the queues and of the rotation nothing is said.                *)
Whole(s) ==
  /\ DOMAIN s = {"active", "waiting", "owner", "queue", "rotation"}
  /\ s.active \in [Active(s) -> Ticks] /\ s.waiting \in [Waiting(s) -> Ticks]
  /\ Active(s) \subseteq Workflows
  /\ Waiting(s) = s.owner /\ Waiting(s) \cap Active(s) = {}

WithinLimit(s) == IsFiniteSet(Active(s)) /\ Cardinality(Active(s)) <= Maximum

LEMMA Fewer ==
  ASSUME NEW s, NEW t, WithinLimit(s), Active(t) \subseteq Active(s)
  PROVE  WithinLimit(t)
<1>1. IsFiniteSet(Active(t)) /\ Cardinality(Active(t)) <= Cardinality(Active(s))
  BY FS_Subset DEF WithinLimit
<1>2. Cardinality(Active(t)) \in Nat /\ Cardinality(Active(s)) \in Nat
  BY <1>1, FS_CardinalityType DEF WithinLimit
<1>3. QED
  BY <1>1, <1>2, LimitsAssumption DEF WithinLimit

LEMMA Restricting ==
  ASSUME NEW S, NEW T, NEW f \in [S -> T], NEW R \in SUBSET S
  PROVE  /\ Restrict(f, R) \in [R -> T] /\ DOMAIN Restrict(f, R) = R
         /\ \A x \in R : Restrict(f, R)[x] = f[x]
BY DEF Restrict

LEMMA Removing ==
  ASSUME NEW s, NEW W, Whole(s)
  PROVE  /\ Whole(RemoveWorkflows(s, W))
         /\ Active(RemoveWorkflows(s, W)) = Active(s) \ W
         /\ \A w \in Active(s) \ W : RemoveWorkflows(s, W).active[w] = s.active[w]
<1> DEFINE t == RemoveWorkflows(s, W)
<1>1. /\ DOMAIN t = DOMAIN s /\ t.owner = s.owner \ (W \cap s.owner)
      /\ t.active = Restrict(s.active, Active(s) \ W)
      /\ t.waiting = Restrict(s.waiting, Waiting(s) \ (W \cap s.owner))
  BY DEF RemoveWorkflows, Whole, Active, Waiting, Without
<1> HIDE DEF t
<1>2. /\ t.active \in [Active(s) \ W -> Ticks] /\ Active(t) = Active(s) \ W
      /\ \A w \in Active(s) \ W : t.active[w] = s.active[w]
  <2>1. s.active \in [Active(s) -> Ticks] /\ (Active(s) \ W) \in SUBSET Active(s)
    BY DEF Whole
  <2>2. QED
    BY <1>1, <2>1, Restricting DEF Active
<1>3. /\ t.waiting \in [Waiting(s) \ (W \cap s.owner) -> Ticks]
      /\ Waiting(t) = Waiting(s) \ (W \cap s.owner)
  BY <1>1, Restricting DEF Whole, Waiting
<1>4. Whole(t)
  BY <1>1, <1>2, <1>3 DEF Whole
<1>5. QED
  BY <1>2, <1>4 DEF t

LEMMA Repairing ==
  ASSUME NEW s, Whole(s)
  PROVE  Whole(Repair(s)) /\ Repair(s).active = s.active
<1> DEFINE t == Repair(s)
<1>1. /\ DOMAIN t = DOMAIN s /\ t.active = s.active
      /\ \E R : t.waiting = Restrict(s.waiting, Waiting(s) \cap R) /\ t.owner = s.owner \cap R
  BY DEF Repair, Whole, Waiting
<1> HIDE DEF t
<1>2. PICK R : t.waiting = Restrict(s.waiting, Waiting(s) \cap R) /\ t.owner = s.owner \cap R
  BY <1>1
<1>3. t.waiting \in [Waiting(s) \cap R -> Ticks] /\ Waiting(t) = Waiting(s) \cap R
  <2>1. /\ s.waiting \in [Waiting(s) -> Ticks]
        /\ (Waiting(s) \cap R) \in SUBSET Waiting(s)
    BY DEF Whole
  <2>2. QED
    BY <1>2, <2>1, Restricting DEF Waiting
<1>4. Whole(t)
  BY <1>1, <1>2, <1>3 DEF Whole, Active
<1>5. QED
  BY <1>1, <1>4 DEF t

LEMMA Reaping ==
  ASSUME NEW s, NEW now \in Int, Whole(s)
  PROVE  /\ Whole(Reap(s, now))
         /\ Active(Reap(s, now)) = {w \in Active(s) : s.active[w] > now}
         /\ \A w \in Active(Reap(s, now)) : Reap(s, now).active[w] = s.active[w]
<1> DEFINE leased == [s EXCEPT !.active = Restrict(@, {w \in DOMAIN @ : @[w] > now})]
<1> DEFINE abandoned == {w \in Waiting(s) : s.waiting[w] <= now}
<1> DEFINE kept == {w \in Active(s) : s.active[w] > now}
<1>1. /\ DOMAIN leased = DOMAIN s /\ leased.waiting = s.waiting /\ leased.owner = s.owner
      /\ leased.active = Restrict(s.active, kept)
  BY DEF Whole, Active
<1>2. Reap(s, now) = Repair(RemoveWorkflows(leased, abandoned)) /\ abandoned \cap Active(s) = {}
  BY DEF Reap, Whole
<1>3. kept \in SUBSET Active(s)
  OBVIOUS
<1> HIDE DEF leased, abandoned, kept
<1>4. /\ leased.active \in [kept -> Ticks] /\ Active(leased) = kept
      /\ \A w \in kept : leased.active[w] = s.active[w]
  BY <1>1, <1>3, Restricting DEF Whole, Active
<1>5. Whole(leased)
  BY <1>1, <1>3, <1>4 DEF Whole, Waiting
<1>6. Whole(RemoveWorkflows(leased, abandoned))
  BY <1>5, Removing
<1>7. /\ Whole(Reap(s, now))
      /\ Reap(s, now).active = RemoveWorkflows(leased, abandoned).active
  BY <1>2, <1>6, Repairing
<1>8. Active(RemoveWorkflows(leased, abandoned)) = kept
  BY <1>2, <1>3, <1>4, <1>5, Removing
<1>9. \A w \in kept : RemoveWorkflows(leased, abandoned).active[w] = s.active[w]
  BY <1>2, <1>3, <1>4, <1>5, Removing
<1>10. QED
  BY <1>7, <1>8, <1>9 DEF Active, kept

Times == -MaxLag .. 0

LEMMA Enqueuing ==
  ASSUME NEW s, NEW w \in Workflows, NEW now \in Times, Whole(s), w \notin Active(s)
  PROVE  /\ Whole(Enqueue(s, w, now)) /\ Enqueue(s, w, now).active = s.active
         /\ w \in Waiting(Enqueue(s, w, now))
<1>1. now + LeaseTicks \in Ticks
  BY LimitsAssumption DEF Ticks, Times
<1>2. CASE w \in Waiting(s)
  BY <1>1, <1>2 DEF Enqueue, Whole, Active, Waiting
<1>3. CASE w \notin Waiting(s)
  BY <1>1, <1>3 DEF Enqueue, Whole, Active, Waiting, Set
<1>4. QED
  BY <1>2, <1>3

LEMMA Admitting ==
  ASSUME NEW s, NEW w \in Workflows, NEW lease \in Ticks, Whole(s)
  PROVE  LET done == Dequeue(s, w)
             admitted == [done EXCEPT !.active = Set(@, w, lease)]
         IN /\ Whole(admitted) /\ Active(admitted) = Active(s) \cup {w}
            /\ admitted.queue = done.queue /\ admitted.rotation = done.rotation
            /\ admitted.owner = done.owner
<1> DEFINE done == Dequeue(s, w)
<1> DEFINE admitted == [done EXCEPT !.active = Set(@, w, lease)]
<1>1. /\ DOMAIN done = DOMAIN s /\ done.active = s.active
      /\ done.waiting = Restrict(s.waiting, Waiting(s) \ {w}) /\ done.owner = s.owner \ {w}
  BY DEF Dequeue, Whole, Without, Waiting
<1> HIDE DEF done
<1>2. /\ DOMAIN admitted = DOMAIN s /\ admitted.waiting = done.waiting
      /\ admitted.owner = done.owner
      /\ admitted.queue = done.queue /\ admitted.rotation = done.rotation
      /\ admitted.active = [v \in Active(s) \cup {w} |-> IF v = w THEN lease ELSE s.active[v]]
  BY <1>1 DEF Whole, Set, Active
<1> HIDE DEF admitted
<1>3. done.waiting \in [Waiting(s) \ {w} -> Ticks] /\ Waiting(done) = Waiting(s) \ {w}
  BY <1>1, Restricting DEF Whole, Waiting
<1>4. admitted.active \in [Active(s) \cup {w} -> Ticks] /\ Active(admitted) = Active(s) \cup {w}
  BY <1>2 DEF Whole, Active
<1>5. Whole(admitted)
  BY <1>1, <1>2, <1>3, <1>4 DEF Whole, Waiting
<1>6. QED
  BY <1>2, <1>4, <1>5 DEF done, admitted

(***************************************************************************)
(* The order of the queue: every queue holds workflows of its project,     *)
(* each once and all that wait, and every project with a queue has one     *)
(* turn.                                                                   *)
(***************************************************************************)
Ordered(s) ==
  /\ s.queue \in [Projects -> Seq(Workflows)] /\ s.rotation \in Seq(Projects)
  /\ s.owner \subseteq Workflows
  /\ \A p \in Projects : /\ IsInjective(s.queue[p])
                         /\ \A w \in Range(s.queue[p]) : ProjectOf[w] = p
  /\ \A w \in s.owner : w \in Range(s.queue[ProjectOf[w]])
  /\ IsInjective(s.rotation)
  /\ Range(s.rotation) = {p \in Projects : s.queue[p] # << >>}

(* Nobody but who waits is in a queue. *)
Settled(s) == \A p \in Projects : Range(s.queue[p]) \subseteq s.owner

Advanced(t, s) ==
  Closer(t.rotation, s.rotation) /\ \A p \in Projects : Closer(t.queue[p], s.queue[p])

LEMMA RemovingInOrder ==
  ASSUME NEW s, NEW W, Whole(s), Ordered(s)
  PROVE  LET t == RemoveWorkflows(s, W)
         IN /\ Ordered(t) /\ Advanced(t, s) /\ t.owner = s.owner \ W
            /\ \A p \in Projects :
                 Range(t.queue[p]) = Range(s.queue[p]) \cap (Workflows \ (W \cap s.owner))
<1> DEFINE t == RemoveWorkflows(s, W)
<1> DEFINE queued == W \cap s.owner
<1> DEFINE emptied == {ProjectOf[w] : w \in queued} \cap {p \in Projects : t.queue[p] = << >>}
<1>1. /\ t.owner = s.owner \ queued
      /\ t.queue = [p \in Projects |-> Retain(s.queue[p], Workflows \ queued)]
      /\ t.rotation = Retain(s.rotation, Projects \ emptied)
  BY DEF RemoveWorkflows
<1> HIDE DEF t
<1>2. ASSUME NEW p \in Projects
      PROVE  /\ t.queue[p] \in Seq(Workflows) /\ IsInjective(t.queue[p])
             /\ Range(t.queue[p]) = Range(s.queue[p]) \cap (Workflows \ queued)
             /\ Closer(t.queue[p], s.queue[p])
             /\ s.queue[p] \in Seq(Workflows)
             /\ \A w \in Range(s.queue[p]) : ProjectOf[w] = p /\ w \in Workflows
  <2>1. s.queue[p] \in Seq(Workflows) /\ IsInjective(s.queue[p])
    BY DEF Ordered
  <2>2. t.queue[p] = Retain(s.queue[p], Workflows \ queued)
    BY <1>1
  <2>3. \A w \in Range(s.queue[p]) : w \in Workflows
    BY <2>1, ElementOfSeq, LenProperties DEF Range
  <2>4. QED
    BY <2>1, <2>2, <2>3, Retaining DEF Ordered
<1>3. /\ t.rotation \in Seq(Projects) /\ IsInjective(t.rotation)
      /\ Range(t.rotation) = Range(s.rotation) \cap (Projects \ emptied)
      /\ Closer(t.rotation, s.rotation)
  <2>1. s.rotation \in Seq(Projects) /\ IsInjective(s.rotation)
    BY DEF Ordered
  <2> HIDE DEF emptied
  <2>2. QED
    BY <1>1, <2>1, Retaining
<1>4. ASSUME NEW w \in t.owner
      PROVE  w \in Range(t.queue[ProjectOf[w]])
  <2>1. w \in s.owner /\ w \notin queued /\ w \in Workflows /\ ProjectOf[w] \in Projects
    BY <1>1, ProjectAssumption DEF Ordered
  <2>2. QED
    BY <1>2, <2>1 DEF Ordered
<1>5. ASSUME NEW p \in Projects
      PROVE  p \in Range(t.rotation) <=> t.queue[p] # << >>
  <2>1. p \in Range(t.rotation) <=> s.queue[p] # << >> /\ p \notin emptied
    BY <1>3 DEF Ordered
  <2>2. /\ t.queue[p] # << >> <=> Range(t.queue[p]) # {}
        /\ s.queue[p] # << >> <=> Range(s.queue[p]) # {}
    BY <1>2, EmptyRange
  <2>3. ASSUME s.queue[p] # << >>, t.queue[p] = << >>
        PROVE  p \in emptied
    <3>1. PICK w \in Range(s.queue[p]) : w \notin Range(t.queue[p])
      BY <2>2, <2>3
    <3>2. w \in queued /\ ProjectOf[w] = p
      BY <1>2, <3>1
    <3>3. QED
      BY <2>3, <3>2
  <2>4. t.queue[p] # << >> => p \notin emptied
    OBVIOUS
  <2>5. QED
    BY <1>2, <2>1, <2>2, <2>3, <2>4
<1>6. Range(t.rotation) = {p \in Projects : t.queue[p] # << >>}
  BY <1>3, <1>5
<1>7. Ordered(t)
  <2>1. t.queue \in [Projects -> Seq(Workflows)]
    BY <1>1, <1>2
  <2>2. t.owner \subseteq Workflows
    BY <1>1 DEF Ordered
  <2>3. \A p \in Projects : \A w \in Range(t.queue[p]) : ProjectOf[w] = p
    BY <1>2
  <2>4. QED
    BY <1>2, <1>3, <1>4, <1>6, <2>1, <2>2, <2>3 DEF Ordered
<1>8. Advanced(t, s)
  BY <1>2, <1>3 DEF Advanced
<1>9. QED
  BY <1>1, <1>2, <1>7, <1>8 DEF t

LEMMA RepairingInOrder ==
  ASSUME NEW s, Whole(s), Ordered(s)
  PROVE  LET t == Repair(s)
         IN Ordered(t) /\ Advanced(t, s) /\ t.owner = s.owner /\ Settled(t)
<1> DEFINE t == Repair(s)
<1> DEFINE queue == [p \in Projects |-> Retain(s.queue[p], Waiting(s) \cap s.owner)]
<1> DEFINE known == {p \in Projects : queue[p] # << >>}
<1> DEFINE queued == UNION {Range(queue[p]) : p \in Projects}
<1>1. /\ t.owner = s.owner \cap queued /\ t.queue = queue
      /\ t.rotation = Subsequence(s.rotation, FirstOccurrences(s.rotation, known))
                        \o SetToSeq(known \ Range(s.rotation))
  BY DEF Repair, Whole
<1> HIDE DEF t
<1>2. ASSUME NEW p \in Projects
      PROVE  /\ queue[p] \in Seq(Workflows) /\ IsInjective(queue[p])
             /\ Range(queue[p]) = Range(s.queue[p]) \cap s.owner
             /\ Closer(queue[p], s.queue[p])
             /\ s.queue[p] \in Seq(Workflows)
             /\ \A w \in Range(s.queue[p]) : ProjectOf[w] = p
  <2>1. s.queue[p] \in Seq(Workflows) /\ IsInjective(s.queue[p])
    BY DEF Ordered
  <2>2. queue[p] = Retain(s.queue[p], s.owner)
    BY DEF Whole
  <2> HIDE DEF queue
  <2>3. QED
    BY <2>1, <2>2, Retaining DEF Ordered
<1> HIDE DEF queue
<1>3. ASSUME NEW w \in s.owner
      PROVE  w \in Range(queue[ProjectOf[w]]) /\ ProjectOf[w] \in Projects
  <2>1. w \in Workflows /\ ProjectOf[w] \in Projects
    BY ProjectAssumption DEF Ordered
  <2>2. QED
    BY <1>2, <2>1 DEF Ordered
<1>4. t.owner = s.owner
  BY <1>1, <1>3
<1>5. known \ Range(s.rotation) = {}
  <2>1. ASSUME NEW p \in Projects, queue[p] # << >>
        PROVE  s.queue[p] # << >>
    <3>1. Range(queue[p]) # {}
      BY <1>2, <2>1, EmptyRange
    <3>2. Range(s.queue[p]) # {}
      BY <1>2, <3>1
    <3>3. QED
      BY <1>2, <3>2, EmptyRange
  <2>2. QED
    BY <2>1 DEF Ordered
<1>6. /\ t.rotation = Retain(s.rotation, known)
      /\ t.rotation \in Seq(Projects) /\ IsInjective(t.rotation)
      /\ Range(t.rotation) = Range(s.rotation) \cap known
      /\ Closer(t.rotation, s.rotation)
  <2>1. s.rotation \in Seq(Projects) /\ IsInjective(s.rotation)
    BY DEF Ordered
  <2> HIDE DEF known
  <2>2. t.rotation = Retain(s.rotation, known) \o << >>
    BY <1>1, <1>5, <2>1, Retaining, NothingToAppend
  <2>3. Retain(s.rotation, known) \in Seq(Projects)
    BY <2>1, Retaining
  <2>4. t.rotation = Retain(s.rotation, known)
    BY <2>2, <2>3, ConcatEmptySeq
  <2>5. QED
    BY <2>1, <2>4, Retaining
<1>7. Range(t.rotation) = {p \in Projects : t.queue[p] # << >>}
  BY <1>1, <1>5, <1>6
<1>8. Ordered(t)
  <2>1. t.queue \in [Projects -> Seq(Workflows)]
    BY <1>1, <1>2 DEF queue
  <2>2. \A p \in Projects : IsInjective(t.queue[p]) /\ \A w \in Range(t.queue[p]) : ProjectOf[w] = p
    BY <1>1, <1>2
  <2>3. \A w \in t.owner : w \in Range(t.queue[ProjectOf[w]])
    BY <1>1, <1>3, <1>4
  <2>4. t.owner \subseteq Workflows
    BY <1>4 DEF Ordered
  <2>5. QED
    BY <1>6, <1>7, <2>1, <2>2, <2>3, <2>4 DEF Ordered
<1>9. Advanced(t, s) /\ Settled(t)
  BY <1>1, <1>2, <1>4, <1>6 DEF Advanced, Settled
<1>10. QED
  BY <1>4, <1>8, <1>9 DEF t

LEMMA EnqueuingInOrder ==
  ASSUME NEW s, NEW w \in Workflows, NEW now \in Int, Whole(s), Ordered(s), Settled(s)
  PROVE  LET t == Enqueue(s, w, now)
         IN /\ Ordered(t) /\ Settled(t) /\ t.owner = s.owner \cup {w}
            /\ Extended(t.rotation, s.rotation)
            /\ \A p \in Projects : Extended(t.queue[p], s.queue[p])
<1> DEFINE t == Enqueue(s, w, now)
<1> DEFINE p == ProjectOf[w]
<1>1. CASE w \in Waiting(s)
  <2>1. t.queue = s.queue /\ t.rotation = s.rotation /\ t.owner = s.owner
    BY <1>1 DEF Enqueue, Whole
  <2>2. t.owner = s.owner \cup {w}
    BY <1>1, <2>1 DEF Whole
  <2>3. QED
    BY <2>1, <2>2 DEF Ordered, Settled, Extended
<1>2. CASE w \notin Waiting(s)
  <2>1. /\ t.queue = [s.queue EXCEPT ![p] = Append(@, w)] /\ t.owner = s.owner \cup {w}
        /\ t.rotation = IF s.queue[p] = << >> THEN Append(s.rotation, p) ELSE s.rotation
    BY <1>2 DEF Enqueue, Whole
  <2> HIDE DEF t
  <2>2. /\ p \in Projects /\ s.queue[p] \in Seq(Workflows) /\ IsInjective(s.queue[p])
        /\ s.rotation \in Seq(Projects) /\ IsInjective(s.rotation)
        /\ w \notin Range(s.queue[p])
    BY <1>2, ProjectAssumption DEF Ordered, Settled, Whole
  <2>3. /\ t.queue[p] = Append(s.queue[p], w)
        /\ \A q \in Projects \ {p} : t.queue[q] = s.queue[q]
    BY <2>1, <2>2 DEF Ordered
  <2> HIDE DEF p
  <2>4. /\ t.queue[p] \in Seq(Workflows) /\ IsInjective(t.queue[p]) /\ t.queue[p] # << >>
        /\ Range(t.queue[p]) = Range(s.queue[p]) \cup {w}
        /\ Extended(t.queue[p], s.queue[p])
    BY <2>2, <2>3, Appending
  <2>5. /\ t.rotation \in Seq(Projects) /\ IsInjective(t.rotation)
        /\ Range(t.rotation) = Range(s.rotation) \cup {p}
        /\ Extended(t.rotation, s.rotation)
    <3>1. p \in Range(s.rotation) <=> s.queue[p] # << >>
      BY <2>2 DEF Ordered
    <3>2. CASE s.queue[p] = << >>
      BY <2>1, <2>2, <3>1, <3>2, Appending
    <3>3. CASE s.queue[p] # << >>
      BY <2>1, <2>2, <3>1, <3>3 DEF Extended
    <3>4. QED
      BY <3>2, <3>3
  <2>6. \A q \in Projects : q \in Range(t.rotation) <=> t.queue[q] # << >>
    BY <2>3, <2>4, <2>5 DEF Ordered
  <2>7. Range(t.rotation) = {q \in Projects : t.queue[q] # << >>}
    BY <2>2, <2>5, <2>6 DEF Ordered
  <2>8. \A v \in t.owner : v \in Range(t.queue[ProjectOf[v]])
    <3>1. CASE \A v \in s.owner : v \in Workflows /\ ProjectOf[v] \in Projects
      BY <2>1, <2>3, <2>4, <3>1 DEF Ordered, p
    <3>2. QED
      BY <3>1, ProjectAssumption DEF Ordered
  <2>9. \A q \in Projects : /\ IsInjective(t.queue[q])
                            /\ \A v \in Range(t.queue[q]) : ProjectOf[v] = q
    BY <2>2, <2>3, <2>4 DEF Ordered, p
  <2>10. t.queue \in [Projects -> Seq(Workflows)]
    BY <2>1, <2>2, <2>3, <2>4 DEF Ordered
  <2>11. Ordered(t)
    <3>1. t.owner \subseteq Workflows
      BY <2>1 DEF Ordered
    <3>2. QED
      BY <2>5, <2>7, <2>8, <2>9, <2>10, <3>1 DEF Ordered
  <2>12. Settled(t)
    BY <2>1, <2>3, <2>4 DEF Settled
  <2>13. \A q \in Projects : Extended(t.queue[q], s.queue[q])
    BY <2>3, <2>4 DEF Extended
  <2>14. QED
    BY <2>1, <2>5, <2>11, <2>12, <2>13 DEF t
<1>3. QED
  BY <1>1, <1>2

(* What the admitted workflow leaves behind in a release build. *)
LeftBehind(s) ==
  \A p \in Projects : \A v \in Range(s.queue[p]) :
    v \in s.owner \/ (s.queue[p][1] = v /\ ~asserts)

LEMMA DequeuingInOrder ==
  ASSUME NEW s, NEW w, Whole(s), Ordered(s), Settled(s), w \in s.owner, IsNext(s, w),
         asserts \in BOOLEAN
  PROVE  LET t == Dequeue(s, w)
         IN /\ Ordered(t) /\ LeftBehind(t) /\ t.owner = s.owner \ {w}
            /\ \A p \in Projects : Closer(t.queue[p], s.queue[p])
            /\ \A n \in DOMAIN t.rotation : t.rotation[n] # ProjectOf[w] =>
                 \E i \in DOMAIN s.rotation : n <= i /\ s.rotation[i] = t.rotation[n]
<1> DEFINE t == Dequeue(s, w)
<1> DEFINE p == ProjectOf[w]
<1> DEFINE rest == IF asserts THEN Tail(s.queue[p]) ELSE s.queue[p]
<1>1. /\ t.queue = [s.queue EXCEPT ![p] = rest] /\ t.owner = s.owner \ {w}
      /\ t.rotation = IF rest = << >> THEN Tail(s.rotation) ELSE Append(Tail(s.rotation), p)
  BY DEF Dequeue, Whole
<1> HIDE DEF t
<1>2. /\ w \in Workflows /\ p \in Projects /\ w \in Range(s.queue[p])
      /\ s.queue[p] \in Seq(Workflows) /\ IsInjective(s.queue[p])
      /\ s.rotation \in Seq(Projects) /\ IsInjective(s.rotation)
      /\ Head(s.queue[p]) = w /\ Head(s.rotation) = p
  BY ProjectAssumption DEF Ordered, IsNext
<1>3. s.queue[p] # << >> /\ p \in Range(s.rotation) /\ s.rotation # << >>
  <2>1. s.queue[p] # << >>
    BY <1>2, EmptyRange
  <2>2. p \in Range(s.rotation)
    BY <1>2, <2>1 DEF Ordered
  <2>3. QED
    BY <1>2, <2>1, <2>2, EmptyRange
<1>4. /\ t.queue[p] = rest /\ \A q \in Projects \ {p} : t.queue[q] = s.queue[q]
      /\ DOMAIN t.queue = Projects
  BY <1>1, <1>2 DEF Ordered
<1> HIDE DEF p
<1>5. /\ rest \in Seq(Workflows) /\ IsInjective(rest)
      /\ Range(rest) = IF asserts THEN Range(s.queue[p]) \ {w} ELSE Range(s.queue[p])
      /\ Closer(rest, s.queue[p])
      /\ ~asserts => rest # << >> /\ rest[1] = w
  BY <1>2, <1>3, Leaving, CloserToItself
<1>6. /\ Tail(s.rotation) \in Seq(Projects) /\ IsInjective(Tail(s.rotation))
      /\ Range(Tail(s.rotation)) = Range(s.rotation) \ {p}
      /\ Closer(Tail(s.rotation), s.rotation)
  BY <1>2, <1>3, Leaving
<1> HIDE DEF rest
<1>7. /\ t.rotation \in Seq(Projects) /\ IsInjective(t.rotation)
      /\ Range(t.rotation) = IF rest = << >> THEN Range(s.rotation) \ {p} ELSE Range(s.rotation)
  <2>1. CASE rest = << >>
    BY <1>1, <1>6, <2>1
  <2>2. CASE rest # << >>
    <3>1. p \notin Range(Tail(s.rotation))
      BY <1>6
    <3>2. /\ t.rotation = Append(Tail(s.rotation), p)
          /\ p \in Projects /\ Tail(s.rotation) \in Seq(Projects)
          /\ IsInjective(Tail(s.rotation))
      BY <1>1, <1>2, <1>6, <2>2
    <3>3. /\ t.rotation \in Seq(Projects) /\ IsInjective(t.rotation)
          /\ Range(t.rotation) = Range(Tail(s.rotation)) \cup {p}
      <4> DEFINE q == Tail(s.rotation)
      <4>1. q \in Seq(Projects) /\ IsInjective(q) /\ p \notin Range(q)
        BY <3>1, <3>2
      <4> HIDE DEF q
      <4>2. /\ Append(q, p) \in Seq(Projects) /\ IsInjective(Append(q, p))
            /\ Range(Append(q, p)) = Range(q) \cup {p}
        BY <3>2, <4>1, Appending
      <4>3. QED
        BY <3>2, <4>2 DEF q
    <3>4. QED
      BY <1>3, <1>6, <2>2, <3>3
  <2>3. QED
    BY <2>1, <2>2
<1>8. ASSUME NEW n \in DOMAIN t.rotation, t.rotation[n] # p
      PROVE  \E i \in DOMAIN s.rotation : n <= i /\ s.rotation[i] = t.rotation[n]
  <2>1. CASE rest = << >>
    BY <1>1, <1>6, <1>8, <2>1 DEF Closer
  <2>2. CASE rest # << >>
    <3>1. t.rotation = Append(Tail(s.rotation), p)
      BY <1>1, <2>2
    <3>2. n \in DOMAIN Tail(s.rotation) /\ Tail(s.rotation)[n] = t.rotation[n]
      <4>1. /\ Len(Tail(s.rotation)) \in Nat
            /\ DOMAIN Tail(s.rotation) = 1 .. Len(Tail(s.rotation))
            /\ DOMAIN t.rotation = 1 .. Len(Tail(s.rotation)) + 1
            /\ t.rotation[Len(Tail(s.rotation)) + 1] = p
            /\ \A i \in 1 .. Len(Tail(s.rotation)) : t.rotation[i] = Tail(s.rotation)[i]
        BY <1>2, <1>6, <3>1, AppendProperties, LenProperties
      <4>2. QED
        BY <1>8, <4>1
    <3>3. QED
      BY <1>6, <3>2 DEF Closer
  <2>3. QED
    BY <2>1, <2>2
<1>9. Range(t.rotation) = {q \in Projects : t.queue[q] # << >>}
  <2>1. Range(s.rotation) = {q \in Projects : s.queue[q] # << >>}
    BY DEF Ordered
  <2>2. QED
    BY <1>2, <1>3, <1>4, <1>7, <2>1
<1>10. \A v \in t.owner : v \in Range(t.queue[ProjectOf[v]])
  <2>1. \A v \in s.owner : ProjectOf[v] \in Projects /\ v \in Range(s.queue[ProjectOf[v]])
    BY ProjectAssumption DEF Ordered
  <2>2. QED
    BY <1>1, <1>4, <1>5, <2>1
<1>11. Ordered(t)
  <2>1. t.queue \in [Projects -> Seq(Workflows)]
    <3>1. s.queue \in [Projects -> Seq(Workflows)]
      BY DEF Ordered
    <3>2. QED
      BY <1>1, <1>5, <3>1
  <2>2. \A q \in Projects : IsInjective(t.queue[q]) /\ \A v \in Range(t.queue[q]) : ProjectOf[v] = q
    BY <1>4, <1>5 DEF Ordered
  <2>3. t.owner \subseteq Workflows
    BY <1>1 DEF Ordered
  <2>4. QED
    BY <1>7, <1>9, <1>10, <2>1, <2>2, <2>3 DEF Ordered
<1>12. LeftBehind(t)
  <2>1. \A q \in Projects : Range(s.queue[q]) \subseteq s.owner
    BY DEF Settled
  <2>2. \A q \in Projects \ {p} : w \notin Range(s.queue[q])
    BY DEF Ordered, p
  <2>3. ASSUME NEW q \in Projects, NEW v \in Range(t.queue[q])
        PROVE  v \in t.owner \/ (t.queue[q][1] = v /\ ~asserts)
    <3>1. CASE q = p
      BY <1>1, <1>4, <1>5, <2>1, <2>3, <3>1
    <3>2. CASE q # p
      BY <1>1, <1>4, <2>1, <2>2, <2>3, <3>2
    <3>3. QED
      BY <3>1, <3>2
  <2>4. QED
    BY <2>3 DEF LeftBehind
<1>13. \A q \in Projects : Closer(t.queue[q], s.queue[q])
  BY <1>4, <1>5, CloserToItself DEF Ordered
<1>14. QED
  BY <1>1, <1>8, <1>11, <1>12, <1>13 DEF t, p

LEMMA ReapingInOrder ==
  ASSUME NEW s, NEW now \in Int, Whole(s), Ordered(s)
  PROVE  LET t == Reap(s, now)
         IN /\ Ordered(t) /\ Settled(t) /\ Advanced(t, s)
            /\ t.owner = {w \in s.owner : s.waiting[w] > now}
<1> DEFINE leased == [s EXCEPT !.active = Restrict(@, {w \in DOMAIN @ : @[w] > now})]
<1> DEFINE abandoned == {w \in Waiting(s) : s.waiting[w] <= now}
<1> DEFINE left == RemoveWorkflows(leased, abandoned)
<1> DEFINE t == Repair(left)
<1>1. /\ DOMAIN leased = DOMAIN s /\ leased.waiting = s.waiting /\ leased.owner = s.owner
      /\ leased.queue = s.queue /\ leased.rotation = s.rotation
      /\ leased.active = Restrict(s.active, {w \in Active(s) : s.active[w] > now})
  BY DEF Whole, Active
<1>2. Reap(s, now) = t
  BY DEF Reap
<1>3. s.owner \ abandoned = {w \in s.owner : s.waiting[w] > now}
  BY DEF Whole, Ticks
<1>4. {w \in Active(s) : s.active[w] > now} \in SUBSET Active(s)
  OBVIOUS
<1> HIDE DEF leased, abandoned
<1>5. Whole(leased) /\ Ordered(leased)
  <2>1. /\ leased.active \in [Active(leased) -> Ticks] /\ Active(leased) \subseteq Active(s)
    <3> DEFINE kept == {w \in Active(s) : s.active[w] > now}
    <3>1. s.active \in [Active(s) -> Ticks]
      BY DEF Whole
    <3>2. kept \in SUBSET Active(s)
      BY <1>4
    <3>3. leased.active = Restrict(s.active, kept)
      BY <1>1
    <3> HIDE DEF kept
    <3>4. leased.active \in [kept -> Ticks] /\ DOMAIN leased.active = kept
      BY <3>1, <3>2, <3>3, Restricting
    <3>5. Active(leased) = kept
      BY <3>4 DEF Active
    <3>6. QED
      BY <3>2, <3>4, <3>5
  <2>2. Whole(leased)
    BY <1>1, <2>1 DEF Whole, Waiting
  <2>3. Ordered(leased)
    BY <1>1 DEF Ordered
  <2>4. QED
    BY <2>2, <2>3
<1>6. /\ Whole(left) /\ Ordered(left) /\ Advanced(left, leased)
      /\ left.owner = s.owner \ abandoned
  BY <1>1, <1>5, Removing, RemovingInOrder
<1> HIDE DEF left
<1>7. Ordered(t) /\ Advanced(t, left) /\ t.owner = left.owner /\ Settled(t)
  BY <1>6, RepairingInOrder
<1> HIDE DEF t
<1>8. Advanced(t, s)
  <2>1. Closer(t.rotation, s.rotation)
    <3>1. /\ t.rotation \in Seq(Projects) /\ left.rotation \in Seq(Projects)
          /\ s.rotation \in Seq(Projects)
      BY <1>6, <1>7 DEF Ordered
    <3>2. Closer(t.rotation, left.rotation) /\ Closer(left.rotation, s.rotation)
      BY <1>1, <1>6, <1>7 DEF Advanced
    <3>3. QED
      BY <3>1, <3>2, CloserIsTransitive
  <2>2. ASSUME NEW p \in Projects
        PROVE  Closer(t.queue[p], s.queue[p])
    <3>1. /\ t.queue[p] \in Seq(Workflows) /\ left.queue[p] \in Seq(Workflows)
          /\ s.queue[p] \in Seq(Workflows)
      BY <1>6, <1>7 DEF Ordered
    <3>2. Closer(t.queue[p], left.queue[p]) /\ Closer(left.queue[p], s.queue[p])
      BY <1>1, <1>6, <1>7 DEF Advanced
    <3>3. QED
      BY <3>1, <3>2, CloserIsTransitive
  <2>3. QED
    BY <2>1, <2>2 DEF Advanced
<1>9. QED
  BY <1>2, <1>3, <1>6, <1>7, <1>8

(***************************************************************************)
(* Places and turns.                                                       *)
(***************************************************************************)
PlaceIn(s, v) == At(s.queue[ProjectOf[v]], v)
TurnIn(s, v) == At(s.rotation, ProjectOf[v])

LEMMA AdvancedIsNearer ==
  ASSUME NEW s, NEW t, Ordered(s), Ordered(t), Advanced(t, s), NEW v \in t.owner
  PROVE  /\ PlaceIn(t, v) <= PlaceIn(s, v) /\ PlaceIn(t, v) \in Nat /\ PlaceIn(s, v) \in Nat
         /\ TurnIn(t, v) <= TurnIn(s, v) /\ TurnIn(t, v) \in Nat /\ TurnIn(s, v) \in Nat
<1> DEFINE p == ProjectOf[v]
<1>1. /\ p \in Projects /\ v \in Range(t.queue[p])
      /\ t.queue[p] \in Seq(Workflows) /\ s.queue[p] \in Seq(Workflows)
      /\ IsInjective(t.queue[p]) /\ IsInjective(s.queue[p])
  BY ProjectAssumption DEF Ordered
<1>2. p \in Range(t.rotation)
  BY <1>1, EmptyRange DEF Ordered
<1>3. PlaceIn(t, v) <= PlaceIn(s, v) /\ PlaceIn(t, v) \in Nat /\ PlaceIn(s, v) \in Nat
  <2>1. \A n \in DOMAIN t.queue[p] : t.queue[p][n] = v =>
          \E i \in DOMAIN s.queue[p] : n <= i /\ s.queue[p][i] = v
    BY <1>1 DEF Advanced, Closer
  <2>2. QED
    BY <1>1, <2>1, Nearer DEF PlaceIn
<1>4. TurnIn(t, v) <= TurnIn(s, v) /\ TurnIn(t, v) \in Nat /\ TurnIn(s, v) \in Nat
  <2>1. /\ t.rotation \in Seq(Projects) /\ s.rotation \in Seq(Projects)
        /\ IsInjective(t.rotation) /\ IsInjective(s.rotation)
    BY DEF Ordered
  <2>2. \A n \in DOMAIN t.rotation : t.rotation[n] = p =>
          \E i \in DOMAIN s.rotation : n <= i /\ s.rotation[i] = p
    BY DEF Advanced, Closer
  <2>3. QED
    BY <1>2, <2>1, <2>2, Nearer DEF TurnIn
<1>5. QED
  BY <1>3, <1>4

LEMMA ExtendedIsNearer ==
  ASSUME NEW s, NEW t, Ordered(s), Ordered(t), NEW v \in s.owner,
         Extended(t.rotation, s.rotation),
         \A p \in Projects : Extended(t.queue[p], s.queue[p])
  PROVE  PlaceIn(t, v) = PlaceIn(s, v) /\ TurnIn(t, v) = TurnIn(s, v)
<1> DEFINE p == ProjectOf[v]
<1>1. /\ p \in Projects /\ v \in Range(s.queue[p])
      /\ t.queue[p] \in Seq(Workflows) /\ s.queue[p] \in Seq(Workflows)
      /\ IsInjective(t.queue[p]) /\ IsInjective(s.queue[p])
  BY ProjectAssumption DEF Ordered
<1>2. p \in Range(s.rotation)
  BY <1>1, EmptyRange DEF Ordered
<1>3. PlaceIn(t, v) = PlaceIn(s, v)
  BY <1>1, SamePlace DEF PlaceIn
<1>4. /\ t.rotation \in Seq(Projects) /\ s.rotation \in Seq(Projects)
      /\ IsInjective(t.rotation) /\ IsInjective(s.rotation)
  BY DEF Ordered
<1>5. TurnIn(t, v) = TurnIn(s, v)
  BY <1>2, <1>4, SamePlace DEF TurnIn
<1>6. QED
  BY <1>3, <1>5

LEMMA DequeuedIsNearer ==
  ASSUME NEW s, NEW w, NEW v, Whole(s), Ordered(s), Settled(s), w \in s.owner, IsNext(s, w),
         asserts \in BOOLEAN, v \in s.owner \ {w}
  PROVE  LET t == Dequeue(s, w)
         IN /\ PlaceIn(t, v) <= PlaceIn(s, v) /\ PlaceIn(t, v) \in Nat
            /\ ProjectOf[v] # ProjectOf[w] =>
                 TurnIn(t, v) <= TurnIn(s, v) /\ TurnIn(t, v) \in Nat
<1> DEFINE t == Dequeue(s, w)
<1> DEFINE p == ProjectOf[v]
<1>1. /\ Ordered(t) /\ t.owner = s.owner \ {w}
      /\ \A q \in Projects : Closer(t.queue[q], s.queue[q])
      /\ \A n \in DOMAIN t.rotation : t.rotation[n] # ProjectOf[w] =>
           \E i \in DOMAIN s.rotation : n <= i /\ s.rotation[i] = t.rotation[n]
  BY DequeuingInOrder
<1> HIDE DEF t
<1>2. /\ p \in Projects /\ v \in Range(t.queue[p])
      /\ t.queue[p] \in Seq(Workflows) /\ s.queue[p] \in Seq(Workflows)
      /\ IsInjective(t.queue[p]) /\ IsInjective(s.queue[p])
  BY <1>1, ProjectAssumption DEF Ordered
<1>3. p \in Range(t.rotation)
  BY <1>1, <1>2, EmptyRange DEF Ordered
<1>4. PlaceIn(t, v) <= PlaceIn(s, v) /\ PlaceIn(t, v) \in Nat
  <2>1. \A n \in DOMAIN t.queue[p] : t.queue[p][n] = v =>
          \E i \in DOMAIN s.queue[p] : n <= i /\ s.queue[p][i] = v
    BY <1>1, <1>2 DEF Closer
  <2>2. QED
    BY <1>2, <2>1, Nearer DEF PlaceIn
<1>5. ASSUME p # ProjectOf[w]
      PROVE  TurnIn(t, v) <= TurnIn(s, v) /\ TurnIn(t, v) \in Nat
  <2>1. /\ t.rotation \in Seq(Projects) /\ s.rotation \in Seq(Projects)
        /\ IsInjective(t.rotation) /\ IsInjective(s.rotation)
    BY <1>1 DEF Ordered
  <2>2. \A n \in DOMAIN t.rotation : t.rotation[n] = p =>
          \E i \in DOMAIN s.rotation : n <= i /\ s.rotation[i] = p
    BY <1>1, <1>5
  <2>3. QED
    BY <1>3, <2>1, <2>2, Nearer DEF TurnIn
<1>6. QED
  BY <1>4, <1>5 DEF t

(***************************************************************************)
(* The inductive invariant.                                                *)
(***************************************************************************)
Ops == {"none", "acquire", "release", "refused"}
Calls == [op : Ops, lag : 0 .. MaxLag]
Controllers ==
  [admitted : 0 .. RecoveryAdmissions, pressured : BOOLEAN, recovery : BOOLEAN,
   since : 0 .. MaxLag + 1]

StateOK ==
  /\ ctl \in Controllers
  /\ state \in [Workflows -> {"running", "suspended", "over"}]
  /\ call \in [Workflows -> Calls]
  /\ cancelling \subseteq Workflows /\ present \subseteq Workflows /\ held \subseteq Workflows
  /\ troubles \in 0 .. MaxTroubles /\ asserts \in BOOLEAN

InOrder(s) == Whole(s) /\ WithinLimit(s) /\ Ordered(s) /\ LeftBehind(s)

IInv == StateOK /\ InOrder(adm)

LEMMA SettledLeavesNothing ==
  ASSUME NEW s, Settled(s)
  PROVE  LeftBehind(s)
BY DEF Settled, LeftBehind

(***************************************************************************)
(* A call is served.  Kept and Orderly are the step formulas of            *)
(* LeasesAreKept and NoOvertaking, for one workflow.                       *)
(***************************************************************************)
Kept(w) == w \in Active(adm) => w \in Active(adm') \/ adm.active[w] <= 0

Orderly(v) ==
  v \in adm.owner /\ v \in adm'.owner /\ adm.waiting[v] > 0 =>
    /\ PlaceIn(adm', v) <= PlaceIn(adm, v)
    /\ \/ TurnIn(adm', v) <= TurnIn(adm, v)
       \/ \E u \in Active(adm') \ Active(adm) : ProjectOf[u] = ProjectOf[v]

LEMMA Serving ==
  ASSUME IInv, NEW w \in Workflows
  PROVE  /\ call[w].lag \in 0 .. MaxLag /\ -call[w].lag \in Times
         /\ LeaseTicks - call[w].lag \in Ticks
         /\ LET s == Reap(adm, -call[w].lag)
            IN /\ Whole(s) /\ WithinLimit(s) /\ Ordered(s) /\ Settled(s) /\ Advanced(s, adm)
               /\ \A v \in Active(adm) : v \in Active(s) \/ adm.active[v] <= 0
               /\ \A v \in adm.owner : v \in s.owner \/ adm.waiting[v] <= 0
               /\ s.owner \subseteq adm.owner
<1> DEFINE lag == call[w].lag
<1> DEFINE s == Reap(adm, -lag)
<1>0. lag \in 0 .. MaxLag
  BY DEF IInv, StateOK, Calls
<1> HIDE DEF lag
<1>1. -lag \in Int /\ -lag \in Times /\ -lag <= 0 /\ LeaseTicks - lag \in Ticks
  BY <1>0, LimitsAssumption DEF Ticks, Times
<1>2. Whole(s) /\ Active(s) = {v \in Active(adm) : adm.active[v] > -lag}
  BY <1>1, Reaping DEF IInv, InOrder
<1>3. /\ Ordered(s) /\ Settled(s) /\ Advanced(s, adm)
      /\ s.owner = {v \in adm.owner : adm.waiting[v] > -lag}
  BY <1>1, ReapingInOrder DEF IInv, InOrder
<1> HIDE DEF s
<1>4. WithinLimit(s)
  BY <1>2, Fewer DEF IInv, InOrder
<1>5. ASSUME NEW v \in Active(adm)
      PROVE  v \in Active(s) \/ adm.active[v] <= 0
  <2>1. adm.active[v] \in Int
    BY DEF IInv, InOrder, Whole, Ticks
  <2>2. adm.active[v] > -lag \/ adm.active[v] <= 0
    BY <1>1, <2>1
  <2>3. QED
    BY <1>2, <2>2
<1>6. ASSUME NEW v \in adm.owner
      PROVE  v \in s.owner \/ adm.waiting[v] <= 0
  <2>1. adm.waiting[v] \in Int
    BY DEF IInv, InOrder, Whole, Ticks
  <2>2. adm.waiting[v] > -lag \/ adm.waiting[v] <= 0
    BY <1>1, <2>1
  <2>3. QED
    BY <1>3, <2>2
<1>7. QED
  BY <1>0, <1>1, <1>2, <1>3, <1>4, <1>5, <1>6 DEF lag, s

(* Who waits and has not lapsed is no further back after the reaping. *)
LEMMA ReapedIsNearer ==
  ASSUME IInv, NEW s, Ordered(s), Advanced(s, adm), NEW v \in s.owner
  PROVE  /\ PlaceIn(s, v) <= PlaceIn(adm, v) /\ PlaceIn(adm, v) \in Nat /\ PlaceIn(s, v) \in Nat
         /\ TurnIn(s, v) <= TurnIn(adm, v) /\ TurnIn(adm, v) \in Nat /\ TurnIn(s, v) \in Nat
BY AdvancedIsNearer DEF IInv, InOrder

LEMMA SameQueue ==
  ASSUME NEW s, NEW t, t.queue = s.queue, t.rotation = s.rotation
  PROVE  \A v : PlaceIn(t, v) = PlaceIn(s, v) /\ TurnIn(t, v) = TurnIn(s, v)
BY DEF PlaceIn, TurnIn

(* What a call that acquires leaves: one lease more only if one was free,  *)
(* and nobody is overtaken.                                                *)
LEMMA Acquiring ==
  ASSUME IInv, NEW w \in Workflows, NEW sample, Acquire(w, call[w].lag, sample)
  PROVE  InOrder(adm') /\ \A v : Kept(v) /\ Orderly(v)
<1> DEFINE lag == call[w].lag
<1> DEFINE s == Reap(adm, -lag)
<1> DEFINE queued == Enqueue(s, w, -lag)
<1>1. /\ lag \in 0 .. MaxLag /\ -lag \in Times /\ -lag \in Int /\ LeaseTicks - lag \in Ticks
      /\ Whole(s) /\ WithinLimit(s) /\ Ordered(s) /\ Settled(s) /\ Advanced(s, adm)
      /\ \A v \in Active(adm) : v \in Active(s) \/ adm.active[v] <= 0
      /\ \A v \in adm.owner : v \in s.owner \/ adm.waiting[v] <= 0
      /\ s.owner \subseteq adm.owner
  BY Serving, LimitsAssumption
<1>2. ASSUME NEW v \in s.owner
      PROVE  /\ PlaceIn(s, v) <= PlaceIn(adm, v) /\ PlaceIn(adm, v) \in Nat
             /\ PlaceIn(s, v) \in Nat
             /\ TurnIn(s, v) <= TurnIn(adm, v) /\ TurnIn(adm, v) \in Nat /\ TurnIn(s, v) \in Nat
  BY <1>1, ReapedIsNearer
<1>3. ASSUME NEW v, v \in adm.owner, adm.waiting[v] > 0
      PROVE  v \in s.owner
  <2>1. adm.waiting[v] \in Int
    BY <1>3 DEF IInv, InOrder, Whole, Ticks
  <2>2. QED
    BY <1>1, <1>3, <2>1
<1>4. CASE w \in Active(s)
  <2>1. adm' = [s EXCEPT !.active[w] = LeaseTicks - lag]
    BY <1>4 DEF Acquire
  <2> HIDE DEF lag, s
  <2>2. /\ Whole(adm') /\ Active(adm') = Active(s) /\ adm'.owner = s.owner
        /\ adm'.queue = s.queue /\ adm'.rotation = s.rotation
    BY <1>1, <1>4, <2>1 DEF Whole, Active, Waiting
  <2>3. Ordered(adm') /\ LeftBehind(adm') /\ WithinLimit(adm')
    BY <1>1, <2>2, SettledLeavesNothing DEF Ordered, LeftBehind, WithinLimit
  <2>4. \A v : Kept(v)
    BY <1>1, <2>2 DEF Kept
  <2>5. \A v : Orderly(v)
    BY <1>2, <2>2, SameQueue DEF Orderly
  <2>6. QED
    BY <2>2, <2>3, <2>4, <2>5 DEF InOrder
<1>5. CASE w \notin Active(s)
  <2>1. Whole(queued) /\ queued.active = s.active /\ w \in Waiting(queued)
    BY <1>1, <1>5, Enqueuing
  <2>2. /\ Ordered(queued) /\ Settled(queued) /\ queued.owner = s.owner \cup {w}
        /\ Extended(queued.rotation, s.rotation)
        /\ \A p \in Projects : Extended(queued.queue[p], s.queue[p])
    BY <1>1, EnqueuingInOrder
  <2>3. adm' # queued =>
          /\ ~Full(s) /\ IsNext(queued, w)
          /\ adm' = [Dequeue(queued, w) EXCEPT !.active = Set(@, w, LeaseTicks - lag)]
    BY <1>5 DEF Acquire
  <2> HIDE DEF lag, s, queued
  <2>4. Active(queued) = Active(s) /\ WithinLimit(queued)
    BY <1>1, <2>1, Fewer DEF Active
  <2>5. ASSUME NEW v \in s.owner
        PROVE  PlaceIn(queued, v) = PlaceIn(s, v) /\ TurnIn(queued, v) = TurnIn(s, v)
    BY <1>1, <2>2, ExtendedIsNearer
  <2>6. CASE adm' = queued
    <3>1. InOrder(adm')
      BY <2>1, <2>2, <2>4, <2>6, SettledLeavesNothing DEF InOrder
    <3>2. \A v : Kept(v)
      BY <1>1, <2>4, <2>6 DEF Kept
    <3>3. \A v : Orderly(v)
      BY <1>2, <1>3, <2>5, <2>6 DEF Orderly
    <3>4. QED
      BY <3>1, <3>2, <3>3
  <2>7. CASE adm' # queued
    <3> DEFINE done == Dequeue(queued, w)
    <3>1. /\ Whole(adm') /\ Active(adm') = Active(s) \cup {w}
          /\ adm'.queue = done.queue /\ adm'.rotation = done.rotation
          /\ adm'.owner = done.owner
      <4> DEFINE admitted == [Dequeue(queued, w) EXCEPT !.active = Set(@, w, LeaseTicks - lag)]
      <4>1. Whole(queued) /\ LeaseTicks - lag \in Ticks
        BY <1>1, <2>1
      <4>2. /\ Whole(admitted) /\ Active(admitted) = Active(queued) \cup {w}
            /\ admitted.queue = done.queue /\ admitted.rotation = done.rotation
            /\ admitted.owner = done.owner
        BY ONLY <4>1, w \in Workflows, Admitting
      <4>3. adm' = admitted
        BY <2>3, <2>7
      <4> HIDE DEF admitted, done
      <4>4. QED
        BY <2>4, <4>2, <4>3
    <3>2. asserts \in BOOLEAN /\ w \in queued.owner /\ IsNext(queued, w)
      BY <2>2, <2>3, <2>7 DEF IInv, StateOK
    <3>3. Ordered(done) /\ LeftBehind(done) /\ done.owner = queued.owner \ {w}
      BY <2>1, <2>2, <3>2, DequeuingInOrder
    <3>4. ASSUME NEW v \in queued.owner \ {w}
          PROVE  /\ PlaceIn(done, v) <= PlaceIn(queued, v) /\ PlaceIn(done, v) \in Nat
                 /\ ProjectOf[v] # ProjectOf[w] =>
                      TurnIn(done, v) <= TurnIn(queued, v) /\ TurnIn(done, v) \in Nat
      BY <2>1, <2>2, <3>2, DequeuedIsNearer
    <3> HIDE DEF done
    <3>5. Ordered(adm') /\ LeftBehind(adm')
      BY <3>1, <3>3 DEF Ordered, LeftBehind
    <3>6. WithinLimit(adm')
      <4>1. IsFiniteSet(Active(s)) /\ Cardinality(Active(s)) \in Nat
        BY <1>1, FS_CardinalityType DEF WithinLimit
      <4>2. Cardinality(Active(s)) < Maximum
        BY <2>3, <2>7, <4>1, LimitsAssumption DEF Full
      <4>3. /\ IsFiniteSet(Active(s) \cup {w})
            /\ Cardinality(Active(s) \cup {w}) = Cardinality(Active(s)) + 1
        BY <1>5, <4>1, FS_AddElement
      <4>4. QED
        BY <3>1, <4>1, <4>2, <4>3, LimitsAssumption DEF WithinLimit
    <3>7. \A v : Kept(v)
      BY <1>1, <3>1 DEF Kept
    <3>8. ASSUME NEW v, v \in adm.owner, v \in adm'.owner, adm.waiting[v] > 0
          PROVE  /\ PlaceIn(adm', v) <= PlaceIn(adm, v)
                 /\ \/ TurnIn(adm', v) <= TurnIn(adm, v)
                    \/ \E u \in Active(adm') \ Active(adm) : ProjectOf[u] = ProjectOf[v]
      <4>1. v \in s.owner /\ v \in queued.owner \ {w}
        BY <1>3, <2>2, <3>1, <3>3, <3>8
      <4>2. /\ PlaceIn(adm', v) = PlaceIn(done, v) /\ TurnIn(adm', v) = TurnIn(done, v)
            /\ PlaceIn(queued, v) = PlaceIn(s, v) /\ TurnIn(queued, v) = TurnIn(s, v)
        BY <2>5, <3>1, <4>1, SameQueue
      <4>3. PlaceIn(adm', v) <= PlaceIn(adm, v)
        BY <1>2, <3>4, <4>1, <4>2
      <4>4. CASE ProjectOf[v] # ProjectOf[w]
        <5>1. TurnIn(adm', v) <= TurnIn(adm, v)
          BY <1>2, <3>4, <4>1, <4>2, <4>4
        <5>2. QED
          BY <4>3, <5>1
      <4>5. CASE ProjectOf[v] = ProjectOf[w]
        <5> DEFINE p == ProjectOf[w]
        <5>1. /\ p \in Projects /\ v \in Range(s.queue[p]) /\ s.queue[p] \in Seq(Workflows)
              /\ queued.queue[p] \in Seq(Workflows)
          BY <1>1, <2>2, <4>1, <4>5, ProjectAssumption DEF Ordered
        <5>2. 1 \in DOMAIN s.queue[p]
          BY <5>1, LenProperties DEF Range
        <5>3. 1 \in DOMAIN queued.queue[p] /\ queued.queue[p][1] = s.queue[p][1]
          BY <2>2, <5>1, <5>2 DEF Extended
        <5>4. Head(queued.queue[p]) = queued.queue[p][1]
          <6>1. queued.queue[p] # << >>
            BY <5>3
          <6>2. QED
            BY <5>1, <6>1, HeadTailProperties
        <5>5. w \in Range(s.queue[p])
          BY <3>2, <5>2, <5>3, <5>4 DEF IsNext, Range
        <5>6. w \in adm.owner
          BY <1>1, <5>1, <5>5 DEF Settled
        <5>7. w \notin Active(adm)
          BY <5>6 DEF IInv, InOrder, Whole
        <5>8. w \in Active(adm') \ Active(adm) /\ ProjectOf[w] = ProjectOf[v]
          BY <3>1, <4>5, <5>7
        <5>9. QED
          BY <4>3, <5>8
      <4>6. QED
        BY <4>4, <4>5
    <3>9. \A v : Orderly(v)
      BY <3>8 DEF Orderly
    <3>10. QED
      BY <3>1, <3>5, <3>6, <3>7, <3>9 DEF InOrder
  <2>8. QED
    BY <2>6, <2>7
<1>6. QED
  BY <1>4, <1>5

(* What a call leaves that gives back or takes away what w has. *)
LEMMA Releasing ==
  ASSUME IInv, NEW w \in Workflows,
         \/ adm' = RemoveWorkflows(Reap(adm, -call[w].lag), {w})
         \/ adm' = RemoveWorkflows(adm, {w})
  PROVE  InOrder(adm') /\ \A v : (v = w \/ Kept(v)) /\ Orderly(v)
<1>1. ASSUME NEW s, Whole(s), WithinLimit(s), Ordered(s), LeftBehind(s),
             adm' = RemoveWorkflows(s, {w})
      PROVE  /\ InOrder(adm') /\ Active(adm') = Active(s) \ {w}
             /\ adm'.owner = s.owner \ {w} /\ Advanced(adm', s)
  <2>1. Whole(adm') /\ Active(adm') = Active(s) \ {w}
    BY <1>1, Removing
  <2>2. /\ Ordered(adm') /\ Advanced(adm', s) /\ adm'.owner = s.owner \ {w}
        /\ \A p \in Projects :
             Range(adm'.queue[p]) = Range(s.queue[p]) \cap (Workflows \ ({w} \cap s.owner))
    BY <1>1, RemovingInOrder
  <2>3. WithinLimit(adm')
    BY <1>1, <2>1, Fewer
  <2>4. ASSUME NEW p \in Projects, NEW v \in Range(adm'.queue[p]), v \notin adm'.owner
        PROVE  adm'.queue[p][1] = v /\ ~asserts
    <3>1. v \in Range(s.queue[p]) /\ v \notin s.owner
      BY <2>2, <2>4
    <3>2. s.queue[p][1] = v /\ ~asserts
      BY <1>1, <3>1 DEF LeftBehind
    <3>3. /\ s.queue[p] \in Seq(Workflows) /\ IsInjective(s.queue[p])
          /\ adm'.queue[p] \in Seq(Workflows) /\ Closer(adm'.queue[p], s.queue[p])
      BY <1>1, <2>2 DEF Ordered, Advanced
    <3>4. PICK n \in DOMAIN adm'.queue[p] : adm'.queue[p][n] = v
      BY <2>4 DEF Range
    <3>5. PICK i \in DOMAIN s.queue[p] : n <= i /\ s.queue[p][i] = v
      BY <3>3, <3>4 DEF Closer
    <3>6. n \in Nat /\ n >= 1 /\ i \in Nat /\ 1 \in DOMAIN s.queue[p]
      BY <3>3, <3>4, <3>5, LenProperties
    <3>7. i = 1
      BY <3>2, <3>3, <3>5, <3>6 DEF IsInjective
    <3>8. n = 1
      BY <3>5, <3>6, <3>7
    <3>9. QED
      BY <3>2, <3>4, <3>8
  <2>5. LeftBehind(adm')
    BY <2>4 DEF LeftBehind
  <2>6. QED
    BY <2>1, <2>2, <2>3, <2>5 DEF InOrder
<1>2. CASE adm' = RemoveWorkflows(Reap(adm, -call[w].lag), {w})
  <2> DEFINE s == Reap(adm, -call[w].lag)
  <2>1. /\ Whole(s) /\ WithinLimit(s) /\ Ordered(s) /\ Settled(s) /\ Advanced(s, adm)
        /\ \A v \in Active(adm) : v \in Active(s) \/ adm.active[v] <= 0
    BY Serving
  <2>2. adm' = RemoveWorkflows(s, {w})
    BY <1>2
  <2> HIDE DEF s
  <2>3. /\ InOrder(adm') /\ Active(adm') = Active(s) \ {w}
        /\ adm'.owner = s.owner \ {w} /\ Advanced(adm', s)
    BY <1>1, <2>1, <2>2, SettledLeavesNothing
  <2>4. ASSUME NEW v \in adm'.owner
        PROVE  PlaceIn(adm', v) <= PlaceIn(adm, v) /\ TurnIn(adm', v) <= TurnIn(adm, v)
    <3>1. v \in s.owner /\ Ordered(adm')
      BY <2>3 DEF InOrder
    <3>2. /\ PlaceIn(s, v) <= PlaceIn(adm, v) /\ PlaceIn(adm, v) \in Nat
          /\ TurnIn(s, v) <= TurnIn(adm, v) /\ TurnIn(adm, v) \in Nat
      BY <2>1, <3>1, ReapedIsNearer
    <3>3. /\ PlaceIn(adm', v) <= PlaceIn(s, v) /\ PlaceIn(adm', v) \in Nat /\ PlaceIn(s, v) \in Nat
          /\ TurnIn(adm', v) <= TurnIn(s, v) /\ TurnIn(adm', v) \in Nat /\ TurnIn(s, v) \in Nat
      BY <2>1, <2>3, <3>1, AdvancedIsNearer
    <3>4. QED
      BY <3>2, <3>3
  <2>5. QED
    BY <2>1, <2>3, <2>4 DEF Kept, Orderly
<1>3. CASE adm' = RemoveWorkflows(adm, {w})
  <2>1. /\ InOrder(adm') /\ Active(adm') = Active(adm) \ {w}
        /\ adm'.owner = adm.owner \ {w} /\ Advanced(adm', adm)
    BY <1>1, <1>3 DEF IInv, InOrder
  <2>2. ASSUME NEW v \in adm'.owner
        PROVE  PlaceIn(adm', v) <= PlaceIn(adm, v) /\ TurnIn(adm', v) <= TurnIn(adm, v)
    BY <2>1, AdvancedIsNearer DEF IInv, InOrder
  <2>3. QED
    BY <2>1, <2>2 DEF Kept, Orderly
<1>4. QED
  BY <1>2, <1>3

LEMMA Ticking ==
  ASSUME IInv, Tick
  PROVE  InOrder(adm') /\ \A v : Kept(v) /\ Orderly(v)
<1>1. adm' = [adm EXCEPT !.active = Older(@), !.waiting = Older(@)]
  BY DEF Tick
<1>2. ASSUME NEW f, NEW D, f \in [D -> Ticks]
      PROVE  Older(f) \in [D -> Ticks] /\ DOMAIN Older(f) = D
  BY <1>2, LimitsAssumption DEF Older, Ticks
<1>3. /\ adm'.active = Older(adm.active) /\ adm'.waiting = Older(adm.waiting)
      /\ adm'.owner = adm.owner /\ adm'.queue = adm.queue /\ adm'.rotation = adm.rotation
      /\ DOMAIN adm' = DOMAIN adm
  BY <1>1 DEF IInv, InOrder, Whole
<1>4. /\ adm'.active \in [Active(adm) -> Ticks] /\ Active(adm') = Active(adm)
      /\ adm'.waiting \in [Waiting(adm) -> Ticks] /\ Waiting(adm') = Waiting(adm)
  BY <1>2, <1>3 DEF IInv, InOrder, Whole, Active, Waiting
<1>5. Whole(adm')
  BY <1>3, <1>4 DEF IInv, InOrder, Whole
<1>6. WithinLimit(adm') /\ Ordered(adm') /\ LeftBehind(adm')
  BY <1>3, <1>4 DEF IInv, InOrder, WithinLimit, Ordered, LeftBehind
<1>7. ASSUME NEW v \in adm.owner
      PROVE  PlaceIn(adm', v) <= PlaceIn(adm, v) /\ TurnIn(adm', v) <= TurnIn(adm, v)
  <2>1. PlaceIn(adm', v) = PlaceIn(adm, v) /\ TurnIn(adm', v) = TurnIn(adm, v)
    BY <1>3, SameQueue
  <2>2. Advanced(adm, adm)
    BY CloserToItself DEF Advanced, IInv, InOrder, Ordered
  <2>3. PlaceIn(adm, v) \in Nat /\ TurnIn(adm, v) \in Nat
    BY <2>2, AdvancedIsNearer DEF IInv, InOrder
  <2>4. QED
    BY <2>1, <2>3
<1>8. QED
  BY <1>3, <1>4, <1>5, <1>6, <1>7 DEF InOrder, Kept, Orderly

LEMMA StateStep ==
  ASSUME IInv, [Next]_vars
  PROVE  StateOK'
<1> USE LimitsAssumption DEF IInv, StateOK
<1>1. NoCall \in Calls /\ \A op \in Ops : [op |-> op, lag |-> 0] \in Calls
  BY DEF NoCall, Calls, Ops
<1>2. ASSUME NEW w \in Workflows, NEW op \in Ops, Begin(w, op)
      PROVE  StateOK'
  BY <1>1, <1>2 DEF Begin
<1>3. CASE \E w \in Workflows : Poll(w) \/ Release(w)
  BY <1>2, <1>3 DEF Poll, Release, Ops
<1>4. ASSUME NEW w \in Workflows, ServeAcquire(w)
      PROVE  StateOK'
  <2>1. PICK sample \in {"good", "pressure", "missing"} :
          /\ IF sample = "good" THEN UNCHANGED troubles ELSE Trouble
          /\ Acquire(w, call[w].lag, sample)
    BY <1>4 DEF ServeAcquire
  <2>2. call[w].lag \in 0 .. MaxLag
    BY DEF Calls
  <2>3. BeginTick(call[w].lag) \in Controllers
    BY <2>2 DEF BeginTick, Controllers, RecoveryAdmissions
  <2>4. ASSUME NEW c \in Controllers
        PROVE  Evaluated(c, sample) \in Controllers
    <3>1. [c EXCEPT !.pressured = TRUE] \in Controllers
      BY DEF Controllers
    <3>2. [c EXCEPT !.admitted = IF @ < RecoveryAdmissions THEN @ + 1 ELSE @] \in Controllers
      BY DEF Controllers, RecoveryAdmissions
    <3>3. \/ Evaluated(c, sample) = [c EXCEPT !.pressured = TRUE]
          \/ Evaluated(c, sample)
               = [c EXCEPT !.admitted = IF @ < RecoveryAdmissions THEN @ + 1 ELSE @]
          \/ Evaluated(c, sample) = c
      BY DEF Evaluated
    <3>4. QED
      BY <3>1, <3>2, <3>3
  <2>5. ctl' \in Controllers /\ held' \subseteq Workflows
    BY <2>1, <2>3, <2>4 DEF Acquire
  <2>6. troubles' \in 0 .. MaxTroubles
    BY <2>1 DEF Trouble
  <2>7. call' \in [Workflows -> Calls]
    BY <1>1, <1>4 DEF ServeAcquire
  <2>8. QED
    BY <1>4, <2>5, <2>6, <2>7 DEF ServeAcquire
<1>5. CASE \E w \in Workflows : ServeRelease(w) \/ ServeRefused(w)
  BY <1>1, <1>5 DEF ServeRelease, ServeRefused
<1>6. CASE \E w \in Workflows : ReleaseCancelled(w) \/ GoOn(w)
  BY <1>6 DEF ReleaseCancelled, GoOn
<1>7. CASE \E w \in Workflows : Cancel(w) \/ Vanish(w)
  BY <1>7 DEF Cancel, Vanish, Trouble
<1>8. CASE \E w \in Workflows : Suspend(w, "suspended") \/ Suspend(w, "over")
  BY <1>8 DEF Suspend, Trouble
<1>9. CASE Tick
  <2>1. ASSUME NEW w \in Workflows
        PROVE  call'[w] \in Calls
    <3>1. CASE call[w] = NoCall
      BY <1>1, <1>9, <3>1 DEF Tick
    <3>2. CASE call[w] # NoCall
      BY <1>9, <3>2 DEF Tick, Calls
    <3>3. QED
      BY <3>1, <3>2
  <2>2. call' \in [Workflows -> Calls]
    BY <1>9, <2>1 DEF Tick
  <2>3. ctl' \in Controllers
    BY <1>9 DEF Tick, Controllers
  <2>4. QED
    BY <1>9, <2>2, <2>3 DEF Tick
<1>10. CASE UNCHANGED vars
  BY <1>10 DEF vars
<1>11. QED
  BY <1>3, <1>4, <1>5, <1>6, <1>7, <1>8, <1>9, <1>10 DEF Next, Serve

(* A lease that is taken away and has not expired. *)
Excused(w) == w \in cancelling \/ call[w].op \in {"release", "refused"}

LEMMA StandStill ==
  ASSUME IInv, adm' = adm
  PROVE  \A v : Kept(v) /\ Orderly(v)
<1>1. Advanced(adm, adm)
  BY CloserToItself DEF Advanced, IInv, InOrder, Ordered
<1>2. ASSUME NEW v \in adm.owner
      PROVE  PlaceIn(adm, v) <= PlaceIn(adm, v) /\ TurnIn(adm, v) <= TurnIn(adm, v)
  BY <1>1, AdvancedIsNearer DEF IInv, InOrder
<1>3. QED
  BY <1>2 DEF Kept, Orderly

LEMMA StepPreserves ==
  ASSUME IInv, [Next]_vars
  PROVE  /\ InOrder(adm') /\ asserts' = asserts
         /\ \A v : Orderly(v) /\ (Kept(v) \/ Excused(v))
<1>1. ASSUME NEW w \in Workflows, ServeAcquire(w)
      PROVE  InOrder(adm') /\ \A v : Kept(v) /\ Orderly(v)
  <2>1. PICK sample : Acquire(w, call[w].lag, sample)
    BY <1>1 DEF ServeAcquire
  <2>2. QED
    BY <2>1, Acquiring
<1>2. ASSUME NEW w \in Workflows, ServeRelease(w) \/ ServeRefused(w) \/ ReleaseCancelled(w)
      PROVE  InOrder(adm') /\ \A v : Orderly(v) /\ (Kept(v) \/ Excused(v))
  <2>1. Excused(w)
    BY <1>2 DEF ServeRelease, ServeRefused, ReleaseCancelled, Excused
  <2>2. InOrder(adm') /\ \A v : (v = w \/ Kept(v)) /\ Orderly(v)
    BY <1>2, Releasing DEF ServeRelease, ServeRefused, ReleaseCancelled
  <2>3. QED
    BY <2>1, <2>2
<1>3. asserts' = asserts
  BY DEF Next, vars, Poll, Release, Begin, Serve, ServeAcquire, ServeRelease, ServeRefused,
         ReleaseCancelled, Cancel, Suspend, GoOn, Vanish, Tick
<1>4. CASE adm' = adm
  <2>1. InOrder(adm')
    BY <1>4 DEF IInv
  <2>2. QED
    BY <1>3, <1>4, <2>1, StandStill
<1>5. CASE Tick
  BY <1>3, <1>5, Ticking
<1>6. QED
  BY <1>1, <1>2, <1>3, <1>4, <1>5
  DEF Next, vars, Serve, Poll, Release, Begin, Cancel, Suspend, GoOn, Vanish

LEMMA InitEstablishes == Init => IInv
<1> SUFFICES ASSUME Init PROVE IInv
  OBVIOUS
<1> USE LimitsAssumption
<1>1. Active(adm) = {} /\ Waiting(adm) = {} /\ adm.owner = {}
  BY DEF Init, Active, Waiting
<1>2. Whole(adm)
  BY <1>1 DEF Init, Whole, Active, Waiting
<1>3. WithinLimit(adm)
  BY <1>1, FS_EmptySet DEF WithinLimit
<1>4. /\ adm.queue = [p \in Projects |-> << >>] /\ adm.rotation = << >>
  BY DEF Init
<1>5. \A S : << >> \in Seq(S) /\ Range(<< >>) = {} /\ IsInjective(<< >>)
  BY EmptySeq DEF Range, IsInjective
<1>6. Ordered(adm) /\ LeftBehind(adm)
  BY <1>1, <1>4, <1>5 DEF Ordered, LeftBehind
<1>7. StateOK
  <2>1. ctl \in Controllers
    BY DEF Init, Controllers, RecoveryAdmissions
  <2>2. call \in [Workflows -> Calls]
    BY DEF Init, NoCall, Calls, Ops
  <2>3. QED
    BY <2>1, <2>2 DEF Init, StateOK
<1>8. QED
  BY <1>2, <1>3, <1>6, <1>7 DEF IInv, InOrder

(***************************************************************************)
(* The theorems.                                                           *)
(***************************************************************************)
(* Every reachable state satisfies the inductive invariant. *)
THEOREM Invariance == Spec => []IInv
<1>1. IInv /\ [Next]_vars => IInv'
  <2> SUFFICES ASSUME IInv, [Next]_vars
               PROVE  IInv'
    OBVIOUS
  <2>1. InOrder(adm') /\ asserts' = asserts
    BY StepPreserves
  <2>2. InOrder(adm)'
    BY <2>1 DEF InOrder, Whole, WithinLimit, Ordered, LeftBehind, Active, Waiting
  <2>3. QED
    BY <2>2, StateStep DEF IInv
<1>2. QED
  BY InitEstablishes, <1>1, PTL DEF Spec

(* The variables stay within their types: a lease and a place hold the     *)
(* ticks they have left, a queue holds each workflow at most once, and no  *)
(* call waits longer than MaxLag (admission.rs, RuntimeState).             *)
THEOREM TypeCorrectness == Spec => []TypeOK
<1>1. IInv => TypeOK
  <2> SUFFICES ASSUME IInv
               PROVE  TypeOK
    OBVIOUS
  <2>1. /\ adm.active \in [Active(adm) -> Ticks] /\ adm.waiting \in [Waiting(adm) -> Ticks]
        /\ Active(adm) \cup Waiting(adm) \cup adm.owner \subseteq Workflows
    BY DEF IInv, InOrder, Whole, Ordered, Active, Waiting
  <2>2. /\ adm.queue \in [Projects -> Seq(Workflows)] /\ adm.rotation \in Seq(Projects)
        /\ IsInjective(adm.rotation) /\ \A p \in Projects : IsInjective(adm.queue[p])
    BY DEF IInv, InOrder, Ordered
  <2>3. QED
    BY <2>1, <2>2 DEF TypeOK, IInv, StateOK, Controllers, Calls, Ops
<1>2. QED
  BY <1>1, Invariance, PTL

(* Four collections describe one queue, in a debug and in a release build: *)
(* a waiting workflow has one place and no lease, every project with a     *)
(* queue has one turn, what a release build leaves in a queue is at its    *)
(* head, and no more than maximum_active workflows hold a lease            *)
(* (admission.rs, execute, enqueue, dequeue_front, remove, repair).        *)
THEOREM QueueSafety == Spec => []QueueIsConsistent
<1>1. IInv => QueueIsConsistent
  <2> SUFFICES ASSUME IInv
               PROVE  QueueIsConsistent
    OBVIOUS
  <2>1. /\ Whole(adm) /\ WithinLimit(adm) /\ Ordered(adm) /\ LeftBehind(adm)
    BY DEF IInv, InOrder
  <2>2. ASSUME NEW w \in Waiting(adm)
        PROVE  Cardinality({i \in DOMAIN adm.queue[ProjectOf[w]] :
                              adm.queue[ProjectOf[w]][i] = w}) = 1
    <3> DEFINE q == adm.queue[ProjectOf[w]]
    <3>1. w \in Range(q) /\ IsInjective(q)
      BY <2>1, ProjectAssumption DEF Ordered, Whole
    <3> HIDE DEF q
    <3>2. PICK n \in DOMAIN q : q[n] = w
      BY <3>1 DEF Range
    <3>3. {i \in DOMAIN q : q[i] = w} = {n}
      BY <3>1, <3>2 DEF IsInjective
    <3>4. Cardinality({i \in DOMAIN q : q[i] = w}) = 1
      BY <3>3, FS_Singleton
    <3>5. QED
      BY <3>4 DEF q
  <2>3. Len(adm.rotation) = Cardinality(Range(adm.rotation))
    <3> DEFINE r == adm.rotation
    <3>1. r \in Seq(Projects) /\ IsInjective(r)
      BY <2>1 DEF Ordered
    <3> HIDE DEF r
    <3>2. Len(r) \in Nat /\ DOMAIN r = 1 .. Len(r)
      BY <3>1, LenProperties
    <3>3. r \in [1 .. Len(r) -> Range(r)]
      BY <3>1, <3>2, ElementOfSeq DEF Range
    <3>4. r \in Bijection(1 .. Len(r), Range(r))
      BY <3>1, <3>2, <3>3 DEF Bijection, Injection, Surjection, Range
    <3>5. QED
      BY <3>2, <3>4, FS_CountingElements DEF ExistsBijection, r
  <2>4. ASSUME NEW p \in Projects, NEW i \in DOMAIN adm.queue[p]
        PROVE  adm.queue[p][i] \in Waiting(adm) \/ (i = 1 /\ ~asserts)
    <3> DEFINE v == adm.queue[p][i]
    <3>1. v \in Range(adm.queue[p]) /\ IsInjective(adm.queue[p])
      BY <2>1 DEF Ordered, Range
    <3>2. CASE v \in adm.owner
      BY <2>1, <3>2 DEF Whole
    <3>3. CASE v \notin adm.owner
      <4>1. adm.queue[p][1] = v /\ ~asserts
        BY <2>1, <3>1, <3>3 DEF LeftBehind
      <4>2. 1 \in DOMAIN adm.queue[p]
        BY <2>1, <2>4, LenProperties DEF Ordered
      <4>3. i = 1
        BY <3>1, <4>1, <4>2 DEF IsInjective
      <4>4. QED
        BY <4>1, <4>3
    <3>4. QED
      BY <3>2, <3>3
  <2>5. QED
    BY <2>1, <2>2, <2>3, <2>4 DEF QueueIsConsistent, Whole, WithinLimit, Ordered
<1>2. QED
  BY <1>1, Invariance, PTL

(* Nobody overtakes: while a workflow waits and its place has not lapsed,  *)
(* its place in the queue of its project only gets better, and so does the *)
(* turn of its project, unless that has just had one; whatever calls are   *)
(* served late and in which order (queue_is_next, dequeue_front, reap).    *)
THEOREM OrderSafety == Spec => NoOvertaking
<1>1. IInv /\ [Next]_vars =>
        [\A w \in Waiting(adm) :
           w \in Waiting(adm)' /\ adm.waiting[w] > 0 =>
             /\ Place(w)' <= Place(w)
             /\ \/ Turn(ProjectOf[w])' <= Turn(ProjectOf[w])
                \/ \E v \in Active(adm)' \ Active(adm) : ProjectOf[v] = ProjectOf[w]]_vars
  <2> SUFFICES ASSUME IInv, [Next]_vars, NEW w \in Waiting(adm),
                      w \in Waiting(adm)', adm.waiting[w] > 0
               PROVE  /\ Place(w)' <= Place(w)
                      /\ \/ Turn(ProjectOf[w])' <= Turn(ProjectOf[w])
                         \/ \E v \in Active(adm)' \ Active(adm) : ProjectOf[v] = ProjectOf[w]
    OBVIOUS
  <2>1. InOrder(adm') /\ Orderly(w)
    BY StepPreserves
  <2>2. w \in adm.owner /\ w \in adm'.owner
    BY <2>1 DEF IInv, InOrder, Whole, Waiting
  <2>3. /\ Place(w) = PlaceIn(adm, w) /\ Place(w)' = PlaceIn(adm', w)
        /\ Turn(ProjectOf[w]) = TurnIn(adm, w) /\ Turn(ProjectOf[w])' = TurnIn(adm', w)
    BY DEF Place, PlaceIn, Turn, TurnIn, At
  <2>4. QED
    BY <2>1, <2>2, <2>3 DEF Orderly, Active
<1>2. QED
  BY <1>1, Invariance, PTL DEF Spec, NoOvertaking

(* A lease that has not expired is only taken away by its own client, by a *)
(* refusal to a workflow that may not run, or by Cancel, however late the  *)
(* calls of others are served (reap_leases, remove).                       *)
THEOREM LeaseSafety == Spec => LeasesAreKept
<1>1. IInv /\ [Next]_vars =>
        [\A w \in Active(adm) \ Active(adm)' :
           adm.active[w] <= 0 \/ w \in cancelling \/ call[w].op \in {"release", "refused"}]_vars
  <2> SUFFICES ASSUME IInv, [Next]_vars, NEW w \in Active(adm) \ Active(adm)'
               PROVE  adm.active[w] <= 0 \/ w \in cancelling
                        \/ call[w].op \in {"release", "refused"}
    OBVIOUS
  <2>1. Kept(w) \/ Excused(w)
    BY StepPreserves
  <2>2. QED
    BY <2>1 DEF Kept, Excused, Active
<1>2. QED
  BY <1>1, Invariance, PTL DEF Spec, LeasesAreKept

=============================================================================
