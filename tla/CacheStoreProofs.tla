-------------------------- MODULE CacheStoreProofs --------------------------
(* What the windows, the writes on their way and the files of CacheStore   *)
(* hold: proofs for any chats, accounts, bounds and plans.                 *)
EXTENDS CacheStore, FiniteSetTheorems, SequenceTheorems, WellFoundedInduction, NaturalsInduction, TLAPS

-----------------------------------------------------------------------------
(* Contents of windows and files.                                          *)

\* The contents whose copies are all in Q.
MsgsIn(Q) == UNION {[S -> Q] : S \in SUBSET Id}

LEMMA Contents1 ==
    ASSUME NEW Q, NEW f
    PROVE  f \in MsgsIn(Q) <=> f \in [DOMAIN f -> Q] /\ DOMAIN f \subseteq Id
BY DEF MsgsIn

LEMMA IdsFinite ==
    ASSUME NEW S \in SUBSET Id
    PROVE  IsFiniteSet(S) /\ Cardinality(S) \in Nat /\ Id \subseteq Nat \ {0}
<1>1. IsFiniteSet(Id)
  <2>1. MaxId \in Nat
    BY CacheStoreAssumption
  <2> QED
    BY <2>1, FS_Interval DEF Id
<1>2. IsFiniteSet(S)
  BY <1>1, FS_Subset
<1> QED
  BY <1>2, FS_CardinalityType, CacheStoreAssumption DEF Id

\* A nonempty set of ids has a last one.
LEMMA LastOf ==
    ASSUME NEW S \in SUBSET Id, S # {}
    PROVE  \E m \in S : \A j \in S : m >= j
<1> DEFINE T == {MaxId - j : j \in S}
           R == OpToRel(<, Nat)
<1>1. S \subseteq Nat /\ \A j \in S : j <= MaxId
  BY CacheStoreAssumption DEF Id
<1>2. T \subseteq Nat /\ T # {}
  <2> HIDE DEF R
  <2>1. ASSUME NEW j \in S PROVE MaxId - j \in Nat
    BY <1>1, CacheStoreAssumption
  <2> QED
    BY <2>1
<1>3. \E x \in T : \A y \in T : ~ (<<y, x>> \in R)
  <2> HIDE DEF T
  <2>1. IsWellFoundedOn(R, Nat)
    BY NatLessThanWellFounded
  <2> HIDE DEF R
  <2> QED
    BY <1>2, <2>1, WFMin
<1>4. PICK x \in T : \A y \in T : ~ (<<y, x>> \in R)
  BY <1>3
<1>5. \A y \in T : ~ (y < x)
  <2> HIDE DEF T
  <2> QED
    BY <1>2, <1>4 DEF OpToRel
<1>6. PICK m \in S : x = MaxId - m
  OBVIOUS
<1>7. ASSUME NEW j \in S PROVE m >= j
  <2>1. MaxId - j \in T
    OBVIOUS
  <2>2. ~ (MaxId - j < MaxId - m)
    BY <1>5, <1>6, <2>1
  <2> HIDE DEF T, R
  <2> QED
    BY <1>1, <2>2, CacheStoreAssumption
<1> QED
  BY <1>7

\* What Kept leaves out has Cap newer messages among those it keeps.
TopOf(M) == {j \in M : Cardinality({k \in M : k > j}) < Cap}

LEMMA CutStays ==
    ASSUME NEW M \in SUBSET Id, NEW i \in Nat, Cut(M, i)
    PROVE  Cut(TopOf(M), i)
<1> DEFINE X == {j \in M : j > i}
           K == {j \in TopOf(M) : j > i}
<1>1. Cardinality(X) >= Cap /\ X \in SUBSET Id
  BY DEF Cut
<1>2. CASE X \subseteq TopOf(M)
  <2>1. K = X
    BY <1>2 DEF TopOf
  <2> QED
    BY <1>1, <2>1 DEF Cut
<1>3. CASE ~(X \subseteq TopOf(M))
  <2> DEFINE Y == X \ TopOf(M)
  <2>1. PICK m \in Y : \A j \in Y : m >= j
    BY <1>1, <1>3, LastOf
  <2> DEFINE Z == {k \in M : k > m}
  <2>2. m \in M /\ m > i /\ ~(Cardinality(Z) < Cap)
    BY <2>1 DEF TopOf
  <2>3. Z \subseteq K
    <3> SUFFICES ASSUME NEW k \in Z PROVE k \in TopOf(M) /\ k > i
      BY DEF TopOf
    <3>1. k > i /\ k \in X /\ ~(m >= k)
      BY <2>2, IdsFinite
    <3> QED
      BY <2>1, <3>1
  <2>4. Cardinality(Z) \in Nat /\ Cardinality(K) \in Nat /\ Cardinality(Z) <= Cardinality(K)
    <3>1. IsFiniteSet(K) /\ Cardinality(K) \in Nat
      <4>1. K \in SUBSET Id
        BY DEF TopOf
      <4> QED
        BY <4>1, IdsFinite
    <3>2. Cardinality(Z) \in Nat
      BY IdsFinite
    <3> HIDE DEF K, Z
    <3> QED
      BY <2>3, <3>1, <3>2, FS_Subset
  <2> QED
    BY <2>2, <2>4, CacheStoreAssumption DEF Cut
<1> QED
  BY <1>2, <1>3

LEMMA MsgsTyped ==
    ASSUME NEW Q \in SUBSET Copy
    PROVE  /\ MsgsIn(Q) \subseteq Messages
           /\ MsgsIn(Copy) = Messages
           /\ None \notin MsgsIn(Q) /\ Asked \notin MsgsIn(Q) /\ None # Asked
<1>1. MsgsIn(Q) \subseteq Messages /\ MsgsIn(Copy) = Messages
  BY DEF MsgsIn, Messages
<1> QED
  BY <1>1, CacheStoreAssumption

LEMMA LoadIn ==
    ASSUME NEW Q, NEW f \in MsgsIn(Q) \cup {None}
    PROVE  Load(f) \in MsgsIn(Q) /\ Empty \in MsgsIn(Q) /\ DOMAIN Empty = {}
<1>1. Empty \in [{} -> Q] /\ DOMAIN Empty = {}
  BY DEF Empty
<1>2. Empty \in MsgsIn(Q)
  BY <1>1 DEF MsgsIn
<1> QED
  BY <1>1, <1>2 DEF Load

LEMMA MergeIn ==
    ASSUME NEW Q, NEW f \in MsgsIn(Q), NEW g \in MsgsIn(Q)
    PROVE  /\ Merge(f, g) \in MsgsIn(Q)
           /\ DOMAIN Merge(f, g) = DOMAIN f \cup DOMAIN g
<1>1. f \in [DOMAIN f -> Q] /\ g \in [DOMAIN g -> Q] /\ DOMAIN f \cup DOMAIN g \subseteq Id
  BY Contents1
<1>2. Merge(f, g) \in [DOMAIN f \cup DOMAIN g -> Q]
  BY <1>1 DEF Merge
<1> QED
  BY <1>1, <1>2, Contents1 DEF Merge

LEMMA KeptIn ==
    ASSUME NEW Q, NEW f \in MsgsIn(Q)
    PROVE  /\ Kept(f) \in MsgsIn(Q)
           /\ DOMAIN Kept(f) = TopOf(DOMAIN f)
           /\ \A i \in DOMAIN Kept(f) : i \in DOMAIN f /\ Kept(f)[i] = f[i]
<1>1. f \in [DOMAIN f -> Q] /\ DOMAIN f \subseteq Id
  BY Contents1
<1>2. DOMAIN Kept(f) = TopOf(DOMAIN f) /\ \A i \in TopOf(DOMAIN f) : Kept(f)[i] = f[i]
  BY DEF Kept, TopOf
<1>3. TopOf(DOMAIN f) \subseteq DOMAIN f
  BY DEF TopOf
<1>4. Kept(f) \in [TopOf(DOMAIN f) -> Q]
  BY <1>1, <1>2, <1>3 DEF Kept, TopOf
<1> QED
  BY <1>1, <1>2, <1>3, <1>4, Contents1

\* A message that is not kept has Cap newer ones among those that are.
LEMMA KeptOrCut ==
    ASSUME NEW Q, NEW f \in MsgsIn(Q), NEW i \in Id, i \in DOMAIN f \/ Cut(DOMAIN f, i)
    PROVE  (i \in DOMAIN f /\ i \in DOMAIN Kept(f)) \/ Cut(DOMAIN Kept(f), i)
<1>1. DOMAIN f \in SUBSET Id /\ DOMAIN Kept(f) = TopOf(DOMAIN f) /\ i \in Nat
  BY Contents1, KeptIn, IdsFinite
<1>2. CASE Cut(DOMAIN f, i)
  BY <1>1, <1>2, CutStays
<1>3. CASE i \in DOMAIN f /\ ~Cut(DOMAIN f, i)
  <2> DEFINE X == {j \in DOMAIN f : j > i}
  <2>1. Cardinality(X) \in Nat
    BY <1>1, IdsFinite
  <2>2. ~(Cardinality(X) >= Cap)
    BY <1>3 DEF Cut
  <2>3. Cardinality(X) < Cap
    <3> HIDE DEF X
    <3> QED
      BY <2>1, <2>2, CacheStoreAssumption
  <2> QED
    BY <1>1, <1>3, <2>3 DEF TopOf
<1> QED
  BY <1>2, <1>3

\* Cut by the ids of a smaller set, cut by those of a larger one.
LEMMA CutMore ==
    ASSUME NEW M, NEW N \in SUBSET Id, M \subseteq N, NEW i \in Nat, Cut(M, i)
    PROVE  Cut(N, i)
<1> DEFINE X == {j \in M : j > i}
           Y == {j \in N : j > i}
<1>1. X \subseteq Y /\ X \in SUBSET Id /\ Y \in SUBSET Id
  OBVIOUS
<1>2. IsFiniteSet(Y) /\ Cardinality(X) \in Nat /\ Cardinality(Y) \in Nat
  BY <1>1, IdsFinite
<1>3. Cardinality(X) <= Cardinality(Y)
  <2> HIDE DEF X, Y
  <2> QED
    BY <1>1, <1>2, FS_Subset
<1>4. Cardinality(X) >= Cap
  BY DEF Cut
<1>5. Cardinality(Y) >= Cap
  <2> HIDE DEF X, Y
  <2> QED
    BY <1>2, <1>3, <1>4, CacheStoreAssumption
<1> QED
  BY <1>5 DEF Cut

\* What is kept of a content that takes another: what either has, but for what
\* has Cap newer messages; what comes wins.
LEMMA KeptMerge ==
    ASSUME NEW Q, NEW f \in MsgsIn(Q), NEW m \in MsgsIn(Q), NEW i \in Id
    PROVE  /\ i \in DOMAIN m =>
                \/ i \in DOMAIN Kept(Merge(f, m)) /\ Kept(Merge(f, m))[i] = m[i]
                \/ i \notin DOMAIN Kept(Merge(f, m)) /\ Cut(DOMAIN Kept(Merge(f, m)), i)
           /\ i \notin DOMAIN m /\ (i \in DOMAIN f \/ Cut(DOMAIN f, i)) =>
                \/ i \in DOMAIN f /\ i \in DOMAIN Kept(Merge(f, m)) /\ Kept(Merge(f, m))[i] = f[i]
                \/ i \notin DOMAIN Kept(Merge(f, m)) /\ Cut(DOMAIN Kept(Merge(f, m)), i)
<1>1. PICK G : G = Merge(f, m)
  OBVIOUS
<1>2. /\ G \in MsgsIn(Q)
      /\ DOMAIN G = DOMAIN f \cup DOMAIN m
      /\ i \in DOMAIN m => G[i] = m[i]
      /\ i \in DOMAIN f /\ i \notin DOMAIN m => G[i] = f[i]
  <2>1. Merge(f, m) \in MsgsIn(Q)
    BY MergeIn
  <2>2. DOMAIN Merge(f, m) = DOMAIN f \cup DOMAIN m
    BY MergeIn
  <2>3. i \in DOMAIN m => Merge(f, m)[i] = m[i]
    BY DEF Merge
  <2>4. i \in DOMAIN f /\ i \notin DOMAIN m => Merge(f, m)[i] = f[i]
    BY DEF Merge
  <2> QED
    BY <1>1, <2>1, <2>2, <2>3, <2>4
<1>3. DOMAIN G \in SUBSET Id /\ i \in Nat
  BY <1>2, Contents1, IdsFinite
<1>4. Cut(DOMAIN f, i) => Cut(DOMAIN G, i)
  BY <1>2, <1>3, CutMore
<1>5. i \in DOMAIN G \/ Cut(DOMAIN G, i) => i \in DOMAIN Kept(G) \/ Cut(DOMAIN Kept(G), i)
  BY <1>2, KeptOrCut
<1>6. i \in DOMAIN Kept(G) => i \in DOMAIN G /\ Kept(G)[i] = G[i]
  BY <1>2, KeptIn
<1>7. i \in DOMAIN m =>
        \/ i \in DOMAIN Kept(G) /\ Kept(G)[i] = m[i]
        \/ i \notin DOMAIN Kept(G) /\ Cut(DOMAIN Kept(G), i)
  BY <1>2, <1>5, <1>6
<1>8. i \notin DOMAIN m /\ (i \in DOMAIN f \/ Cut(DOMAIN f, i)) =>
        \/ i \in DOMAIN f /\ i \in DOMAIN Kept(G) /\ Kept(G)[i] = f[i]
        \/ i \notin DOMAIN Kept(G) /\ Cut(DOMAIN Kept(G), i)
  BY <1>2, <1>4, <1>5, <1>6
<1> QED
  BY <1>1, <1>7, <1>8

LEMMA SavedIn ==
    ASSUME NEW Q, NEW f \in MsgsIn(Q) \cup {None}, NEW m \in MsgsIn(Q)
    PROVE  Saved(f, m) \in MsgsIn(Q)
<1>1. Load(f) \in MsgsIn(Q)
  BY LoadIn
<1>2. Merge(Load(f), m) \in MsgsIn(Q)
  BY <1>1, MergeIn
<1> QED
  BY <1>2, KeptIn DEF Saved

\* A write, on a message: it takes what it brings, and keeps what the file had.
LEMMA SavedTakes ==
    ASSUME NEW Q, NEW f \in MsgsIn(Q) \cup {None}, NEW m \in MsgsIn(Q), NEW i \in DOMAIN m
    PROVE  \/ i \in DOMAIN Saved(f, m) /\ Saved(f, m)[i] = m[i]
           \/ i \notin DOMAIN Saved(f, m) /\ Cut(DOMAIN Saved(f, m), i)
<1>1. Load(f) \in MsgsIn(Q) /\ i \in Id
  BY LoadIn, Contents1
<1> QED
  BY <1>1, KeptMerge DEF Saved

LEMMA SavedKeeps ==
    ASSUME NEW Q, NEW f \in MsgsIn(Q), NEW m \in MsgsIn(Q), NEW i \in Id, i \notin DOMAIN m,
           f # None, i \in DOMAIN f \/ Cut(DOMAIN f, i)
    PROVE  \/ i \in DOMAIN f /\ i \in DOMAIN Saved(f, m) /\ Saved(f, m)[i] = f[i]
           \/ i \notin DOMAIN Saved(f, m) /\ Cut(DOMAIN Saved(f, m), i)
<1>1. Load(f) = f
  BY DEF Load
<1> QED
  BY <1>1, KeptMerge DEF Saved

\* The last id of a content.
LEMMA LastIdIn ==
    ASSUME NEW Q, NEW f \in MsgsIn(Q)
    PROVE  LastId(f) \in 0 .. MaxId
<1>1. DOMAIN f \in SUBSET Id
  BY Contents1
<1>2. CASE DOMAIN f = {}
  BY <1>2, CacheStoreAssumption DEF LastId
<1>3. CASE DOMAIN f # {}
  <2>1. \E m \in DOMAIN f : \A j \in DOMAIN f : m >= j
    BY <1>1, <1>3, LastOf
  <2>2. LastId(f) \in DOMAIN f
    BY <1>3, <2>1 DEF LastId
  <2> QED
    BY <1>1, <2>2, CacheStoreAssumption DEF Id
<1> QED
  BY <1>2, <1>3

-----------------------------------------------------------------------------
(* Types, and what holds of the session, the sync and a process that is    *)
(* not there.                                                              *)

Idle ==
    /\ jobs = <<>>
    /\ login = None /\ self = None /\ account = None /\ cacheSelf = None
    /\ listed = {} /\ window = [c \in Chat |-> None]
    /\ dirty = {} /\ dialogsDirty = FALSE /\ seenDialogs = FALSE
    /\ queue = {} /\ cur = None /\ page = None
    /\ gone = {}

TypeInv ==
    /\ TypeOK
    /\ \A d \in Deed : left[d] <= plan.times[d]
    /\ \A c \in Chat : Len(server[c]) <= MaxId
    /\ (cur = None) = (page = None)
    /\ cur # None \/ queue # {} \/ seenDialogs => self # None
    /\ self # None => self = login /\ account = self
    /\ login # None => up
    /\ ~up => Idle

\* Every copy in a window, a file, a write or an answer is in Q.
Contents(Q) ==
    /\ file \in [Chat -> MsgsIn(Q) \cup {None}]
    /\ window \in [Chat -> MsgsIn(Q) \cup {None}]
    /\ \A k \in DOMAIN jobs : jobs[k].kind = "history" => jobs[k].msgs \in MsgsIn(Q)
    /\ page \in MsgsIn(Q) \cup {None, Asked}

LEMMA JobFields ==
    ASSUME jobs \in Seq(Job)
    PROVE  /\ Len(jobs) \in Nat /\ DOMAIN jobs = 1 .. Len(jobs)
           /\ \A k \in DOMAIN jobs :
                \/ /\ jobs[k].kind = "history" /\ jobs[k].chat \in Chat /\ jobs[k].msgs \in Messages
                \/ /\ jobs[k].kind = "dialogs" /\ jobs[k].self \in Account
                   /\ jobs[k].chats \in SUBSET Chat
<1>1. Len(jobs) \in Nat /\ DOMAIN jobs = 1 .. Len(jobs)
  BY LenProperties
<1>2. \A k \in DOMAIN jobs : jobs[k] \in Job
  BY <1>1, ElementOfSeq
<1> QED
  BY <1>1, <1>2 DEF Job

\* A chain and the same with one write more.
LEMMA AppendJob ==
    ASSUME jobs \in Seq(Job), NEW j \in Job
    PROVE  /\ Append(jobs, j) \in Seq(Job)
           /\ DOMAIN Append(jobs, j) = 1 .. Len(jobs) + 1
           /\ \A k \in DOMAIN jobs : Append(jobs, j)[k] = jobs[k]
           /\ Append(jobs, j)[Len(jobs) + 1] = j
<1>1. Len(jobs) \in Nat /\ DOMAIN jobs = 1 .. Len(jobs)
  BY LenProperties
<1>2. Append(jobs, j) \in Seq(Job) /\ Len(Append(jobs, j)) = Len(jobs) + 1
  OBVIOUS
<1>3. DOMAIN Append(jobs, j) = 1 .. Len(jobs) + 1
  BY <1>2, LenProperties
<1>4. \A k \in DOMAIN jobs : Append(jobs, j)[k] = jobs[k]
  BY <1>1
<1>5. Append(jobs, j)[Len(jobs) + 1] = j
  BY <1>1
<1> QED
  BY <1>2, <1>3, <1>4, <1>5

\* saveDialogs adds one write of the list, or none.
LEMMA SaveDialogsJobs ==
    ASSUME jobs \in Seq(Job), self \in Account \cup {None}, NEW chats \in SUBSET Chat
    PROVE  /\ SaveDialogs(chats) \in Seq(Job)
           /\ DOMAIN jobs \subseteq DOMAIN SaveDialogs(chats)
           /\ \A k \in DOMAIN jobs : SaveDialogs(chats)[k] = jobs[k]
           /\ \A k \in DOMAIN SaveDialogs(chats) \ DOMAIN jobs :
                self # None /\ SaveDialogs(chats)[k] = DialogsJob(chats)
           /\ self # None => \E k \in DOMAIN SaveDialogs(chats) \ DOMAIN jobs :
                                SaveDialogs(chats)[k] = DialogsJob(chats)
<1>1. Len(jobs) \in Nat /\ DOMAIN jobs = 1 .. Len(jobs)
  BY LenProperties
<1>2. CASE self = None
  BY <1>2 DEF SaveDialogs
<1>3. CASE self # None
  <2>1. DialogsJob(chats) \in Job
    BY <1>3 DEF DialogsJob, Job
  <2>2. SaveDialogs(chats) = Append(jobs, DialogsJob(chats))
    BY <1>3 DEF SaveDialogs
  <2>3. PICK J : J = Append(jobs, DialogsJob(chats))
    OBVIOUS
  <2>4. /\ J \in Seq(Job)
        /\ DOMAIN J = 1 .. Len(jobs) + 1
        /\ \A k \in DOMAIN jobs : J[k] = jobs[k]
        /\ J[Len(jobs) + 1] = DialogsJob(chats)
    BY <2>1, <2>3, AppendJob
  <2>5. \A k \in DOMAIN J \ DOMAIN jobs : k = Len(jobs) + 1
    BY <1>1, <2>4
  <2>6. Len(jobs) + 1 \in DOMAIN J \ DOMAIN jobs /\ DOMAIN jobs \subseteq DOMAIN J
    BY <1>1, <2>4
  <2> QED
    BY <1>3, <2>2, <2>3, <2>4, <2>5, <2>6
<1> QED
  BY <1>2, <1>3

\* A flush adds the list, when it may and must be written, and one snapshot of
\* each chat to write.
LEMMA FlushJobs ==
    ASSUME TypeOK, Flush
    PROVE  /\ jobs' \in Seq(Job)
           /\ DOMAIN jobs \subseteq DOMAIN jobs'
           /\ \A k \in DOMAIN jobs : jobs'[k] = jobs[k]
           /\ \A k \in DOMAIN jobs' \ DOMAIN jobs :
                \/ self # None /\ jobs'[k] = DialogsJob(listed)
                \/ \E c \in ToWrite : jobs'[k] = HistoryJob(c)
           /\ \A c \in ToWrite : \E k \in DOMAIN jobs' \ DOMAIN jobs : jobs'[k] = HistoryJob(c)
           /\ dialogsDirty /\ self # None =>
                \E k \in DOMAIN jobs' \ DOMAIN jobs : jobs'[k] = DialogsJob(listed)
<1>1. PICK order \in [1 .. Cardinality(ToWrite) -> ToWrite] :
        /\ \A c \in ToWrite : \E k \in DOMAIN order : order[k] = c
        /\ jobs' = (IF dialogsDirty THEN SaveDialogs(listed) ELSE jobs)
                   \o [k \in DOMAIN order |-> HistoryJob(order[k])]
  BY DEF Flush
<1>2. PICK J : J = IF dialogsDirty THEN SaveDialogs(listed) ELSE jobs
  OBVIOUS
<1>3. PICK H : H = [k \in DOMAIN order |-> HistoryJob(order[k])]
  OBVIOUS
<1>4. /\ Len(jobs) \in Nat /\ DOMAIN jobs = 1 .. Len(jobs)
      /\ self \in Account \cup {None} /\ listed \in SUBSET Chat /\ jobs \in Seq(Job)
  BY JobFields DEF TypeOK
<1>5. /\ J \in Seq(Job)
      /\ DOMAIN jobs \subseteq DOMAIN J
      /\ \A k \in DOMAIN jobs : J[k] = jobs[k]
      /\ \A k \in DOMAIN J \ DOMAIN jobs : self # None /\ J[k] = DialogsJob(listed)
      /\ dialogsDirty /\ self # None =>
            \E k \in DOMAIN J \ DOMAIN jobs : J[k] = DialogsJob(listed)
  <2>1. CASE dialogsDirty
    BY <1>2, <1>4, <2>1, SaveDialogsJobs
  <2>2. CASE ~dialogsDirty
    BY <1>2, <1>4, <2>2
  <2> QED
    BY <2>1, <2>2
<1>6. \A c \in ToWrite : HistoryJob(c) \in Job
  BY DEF ToWrite, HistoryJob, Job, TypeOK
<1>7. Cardinality(ToWrite) \in Nat
  <2>1. ToWrite \in SUBSET Chat
    BY DEF ToWrite, TypeOK
  <2>2. IsFiniteSet(ToWrite)
    BY <2>1, CacheStoreAssumption, FS_Subset
  <2> QED
    BY <2>2, FS_CardinalityType
<1>8. /\ H \in [1 .. Cardinality(ToWrite) -> Job]
      /\ DOMAIN H = 1 .. Cardinality(ToWrite)
      /\ \A k \in DOMAIN H : order[k] \in ToWrite /\ H[k] = HistoryJob(order[k])
  BY <1>1, <1>3, <1>6
<1>9. H \in Seq(Job) /\ Len(H) = Cardinality(ToWrite)
  <2>1. H \in Seq(Job)
    BY <1>7, <1>8, SeqDef
  <2>2. Len(H) \in Nat /\ DOMAIN H = 1 .. Len(H)
    BY <2>1, LenProperties
  <2> QED
    BY <1>7, <1>8, <2>1, <2>2
<1>10. /\ jobs' \in Seq(Job)
       /\ Len(jobs') = Len(J) + Len(H)
       /\ \A k \in 1 .. Len(J) + Len(H) : jobs'[k] = IF k <= Len(J) THEN J[k] ELSE H[k - Len(J)]
  <2>1. jobs' = J \o H
    BY <1>1, <1>2, <1>3
  <2> QED
    BY <1>5, <1>9, <2>1, ConcatProperties
<1>11. /\ Len(J) \in Nat /\ DOMAIN J = 1 .. Len(J)
       /\ Len(H) \in Nat /\ DOMAIN H = 1 .. Len(H)
       /\ DOMAIN jobs' = 1 .. Len(J) + Len(H)
  BY <1>5, <1>9, <1>10, LenProperties
<1>12. DOMAIN J \subseteq DOMAIN jobs' /\ \A k \in DOMAIN J : jobs'[k] = J[k]
  BY <1>10, <1>11
<1>13. ASSUME NEW k \in DOMAIN jobs' \ DOMAIN J
       PROVE  \E c \in ToWrite : jobs'[k] = HistoryJob(c)
  <2>1. k - Len(J) \in DOMAIN H /\ jobs'[k] = H[k - Len(J)]
    BY <1>10, <1>11
  <2> QED
    BY <1>8, <2>1
<1>14. ASSUME NEW c \in ToWrite
       PROVE  \E k \in DOMAIN jobs' \ DOMAIN jobs : jobs'[k] = HistoryJob(c)
  <2>1. PICK n \in DOMAIN H : H[n] = HistoryJob(c)
    BY <1>1, <1>3
  <2>2. Len(J) + n \in DOMAIN jobs' \ DOMAIN J /\ (Len(J) + n) - Len(J) = n
    BY <1>11
  <2>3. jobs'[Len(J) + n] = H[n]
    BY <1>10, <1>11, <2>2
  <2> QED
    BY <1>5, <2>1, <2>2, <2>3
<1> QED
  BY <1>5, <1>10, <1>12, <1>13, <1>14

\* The writes that are left when the first is over.
LEMMA RestOfJobs ==
    ASSUME jobs \in Seq(Job), NEW k \in NextJob
    PROVE  /\ k = 1 /\ 1 \in DOMAIN jobs
           /\ Without(k) \in Seq(Job)
           /\ \A n \in DOMAIN Without(k) :
                n + 1 \in DOMAIN jobs /\ n \in Nat \ {0} /\ Without(k)[n] = jobs[n + 1]
           /\ \A n \in DOMAIN jobs : n # 1 =>
                n - 1 \in DOMAIN Without(k) /\ Without(k)[n - 1] = jobs[n]
<1>1. k = 1 /\ jobs # <<>>
  BY DEF NextJob
<1>2. Len(jobs) \in Nat \ {0} /\ DOMAIN jobs = 1 .. Len(jobs)
  BY <1>1, EmptySeq, LenProperties
<1>3. PICK T : T = SubSeq(jobs, 2, Len(jobs))
  OBVIOUS
<1>4. /\ T \in Seq(Job)
      /\ Len(T) = Len(jobs) - 1
      /\ \A n \in 1 .. Len(jobs) - 1 : T[n] = jobs[n + 1]
  <2>1. T = Tail(jobs)
    BY <1>1, <1>3, TailIsSubSeq
  <2> QED
    BY <1>1, <2>1, HeadTailProperties
<1>5. Without(k) = T
  <2>1. SubSeq(jobs, 1, 0) = <<>>
    BY SubSeqEmpty
  <2>2. <<>> \o T = T
    BY <1>4, ConcatEmptySeq
  <2>3. Without(k) = SubSeq(jobs, 1, 0) \o T
    BY <1>1, <1>3 DEF Without
  <2> QED
    BY <2>1, <2>2, <2>3
<1>6. DOMAIN T = 1 .. Len(jobs) - 1
  BY <1>4, LenProperties
<1>7. \A n \in DOMAIN T : n + 1 \in DOMAIN jobs /\ n \in Nat \ {0} /\ T[n] = jobs[n + 1]
  BY <1>2, <1>4, <1>6
<1>8. ASSUME NEW n \in DOMAIN jobs, n # 1 PROVE n - 1 \in DOMAIN T /\ T[n - 1] = jobs[n]
  <2>1. n - 1 \in DOMAIN T /\ (n - 1) + 1 = n
    BY <1>2, <1>6, <1>8
  <2> QED
    BY <1>7, <2>1
<1>9. 1 \in DOMAIN jobs
  BY <1>2
<1> QED
  BY <1>1, <1>4, <1>5, <1>7, <1>8, <1>9

-----------------------------------------------------------------------------
(* A step keeps every copy in Q, when the copies it reads from the server  *)
(* are in Q.                                                               *)

Fresh(Q) ==
    /\ login # None /\ (self # None \/ net.early) =>
        /\ [by |-> login, version |-> 0] \in Q
        /\ \A c \in Chat : \A i \in DOMAIN server[c] : [by |-> login, version |-> server[c][i]] \in Q
    /\ net.history => \A m \in Q, v \in 0 .. MaxVersion : [m EXCEPT !.version = v] \in Q

LEMMA ServerIds ==
    ASSUME TypeInv, NEW c \in Chat
    PROVE  /\ server[c] \in Seq(0 .. MaxVersion) /\ Len(server[c]) \in Nat
           /\ DOMAIN server[c] = 1 .. Len(server[c]) /\ DOMAIN server[c] \subseteq Id
           /\ \A i \in DOMAIN server[c] : server[c][i] \in 0 .. MaxVersion
<1>1. server[c] \in Seq(0 .. MaxVersion) /\ Len(server[c]) <= MaxId
  BY DEF TypeInv, TypeOK
<1>2. Len(server[c]) \in Nat /\ DOMAIN server[c] = 1 .. Len(server[c])
  BY <1>1, LenProperties
<1>3. DOMAIN server[c] \subseteq Id
  BY <1>1, <1>2, CacheStoreAssumption DEF Id
<1> QED
  BY <1>1, <1>2, <1>3, ElementOfSeq

LEMMA FreshCopy == TypeInv => Fresh(Copy)
<1> SUFFICES ASSUME TypeInv PROVE Fresh(Copy)
  OBVIOUS
<1>1. \A c \in Chat : \A i \in DOMAIN server[c] : server[c][i] \in 0 .. MaxVersion
  BY ServerIds
<1>2. login \in Account \cup {None}
  BY DEF TypeInv, TypeOK
<1> QED
  BY <1>1, <1>2, CacheStoreAssumption DEF Fresh, Copy

LEMMA FromServerIn ==
    ASSUME TypeInv, NEW Q \in SUBSET Copy, Fresh(Q), self # None,
           NEW c \in Chat, NEW ids \in SUBSET DOMAIN server[c]
    PROVE  FromServer(c, ids) \in MsgsIn(Q)
<1>1. ids \in SUBSET Id
  BY ServerIds
<1>2. login # None
  BY DEF TypeInv
<1>3. \A i \in ids : [by |-> login, version |-> server[c][i]] \in Q
  BY <1>2 DEF Fresh
<1>4. FromServer(c, ids) \in [ids -> Q]
  BY <1>3 DEF FromServer
<1> QED
  BY <1>1, <1>4 DEF MsgsIn

\* The window of a chat with a new message.
LEMMA PostedIn ==
    ASSUME TypeInv, NEW c \in Chat, Post(c)
    PROVE  window'[c] \in MsgsIn(Copy)
<1>1. window \in [Chat -> Messages \cup {None}] /\ file \in [Chat -> Messages \cup {None}]
  BY DEF TypeInv, TypeOK
<1>2. PICK m : m = [i \in {Len(server[c]) + 1} |-> [by |-> login, version |-> 0]]
  OBVIOUS
<1>3. m \in MsgsIn(Copy)
  <2>1. [by |-> login, version |-> 0] \in Copy
    BY CacheStoreAssumption DEF Post, Copy, TypeInv, TypeOK
  <2>2. Len(server[c]) + 1 \in Id
    BY ServerIds, CacheStoreAssumption DEF Post, Id
  <2>3. m \in [{Len(server[c]) + 1} -> Copy] /\ {Len(server[c]) + 1} \in SUBSET Id
    BY <1>2, <2>1, <2>2
  <2> QED
    BY <2>3 DEF MsgsIn
<1>4. Merge(Bound(window[c], file[c]), m) \in MsgsIn(Copy)
  <2>1. Bound(window[c], file[c]) \in MsgsIn(Copy)
    BY <1>1, LoadIn, MsgsTyped DEF Bound
  <2> QED
    BY <1>3, <2>1, MergeIn
<1>5. window'[c] = Merge(Bound(window[c], file[c]), m)
  BY <1>1, <1>2 DEF Post
<1> QED
  BY <1>4, <1>5

\* The window of a chat with a message that is edited.
LEMMA EditedIn ==
    ASSUME TypeInv, NEW c \in Chat, NEW i \in Id, Edit(c, i), window[c] # None, i \in DOMAIN window[c]
    PROVE  [window[c] EXCEPT ![i].version = server[c][i] + 1] \in MsgsIn(Copy)
<1>1. server[c][i] + 1 \in 0 .. MaxVersion
  BY ServerIds, CacheStoreAssumption DEF Edit
<1>2. window[c] \in MsgsIn(Copy)
  BY MsgsTyped DEF TypeInv, TypeOK
<1>3. window[c] \in [DOMAIN window[c] -> Copy] /\ DOMAIN window[c] \subseteq Id
  BY <1>2, Contents1
<1>4. [window[c][i] EXCEPT !.version = server[c][i] + 1] \in Copy
  BY <1>1, <1>3 DEF Copy
<1> QED
  BY <1>3, <1>4, Contents1

LEMMA DropChatsIn ==
    ASSUME NEW Q \in SUBSET Copy, Contents(Q), NEW P \in SUBSET Chat, DropChats(P)
    PROVE  file' \in [Chat -> MsgsIn(Q) \cup {None}]
<1>1. \A c \in Chat : window[c] # None => Saved(file[c], window[c]) \in MsgsIn(Q)
  BY SavedIn DEF Contents
<1>2. \A c \in Chat : LastLines(c) \in MsgsIn(Q) \cup {None}
  BY <1>1 DEF Contents, LastLines
<1> QED
  BY <1>2 DEF Contents, DropChats

LEMMA ContentsStep ==
    ASSUME TypeInv, [Next]_vars, NEW Q \in SUBSET Copy, Contents(Q), Fresh(Q)
    PROVE  Contents(Q)'
<1> DEFINE Held == MsgsIn(Q) \cup {None}
<1>1. /\ file \in [Chat -> Held] /\ window \in [Chat -> Held]
      /\ \A k \in DOMAIN jobs : jobs[k].kind = "history" => jobs[k].msgs \in MsgsIn(Q)
      /\ page \in Held \cup {Asked}
      /\ jobs \in Seq(Job) /\ self \in Account \cup {None}
      /\ None \notin MsgsIn(Q) /\ Asked \notin MsgsIn(Q) /\ Empty \in MsgsIn(Q)
      /\ dirty \in SUBSET Chat /\ listed \in SUBSET Chat
  BY MsgsTyped, LoadIn DEF TypeInv, TypeOK, Contents
<1>2. \A c \in Chat : Load(file[c]) \in MsgsIn(Q)
  BY <1>1, LoadIn
<1>3. \A c \in Chat : window[c] # None => Saved(file[c], window[c]) \in MsgsIn(Q)
  BY <1>1, SavedIn
<1>4. CASE Start
  BY <1>1, <1>2, <1>4 DEF Start, Archive, Contents, diskVars, syncVars
<1>5. CASE Quit
  BY <1>1, <1>3, <1>5, EmptySeq DEF Quit, Ends, ToWrite, Contents
<1>6. CASE Kill
  BY <1>1, <1>6 DEF Kill, Ends, Contents, diskVars
<1>7. CASE Flush
  <2>1. ASSUME NEW k \in DOMAIN jobs', jobs'[k].kind = "history"
        PROVE  jobs'[k].msgs \in MsgsIn(Q)
    <3>1. TypeOK
      BY DEF TypeInv
    <3>2. CASE k \in DOMAIN jobs
      BY <1>1, <1>7, <2>1, <3>1, <3>2, FlushJobs
    <3>3. CASE k \notin DOMAIN jobs
      <4>1. jobs'[k] = DialogsJob(listed) \/ \E c \in ToWrite : jobs'[k] = HistoryJob(c)
        BY <1>7, <3>1, <3>3, FlushJobs
      <4>2. PICK c \in ToWrite : jobs'[k] = HistoryJob(c)
        BY <2>1, <4>1 DEF DialogsJob
      <4> QED
        BY <1>1, <4>2 DEF HistoryJob, ToWrite
    <3> QED
      BY <3>2, <3>3
  <2> QED
    BY <1>1, <1>7, <2>1 DEF Flush, Contents, diskVars, syncVars
<1>8. ASSUME NEW k \in NextJob, jobs' = Without(k)
      PROVE  /\ \A n \in DOMAIN jobs' : jobs'[n].kind = "history" => jobs'[n].msgs \in MsgsIn(Q)
             /\ k \in DOMAIN jobs
  BY <1>1, <1>8, RestOfJobs
<1>9. CASE JobDone
  <2>1. PICK k \in NextJob :
            /\ jobs' = Without(k)
            /\ \/ /\ jobs[k].kind = "history"
                  /\ file' = [file EXCEPT ![jobs[k].chat] = Saved(@, jobs[k].msgs)]
               \/ UNCHANGED file
            /\ UNCHANGED <<uiVars, syncVars>>
    BY <1>9 DEF JobDone
  <2>2. k \in DOMAIN jobs
    BY <1>8, <2>1
  <2>3. jobs[k].kind = "history" => Saved(file[jobs[k].chat], jobs[k].msgs) \in MsgsIn(Q)
    <3>1. jobs[k].kind = "history" => jobs[k].chat \in Chat /\ jobs[k].msgs \in MsgsIn(Q)
      BY <1>1, <2>2, JobFields
    <3> QED
      BY <1>1, <3>1, SavedIn
  <2>4. file' \in [Chat -> Held]
    BY <1>1, <2>1, <2>3
  <2> QED
    BY <1>1, <1>8, <2>1, <2>4 DEF Contents, uiVars, syncVars
<1>10. CASE JobFails
  BY <1>1, <1>8, <1>10 DEF JobFails, Contents, diskVars, uiVars, syncVars
<1>11. ASSUME NEW a \in Account, Login(a) PROVE Contents(Q)'
  BY <1>1, <1>11 DEF Login, Contents, diskVars, uiVars, syncVars
<1>12. CASE Ready
  BY <1>1, <1>12 DEF Ready, DropCache, Archive, ChainDone, Contents, diskVars, uiVars, syncVars
<1>13. CASE Stopped
  BY <1>1, <1>13 DEF Stopped, Contents, diskVars, uiVars
<1>14. ASSUME NEW q, SyncNext(q) PROVE page' \in {page, Asked}
  BY <1>14 DEF SyncNext
<1>15. CASE SyncTick
  BY <1>1, <1>14, <1>15 DEF SyncTick, Contents
<1>16. ASSUME page # None PROVE self # None /\ cur # None /\ cur.chat \in Chat
  BY <1>16 DEF TypeInv, TypeOK
<1>17. CASE SyncServed
  <2>1. page # None
    BY <1>1, <1>17, CacheStoreAssumption DEF SyncServed
  <2>2. page' \in MsgsIn(Q)
    BY <1>16, <1>17, <2>1, FromServerIn DEF SyncServed
  <2> QED
    BY <1>1, <1>17, <2>2 DEF SyncServed, Contents, diskVars, uiVars
<1>18. CASE SyncDone
  <2>1. page \in MsgsIn(Q) /\ page # None
    BY <1>1, <1>18 DEF SyncDone
  <2>2. cur.chat \in Chat
    BY <1>16, <2>1
  <2>3. CASE window[cur.chat] # None
    <3>1. Merge(page, window[cur.chat]) \in MsgsIn(Q)
      BY <1>1, <2>1, <2>2, <2>3, MergeIn
    <3> QED
      BY <1>1, <1>18, <2>2, <2>3, <3>1 DEF SyncDone, Contents, diskVars
  <2>4. CASE window[cur.chat] = None
    <3>1. PICK j : j = [kind |-> "history", chat |-> cur.chat, msgs |-> page]
      OBVIOUS
    <3>2. j \in Job /\ j.msgs \in MsgsIn(Q)
      BY <2>1, <2>2, <3>1, MsgsTyped DEF Job
    <3>3. \A k \in DOMAIN Append(jobs, j) :
            Append(jobs, j)[k].kind = "history" => Append(jobs, j)[k].msgs \in MsgsIn(Q)
      <4>1. \A k \in DOMAIN Append(jobs, j) : k \in DOMAIN jobs \/ k = Len(jobs) + 1
        BY <1>1, <3>2, AppendJob, LenProperties
      <4> QED
        BY <1>1, <3>2, <4>1, AppendJob
    <3>4. jobs' \in {jobs, Append(jobs, j)}
      BY <1>18, <2>4, <3>1 DEF SyncDone
    <3>5. \A k \in DOMAIN jobs' : jobs'[k].kind = "history" => jobs'[k].msgs \in MsgsIn(Q)
      BY <1>1, <3>3, <3>4
    <3> QED
      BY <1>1, <1>18, <2>4, <3>5 DEF SyncDone, Contents, diskVars
  <2> QED
    BY <2>3, <2>4
<1>19. CASE SyncError
  BY <1>1, <1>19 DEF SyncError, Contents, diskVars, uiVars
<1>20. ASSUME NEW chats \in SUBSET Chat, jobs' = SaveDialogs(chats)
       PROVE  \A k \in DOMAIN jobs' : jobs'[k].kind = "history" => jobs'[k].msgs \in MsgsIn(Q)
  BY <1>1, <1>20, SaveDialogsJobs DEF DialogsJob
<1>21. ASSUME NEW fresh \in SUBSET Chat, Dialogs(fresh) PROVE Contents(Q)'
  <2>1. PICK P \in Pruned(fresh), recent \in SUBSET (listed \cup fresh) :
            /\ DropChats(P)
            /\ listed' = (listed \cup fresh) \ P
            /\ window' = Opened(recent, P)
            /\ SyncStart(P)
    BY <1>21 DEF Dialogs
  <2>2. P \in SUBSET Chat /\ listed' \in SUBSET Chat
    BY <1>1, <2>1 DEF Pruned
  <2>3. file' \in [Chat -> Held]
    BY <2>1, <2>2, DropChatsIn
  <2>4. window' \in [Chat -> Held]
    <3>1. \A c \in Chat : Bound(window[c], file'[c]) \in MsgsIn(Q)
      BY <1>1, <2>3, LoadIn DEF Bound
    <3> QED
      BY <1>1, <2>1, <3>1 DEF Opened
  <2>5. page' \in {page, Asked}
    BY <1>14, <2>1 DEF SyncStart
  <2>6. jobs' = SaveDialogs(listed')
    BY <1>21 DEF Dialogs
  <2> QED
    BY <1>1, <1>20, <2>2, <2>3, <2>4, <2>5, <2>6 DEF Contents
<1>22. ASSUME NEW c \in Chat, Leave(c) PROVE Contents(Q)'
  <2>1. file' \in [Chat -> Held]
    BY <1>22, DropChatsIn DEF Leave
  <2>2. listed' \in SUBSET Chat /\ jobs' = SaveDialogs(listed')
    BY <1>1, <1>22 DEF Leave
  <2> QED
    BY <1>1, <1>20, <1>22, <2>1, <2>2 DEF Leave, Contents
<1>23. ASSUME NEW c \in Chat, Post(c) PROVE Contents(Q)'
  <2>1. PICK m : m = [i \in {Len(server[c]) + 1} |-> [by |-> login, version |-> 0]]
    OBVIOUS
  <2>2. m \in MsgsIn(Q)
    <3>1. [by |-> login, version |-> 0] \in Q
      BY <1>23 DEF Post, Fresh
    <3>2. Len(server[c]) + 1 \in Id
      BY <1>23, ServerIds, CacheStoreAssumption DEF Post, Id
    <3>3. m \in [{Len(server[c]) + 1} -> Q] /\ {Len(server[c]) + 1} \in SUBSET Id
      BY <2>1, <3>1, <3>2
    <3> QED
      BY <3>3 DEF MsgsIn
  <2>3. Merge(Bound(window[c], file[c]), m) \in MsgsIn(Q)
    <3>1. Bound(window[c], file[c]) \in MsgsIn(Q)
      BY <1>1, <1>2 DEF Bound
    <3> QED
      BY <2>2, <3>1, MergeIn
  <2>4. window' = [window EXCEPT ![c] = Merge(Bound(@, file[c]), m)]
    BY <1>23, <2>1 DEF Post
  <2> QED
    BY <1>1, <1>23, <2>3, <2>4 DEF Post, Contents, diskVars, syncVars
<1>24. ASSUME NEW c \in Chat, Miss(c) PROVE Contents(Q)'
  BY <1>1, <1>24 DEF Miss, Contents, diskVars, uiVars, syncVars
<1>25. ASSUME NEW c \in Chat, Page(c) PROVE Contents(Q)'
  <2>1. FromServer(c, DOMAIN server[c]) \in MsgsIn(Q)
    BY <1>25, FromServerIn DEF Page
  <2>2. Merge(window[c], FromServer(c, DOMAIN server[c])) \in MsgsIn(Q)
    BY <1>1, <1>25, <2>1, MergeIn DEF Page
  <2> QED
    BY <1>1, <1>25, <2>2 DEF Page, Contents, diskVars, syncVars
<1>26. ASSUME NEW c \in Chat, Open(c) PROVE Contents(Q)'
  BY <1>1, <1>2, <1>26 DEF Open, Contents, diskVars, syncVars
<1>27. ASSUME NEW c \in Chat, Close(c) PROVE Contents(Q)'
  BY <1>1, <1>3, <1>27 DEF Close, Contents, syncVars
<1>28. ASSUME NEW c \in Chat, Clear(c) PROVE Contents(Q)'
  BY <1>1, <1>28 DEF Clear, Contents, diskVars, syncVars
<1>29. ASSUME NEW c \in Chat, NEW i \in Id, Edit(c, i) PROVE Contents(Q)'
  <2>1. CASE UNCHANGED window
    BY <1>1, <1>29, <2>1 DEF Edit, Contents, diskVars, syncVars
  <2>2. CASE /\ window[c] # None /\ i \in DOMAIN window[c]
             /\ window' = [window EXCEPT ![c][i].version = server[c][i] + 1]
    <3>1. server[c][i] + 1 \in 0 .. MaxVersion
      BY <1>29, ServerIds, CacheStoreAssumption DEF Edit
    <3>2. window[c] \in [DOMAIN window[c] -> Q] /\ DOMAIN window[c] \subseteq Id
      BY <1>1, <2>2, Contents1
    <3>3. [window[c][i] EXCEPT !.version = server[c][i] + 1] \in Q
      BY <1>29, <2>2, <3>1, <3>2 DEF Edit, Fresh
    <3>4. [window[c] EXCEPT ![i].version = server[c][i] + 1] \in MsgsIn(Q)
      BY <2>2, <3>2, <3>3, Contents1
    <3>5. window' = [window EXCEPT ![c] = [window[c] EXCEPT ![i].version = server[c][i] + 1]]
      BY <2>2
    <3> QED
      BY <1>1, <1>29, <3>4, <3>5 DEF Edit, Contents, diskVars, syncVars
  <2> QED
    BY <1>29, <2>1, <2>2 DEF Edit
<1>30. CASE UNCHANGED vars
  BY <1>1, <1>30 DEF vars, Contents
<1> QED
  BY <1>4, <1>5, <1>6, <1>7, <1>9, <1>10, <1>11, <1>12, <1>13, <1>15, <1>17, <1>18, <1>19, <1>21,
     <1>22, <1>23, <1>24, <1>25, <1>26, <1>27, <1>28, <1>29, <1>30
  DEF Next, Process, Network, Windows

-----------------------------------------------------------------------------
(* Type correctness.                                                       *)

LEMMA SpendTypes ==
    ASSUME TypeInv, NEW d \in Deed, Spend(d)
    PROVE  /\ left' \in [Deed -> Nat] /\ left[d] > 0 /\ left'[d] = left[d] - 1
           /\ \A x \in Deed : x # d => left'[x] = left[x]
           /\ \A x \in Deed : left'[x] <= plan.times[x]
<1>1. /\ left \in [Deed -> Nat] /\ left[d] > 0 /\ left' = [left EXCEPT ![d] = @ - 1]
      /\ plan.times \in [Deed -> Nat]
      /\ \A x \in Deed : left[x] <= plan.times[x]
  BY CacheStoreAssumption DEF TypeInv, TypeOK, Spend, Plan
<1>2. left' \in [Deed -> Nat] /\ left'[d] = left[d] - 1 /\ \A x \in Deed : x # d => left'[x] = left[x]
  BY <1>1
<1>3. \A x \in Deed : left'[x] <= plan.times[x]
  BY <1>1, <1>2
<1> QED
  BY <1>1, <1>2, <1>3

\* What may be left of the deeds after a step.
LEMMA LeftTypes ==
    ASSUME TypeInv, UNCHANGED left \/ \E d \in Deed : Spend(d)
    PROVE  left' \in [Deed -> Nat] /\ \A x \in Deed : left'[x] <= plan.times[x]
<1>1. CASE UNCHANGED left
  BY <1>1 DEF TypeInv, TypeOK
<1>2. CASE \E d \in Deed : Spend(d)
  BY <1>2, SpendTypes
<1> QED
  BY <1>1, <1>2

LEMMA PlanKept == [Next]_vars => plan' = plan /\ (UNCHANGED left \/ \E d \in Deed : Spend(d))
BY DEF Next, Process, Network, Windows, Start, Quit, Kill, Ends, Flush, JobDone, JobFails, Login, Ready,
       Stopped, Dialogs, SyncTick, SyncServed, SyncDone, SyncError, Leave, Post, Miss, Page, Open,
       Close, Clear, Edit, vars, Deed

\* A deed that is unspent after a step is not done by it, and was unspent before.
LEMMA UnspentBefore ==
    ASSUME TypeInv, [Next]_vars, NEW d \in Deed, Unspent(d)'
    PROVE  Unspent(d) /\ ~Spend(d)
<1>1. left'[d] = plan.times[d] /\ (UNCHANGED left \/ \E x \in Deed : Spend(x))
  BY PlanKept DEF Unspent
<1>2. /\ plan.times[d] \in Nat /\ left[d] <= plan.times[d]
      /\ left \in [Deed -> Nat]
  BY CacheStoreAssumption DEF TypeInv, TypeOK, Plan
<1>3. ASSUME NEW x \in Deed, Spend(x) PROVE left[d] = plan.times[d] /\ d # x
  BY <1>1, <1>2, <1>3, SpendTypes
<1>4. ~Spend(d)
  BY <1>3
<1> QED
  BY <1>1, <1>3, <1>4 DEF Unspent

LEMMA SyncMinTypes ==
    ASSUME NEW c \in Chat, file' \in [Chat -> Messages \cup {None}],
           window' \in [Chat -> Messages \cup {None}]
    PROVE  SyncMin(c) \in 0 .. MaxId
<1>1. Load(IF window'[c] # None THEN window'[c] ELSE file'[c]) \in MsgsIn(Copy)
  BY MsgsTyped, LoadIn
<1> QED
  BY <1>1, LastIdIn DEF SyncMin

\* After syncNext.
LEMMA SyncNextTypes ==
    ASSUME TypeInv, NEW q \in SUBSET Chat, SyncNext(q),
           file' \in [Chat -> Messages \cup {None}], window' \in [Chat -> Messages \cup {None}]
    PROVE  /\ queue' \in SUBSET Chat /\ queue' \subseteq q
           /\ cur' \in [chat : Chat, after : 0 .. MaxId] \cup {None}
           /\ (cur' = None) = (page' = None)
           /\ \/ cur' = cur /\ page' = page
              \/ cur = None /\ cur' # None /\ cur'.chat \in q /\ page' = Asked
<1>1. cur \in [chat : Chat, after : 0 .. MaxId] \cup {None} /\ (cur = None) = (page = None)
  BY DEF TypeInv, TypeOK
<1>2. CASE cur # None \/ q = {}
  BY <1>1, <1>2 DEF SyncNext
<1>3. CASE cur = None /\ q # {}
  <2>1. PICK c \in q : queue' = q \ {c} /\ cur' = [chat |-> c, after |-> SyncMin(c)] /\ page' = Asked
    BY <1>3 DEF SyncNext
  <2>2. SyncMin(c) \in 0 .. MaxId
    BY SyncMinTypes
  <2>3. Asked # None /\ cur' # None
    <3>1. cur' \in [chat : Chat, after : 0 .. MaxId]
      BY <2>1, <2>2
    <3> QED
      BY <3>1, CacheStoreAssumption
  <2> QED
    BY <1>3, <2>1, <2>2, <2>3
<1> QED
  BY <1>2, <1>3

LEMMA TypeInit == Init => TypeInv
<1> SUFFICES ASSUME Init PROVE TypeInv
  OBVIOUS
<1>1. plan \in Plans /\ left \in [Deed -> Nat] /\ \A d \in Deed : left[d] <= plan.times[d]
  BY CacheStoreAssumption DEF Init, Plan
<1>2. \A c \in Chat : server[c] = <<>>
  BY DEF Init
<1>3. server \in [Chat -> Seq(0 .. MaxVersion)] /\ \A c \in Chat : Len(server[c]) <= MaxId
  BY <1>2, EmptySeq, CacheStoreAssumption DEF Init
<1>4. jobs \in Seq(Job)
  BY EmptySeq DEF Init
<1>5. TypeOK
  BY <1>1, <1>3, <1>4 DEF Init, TypeOK
<1> QED
  BY <1>1, <1>3, <1>5 DEF Init, TypeInv, Idle

LEMMA TypeStep == TypeInv /\ [Next]_vars => TypeInv'
<1> SUFFICES ASSUME TypeInv, [Next]_vars PROVE TypeInv'
  OBVIOUS
<1>1. Contents(Copy)'
  <2>1. Contents(Copy)
    BY JobFields, MsgsTyped DEF TypeInv, TypeOK, Contents
  <2> QED
    BY <2>1, FreshCopy, ContentsStep
<1>2. /\ file' \in [Chat -> Messages \cup {None}] /\ window' \in [Chat -> Messages \cup {None}]
      /\ page' \in Messages \cup {None, Asked}
  BY <1>1, MsgsTyped DEF Contents
<1>3. /\ plan \in Plans
      /\ server \in [Chat -> Seq(0 .. MaxVersion)] /\ \A c \in Chat : Len(server[c]) <= MaxId
      /\ dialogs \in [self : Account, chats : SUBSET Chat] \cup {None}
      /\ up \in BOOLEAN /\ jobs \in Seq(Job)
      /\ login \in Account \cup {None} /\ self \in Account \cup {None}
      /\ account \in Account \cup {None} /\ cacheSelf \in Account \cup {None}
      /\ listed \in SUBSET Chat /\ dirty \in SUBSET Chat /\ queue \in SUBSET Chat /\ gone \in SUBSET Chat
      /\ dialogsDirty \in BOOLEAN /\ seenDialogs \in BOOLEAN /\ unlisted \in BOOLEAN
      /\ cur \in [chat : Chat, after : 0 .. MaxId] \cup {None}
      /\ page \in Messages \cup {None, Asked} /\ window \in [Chat -> Messages \cup {None}]
      /\ (cur = None) = (page = None)
      /\ cur # None \/ queue # {} \/ seenDialogs => self # None
      /\ self # None => self = login /\ account = self
      /\ login # None => up
      /\ ~up => Idle
  BY DEF TypeInv, TypeOK
<1>4. None # Asked /\ None \notin Messages /\ Asked \notin Messages /\ None \notin Account
  BY CacheStoreAssumption
<1>5. UNCHANGED left \/ (\E d \in Deed : Spend(d)) => left' \in [Deed -> Nat] /\ \A x \in Deed : left'[x] <= plan.times[x]
  BY LeftTypes
<1>6. CASE Start
  <2>1. left' \in [Deed -> Nat] /\ \A x \in Deed : left'[x] <= plan.times[x]
    BY <1>5, <1>6 DEF Start, Deed
  <2>2. jobs' \in Seq(Job) /\ plan' = plan /\ server' = server /\ up'
    BY <1>3, <1>6 DEF Start
  <2>3. dialogs' \in [self : Account, chats : SUBSET Chat] \cup {None}
    BY <1>3, <1>6 DEF Start, Archive, diskVars
  <2>4. cacheSelf' \in Account \cup {None} /\ listed' \in SUBSET Chat
    BY <1>3, <1>6 DEF Start, NoDialogs
  <2> QED
    BY <1>2, <1>3, <1>6, <2>1, <2>2, <2>3, <2>4 DEF Start, syncVars, TypeInv, TypeOK
<1>7. ASSUME Ends, UNCHANGED left \/ (\E d \in Deed : Spend(d)),
             dialogs' \in [self : Account, chats : SUBSET Chat] \cup {None}
      PROVE  TypeInv'
  BY <1>2, <1>3, <1>5, <1>7, EmptySeq DEF Ends, TypeInv, TypeOK, Idle
<1>8. CASE Quit
  BY <1>3, <1>7, <1>8 DEF Quit
<1>9. CASE Kill
  BY <1>3, <1>7, <1>9 DEF Kill, Deed, diskVars
<1>10. CASE Flush
  <2>1. jobs' \in Seq(Job)
    BY <1>10, FlushJobs DEF TypeInv
  <2> QED
    BY <1>2, <1>3, <1>5, <1>10, <2>1 DEF Flush, diskVars, sessVars, syncVars, TypeInv, TypeOK
<1>11. CASE JobDone
  <2>1. PICK k \in NextJob :
            /\ jobs' = Without(k)
            /\ \/ UNCHANGED dialogs
               \/ /\ jobs[k].kind = "dialogs"
                  /\ dialogs' = [self |-> jobs[k].self, chats |-> jobs[k].chats]
    BY <1>11 DEF JobDone
  <2>2. jobs' \in Seq(Job) /\ k \in DOMAIN jobs
    BY <1>3, <2>1, RestOfJobs
  <2>3. dialogs' \in [self : Account, chats : SUBSET Chat] \cup {None}
    BY <1>3, <2>1, <2>2, JobFields
  <2>4. up
    BY <1>3, <2>1 DEF NextJob, Idle
  <2> QED
    BY <1>2, <1>3, <1>5, <1>11, <2>2, <2>3, <2>4
    DEF JobDone, sessVars, uiVars, syncVars, TypeInv, TypeOK
<1>12. CASE JobFails
  <2>1. jobs' \in Seq(Job)
    BY <1>3, <1>12, RestOfJobs DEF JobFails
  <2>2. left' \in [Deed -> Nat] /\ \A x \in Deed : left'[x] <= plan.times[x]
    BY <1>5, <1>12 DEF JobFails, Deed
  <2>3. up
    BY <1>3, <1>12 DEF JobFails, NextJob, Idle
  <2> QED
    BY <1>2, <1>3, <1>12, <2>1, <2>2, <2>3
    DEF JobFails, diskVars, sessVars, uiVars, syncVars, TypeInv, TypeOK
<1>13. ASSUME NEW a \in Account, Login(a) PROVE TypeInv'
  <2>1. left' \in [Deed -> Nat] /\ \A x \in Deed : left'[x] <= plan.times[x]
    BY <1>5, <1>13 DEF Login, Deed
  <2> QED
    BY <1>2, <1>3, <1>13, <2>1 DEF Login, diskVars, uiVars, syncVars, TypeInv, TypeOK
<1>14. CASE Ready
  <2>1. dialogs' \in [self : Account, chats : SUBSET Chat] \cup {None}
    BY <1>3, <1>14 DEF Ready, DropCache, Archive, diskVars
  <2> QED
    BY <1>2, <1>3, <1>5, <1>14, <2>1
    DEF Ready, DropCache, SyncForgotten, diskVars, uiVars, syncVars, TypeInv, TypeOK
<1>15. CASE Stopped
  BY <1>2, <1>3, <1>5, <1>15 DEF Stopped, SyncForgotten, diskVars, uiVars, TypeInv, TypeOK
<1>16. ASSUME NEW q \in SUBSET Chat, SyncNext(q)
       PROVE  /\ queue' \in SUBSET Chat /\ queue' \subseteq q
              /\ cur' \in [chat : Chat, after : 0 .. MaxId] \cup {None}
              /\ (cur' = None) = (page' = None)
              /\ cur' # None => cur' = cur \/ q # {}
  BY <1>2, <1>16, SyncNextTypes
<1>17. CASE SyncTick
  BY <1>2, <1>3, <1>5, <1>16, <1>17 DEF SyncTick, sessVars, Idle, TypeInv, TypeOK
<1>18. CASE SyncServed
  <2>1. up
    BY <1>3, <1>4, <1>18 DEF SyncServed
  <2>2. page' # None
    <3>1. cur # None /\ cur.chat \in Chat
      BY <1>3, <1>4, <1>18 DEF SyncServed
    <3>2. page' \in MsgsIn(Copy)
      <4>1. self # None
        BY <1>3, <3>1
      <4> QED
        BY <1>18, <3>1, <4>1, FreshCopy, FromServerIn DEF SyncServed
    <3> QED
      BY <1>4, <3>2, MsgsTyped
  <2> QED
    BY <1>2, <1>3, <1>4, <1>5, <1>18, <2>1, <2>2
    DEF SyncServed, diskVars, sessVars, uiVars, TypeInv, TypeOK
<1>19. CASE SyncDone
  <2>1. cur # None /\ cur.chat \in Chat /\ up /\ page \in Messages
    BY <1>3, <1>19 DEF SyncDone
  <2>2. jobs' \in Seq(Job)
    <3>1. [kind |-> "history", chat |-> cur.chat, msgs |-> page] \in Job
      BY <2>1 DEF Job
    <3> QED
      BY <1>3, <1>19, <3>1, AppendJob DEF SyncDone
  <2>3. dirty' \in SUBSET Chat
    BY <1>3, <1>19, <2>1 DEF SyncDone, MarkDirty
  <2> QED
    BY <1>2, <1>3, <1>5, <1>19, <2>1, <2>2, <2>3
    DEF SyncDone, diskVars, sessVars, TypeInv, TypeOK
<1>20. CASE SyncError
  <2>1. left' \in [Deed -> Nat] /\ \A x \in Deed : left'[x] <= plan.times[x]
    BY <1>5, <1>20 DEF SyncError, Deed
  <2> QED
    BY <1>2, <1>3, <1>20, <2>1 DEF SyncError, Idle, diskVars, sessVars, uiVars, TypeInv, TypeOK
<1>21. ASSUME NEW fresh \in SUBSET Chat, Dialogs(fresh) PROVE TypeInv'
  <2>1. left' \in [Deed -> Nat] /\ \A x \in Deed : left'[x] <= plan.times[x]
    BY <1>5, <1>21 DEF Dialogs, Deed
  <2>2. PICK P \in Pruned(fresh) :
            /\ dirty' = dirty \ P
            /\ gone' = GoneWith(P) \ fresh
            /\ listed' = (listed \cup fresh) \ P
            /\ SyncStart(P)
    BY <1>21 DEF Dialogs, DropChats
  <2>3. P \in SUBSET Chat /\ listed' \in SUBSET Chat /\ dirty' \in SUBSET Chat /\ gone' \in SUBSET Chat
    BY <1>3, <2>2 DEF Pruned, GoneWith
  <2>4. jobs' \in Seq(Job)
    BY <1>3, <1>21, <2>3, SaveDialogsJobs DEF Dialogs
  <2>5. /\ queue' \in SUBSET Chat
        /\ cur' \in [chat : Chat, after : 0 .. MaxId] \cup {None}
        /\ (cur' = None) = (page' = None)
    BY <1>3, <1>16, <2>2, <2>3 DEF SyncStart, StillQueued
  <2>6. up
    BY <1>3, <1>21 DEF Dialogs
  <2> QED
    BY <1>2, <1>3, <1>21, <2>1, <2>3, <2>4, <2>5, <2>6 DEF Dialogs, TypeInv, TypeOK
<1>22. ASSUME NEW c \in Chat, Leave(c) PROVE TypeInv'
  <2>1. left' \in [Deed -> Nat] /\ \A x \in Deed : left'[x] <= plan.times[x]
    BY <1>5, <1>22 DEF Leave, Deed
  <2>2. listed' \in SUBSET Chat /\ dirty' \in SUBSET Chat /\ gone' \in SUBSET Chat /\ queue' \in SUBSET queue
    BY <1>3, <1>22 DEF Leave, DropChats, GoneWith, StillQueued
  <2>3. jobs' \in Seq(Job)
    BY <1>3, <1>22, <2>2, SaveDialogsJobs DEF Leave
  <2>4. up
    BY <1>3, <1>22 DEF Leave, Idle
  <2> QED
    BY <1>2, <1>3, <1>22, <2>1, <2>2, <2>3, <2>4 DEF Leave, sessVars, TypeInv, TypeOK
<1>23. ASSUME NEW c \in Chat, server' = [server EXCEPT ![c] = Append(@, 0)], Len(server[c]) < MaxId
       PROVE  /\ server' \in [Chat -> Seq(0 .. MaxVersion)]
              /\ \A x \in Chat : Len(server'[x]) <= MaxId
  <2>1. server[c] \in Seq(0 .. MaxVersion) /\ Len(server[c]) \in Nat /\ 0 \in 0 .. MaxVersion
    BY ServerIds, CacheStoreAssumption
  <2>2. Append(server[c], 0) \in Seq(0 .. MaxVersion) /\ Len(Append(server[c], 0)) = Len(server[c]) + 1
    BY <2>1
  <2>3. Len(server[c]) + 1 <= MaxId
    BY <1>23, <2>1, CacheStoreAssumption
  <2> QED
    BY <1>3, <1>23, <2>2, <2>3
<1>24. ASSUME NEW c \in Chat, Post(c) PROVE TypeInv'
  <2>1. left' \in [Deed -> Nat] /\ \A x \in Deed : left'[x] <= plan.times[x]
    BY <1>5, <1>24 DEF Post, Deed
  <2>2. server' \in [Chat -> Seq(0 .. MaxVersion)] /\ \A x \in Chat : Len(server'[x]) <= MaxId
    BY <1>23, <1>24 DEF Post
  <2>3. listed' \in SUBSET Chat /\ dirty' \in SUBSET Chat /\ gone' \in SUBSET Chat
    BY <1>3, <1>24 DEF Post, MarkDirty
  <2> QED
    BY <1>2, <1>3, <1>24, <2>1, <2>2, <2>3 DEF Post, diskVars, sessVars, syncVars, TypeInv, TypeOK
<1>25. ASSUME NEW c \in Chat, Miss(c) PROVE TypeInv'
  <2>1. left' \in [Deed -> Nat] /\ \A x \in Deed : left'[x] <= plan.times[x]
    BY <1>5, <1>25 DEF Miss, Deed
  <2>2. server' \in [Chat -> Seq(0 .. MaxVersion)] /\ \A x \in Chat : Len(server'[x]) <= MaxId
    BY <1>23, <1>25 DEF Miss
  <2>3. ~up => Idle'
    BY <1>3, <1>25 DEF Miss, Idle, sessVars, uiVars, syncVars
  <2> QED
    BY <1>2, <1>3, <1>25, <2>1, <2>2, <2>3
    DEF Miss, diskVars, sessVars, uiVars, syncVars, TypeInv, TypeOK
<1>26. ASSUME NEW c \in Chat, Page(c) PROVE TypeInv'
  <2>1. left' \in [Deed -> Nat] /\ \A x \in Deed : left'[x] <= plan.times[x]
    BY <1>5, <1>26 DEF Page, Deed
  <2> QED
    BY <1>2, <1>3, <1>26, <2>1 DEF Page, MarkDirty, diskVars, sessVars, syncVars, TypeInv, TypeOK
<1>27. ASSUME NEW c \in Chat, Open(c) PROVE TypeInv'
  <2>1. up
    BY <1>3, <1>27 DEF Open, Idle
  <2> QED
    BY <1>2, <1>3, <1>5, <1>27, <2>1 DEF Open, diskVars, sessVars, syncVars, TypeInv, TypeOK
<1>28. ASSUME NEW c \in Chat, Close(c) \/ Clear(c) PROVE TypeInv'
  <2>1. left' \in [Deed -> Nat] /\ \A x \in Deed : left'[x] <= plan.times[x]
    BY <1>5, <1>28 DEF Close, Clear, Deed
  <2>2. up
    BY <1>3, <1>28 DEF Close, Clear, Idle
  <2>3. dirty' \in SUBSET Chat
    BY <1>3, <1>28 DEF Close, Clear
  <2>4. CASE Close(c)
    BY <1>2, <1>3, <2>1, <2>2, <2>3, <2>4 DEF Close, sessVars, syncVars, TypeInv, TypeOK
  <2>5. CASE Clear(c)
    BY <1>2, <1>3, <2>1, <2>2, <2>3, <2>5 DEF Clear, diskVars, sessVars, syncVars, TypeInv, TypeOK
  <2> QED
    BY <1>28, <2>4, <2>5
<1>29. ASSUME NEW c \in Chat, NEW i \in Id, Edit(c, i) PROVE TypeInv'
  <2>1. left' \in [Deed -> Nat] /\ \A x \in Deed : left'[x] <= plan.times[x]
    BY <1>5, <1>29 DEF Edit, Deed
  <2>2. server' \in [Chat -> Seq(0 .. MaxVersion)] /\ \A x \in Chat : Len(server'[x]) <= MaxId
    <3>1. server[c] \in Seq(0 .. MaxVersion) /\ i \in 1 .. Len(server[c])
      BY <1>29, ServerIds DEF Edit
    <3>2. server[c][i] + 1 \in 0 .. MaxVersion
      BY <1>29, ServerIds, CacheStoreAssumption DEF Edit
    <3>3. PICK t : t = [server[c] EXCEPT ![i] = server[c][i] + 1]
      OBVIOUS
    <3>4. t \in Seq(0 .. MaxVersion) /\ Len(t) = Len(server[c])
      BY <3>1, <3>2, <3>3, ExceptSeq
    <3>5. server' = [server EXCEPT ![c] = t]
      BY <1>29, <3>3 DEF Edit
    <3> QED
      BY <1>3, <3>4, <3>5
  <2>3. dirty' \in SUBSET Chat
    BY <1>3, <1>29 DEF Edit, MarkDirty
  <2>4. ~up => Idle'
    BY <1>3, <1>29 DEF Edit, Idle, sessVars, syncVars
  <2> QED
    BY <1>2, <1>3, <1>29, <2>1, <2>2, <2>3, <2>4
    DEF Edit, diskVars, sessVars, syncVars, TypeInv, TypeOK
<1>30. CASE UNCHANGED vars
  BY <1>30 DEF vars, TypeInv, TypeOK, Idle
<1> QED
  BY <1>6, <1>8, <1>9, <1>10, <1>11, <1>12, <1>13, <1>14, <1>15, <1>17, <1>18, <1>19, <1>20, <1>21,
     <1>22, <1>24, <1>25, <1>26, <1>27, <1>28, <1>29, <1>30
  DEF Next, Process, Network, Windows

\* The cache keeps its types.  A chat of the sync is only asked for while the
\* network knows us, and a process that is not there holds nothing.
THEOREM CacheTyped == Spec => []TypeInv
<1> QED
  BY TypeInit, TypeStep, PTL DEF Spec

-----------------------------------------------------------------------------
(* What is gone stays gone.                                                *)

\* Nothing of a chat that is gone, where the server keeps the history: no
\* file, no window, no entry, no mark, no place in the sync, no write.
GoneInv ==
    net.history => \A c \in gone :
        /\ file[c] = None /\ window[c] = None
        /\ c \notin listed /\ c \notin dirty /\ c \notin queue
        /\ cur # None => cur.chat # c
        /\ \A k \in DOMAIN jobs : jobs[k].kind = "history" => jobs[k].chat # c

LEMMA GoneStep == TypeInv /\ GoneInv /\ [Next]_vars => GoneInv'
<1> SUFFICES ASSUME TypeInv, GoneInv, [Next]_vars PROVE GoneInv'
  OBVIOUS
<1>1. plan' = plan
  BY PlanKept
<1> SUFFICES ASSUME net.history PROVE GoneInv'
  BY <1>1 DEF GoneInv, net
<1>2. /\ \A c \in gone : /\ file[c] = None /\ window[c] = None
                         /\ c \notin listed /\ c \notin dirty /\ c \notin queue
                         /\ cur # None => cur.chat # c
                         /\ \A k \in DOMAIN jobs : jobs[k].kind = "history" => jobs[k].chat # c
      /\ gone \in SUBSET Chat /\ listed \in SUBSET Chat /\ dirty \in SUBSET Chat
      /\ jobs \in Seq(Job) /\ self \in Account \cup {None}
      /\ file \in [Chat -> Messages \cup {None}] /\ window \in [Chat -> Messages \cup {None}]
      /\ cur \in [chat : Chat, after : 0 .. MaxId] \cup {None}
      /\ (cur = None) = (page = None)
      /\ ~up => Idle
  BY DEF GoneInv, TypeInv, TypeOK
<1>3. CASE Start
  <2>1. gone' = {}
    BY <1>2, <1>3 DEF Start, Idle
  <2> QED
    BY <2>1 DEF GoneInv
<1>4. CASE Quit \/ Kill
  BY <1>4 DEF Quit, Kill, Ends, GoneInv
<1>5. CASE Flush
  <2>1. ASSUME NEW c \in gone, NEW k \in DOMAIN jobs', jobs'[k].kind = "history"
        PROVE  jobs'[k].chat # c
    <3>1. TypeOK
      BY DEF TypeInv
    <3>2. CASE k \in DOMAIN jobs
      BY <1>2, <1>5, <2>1, <3>1, <3>2, FlushJobs
    <3>3. CASE k \notin DOMAIN jobs
      <4>1. jobs'[k] = DialogsJob(listed) \/ \E x \in ToWrite : jobs'[k] = HistoryJob(x)
        BY <1>5, <3>1, <3>3, FlushJobs
      <4> QED
        BY <1>2, <2>1, <4>1 DEF DialogsJob, HistoryJob, ToWrite
    <3> QED
      BY <3>2, <3>3
  <2> QED
    BY <1>2, <1>5, <2>1 DEF Flush, diskVars, syncVars, GoneInv
<1>6. ASSUME NEW k \in NextJob, jobs' = Without(k)
      PROVE  /\ \A c \in gone : \A n \in DOMAIN jobs' : jobs'[n].kind = "history" => jobs'[n].chat # c
             /\ k \in DOMAIN jobs
  BY <1>2, <1>6, RestOfJobs
<1>7. CASE JobDone
  <2>1. PICK k \in NextJob :
            /\ jobs' = Without(k)
            /\ \/ /\ jobs[k].kind = "history"
                  /\ file' = [file EXCEPT ![jobs[k].chat] = Saved(@, jobs[k].msgs)]
               \/ UNCHANGED file
    BY <1>7 DEF JobDone
  <2>2. \A c \in gone : file'[c] = None
    BY <1>2, <1>6, <2>1
  <2> QED
    BY <1>2, <1>6, <1>7, <2>1, <2>2 DEF JobDone, uiVars, syncVars, GoneInv
<1>8. CASE JobFails
  BY <1>2, <1>6, <1>8 DEF JobFails, diskVars, uiVars, syncVars, GoneInv
<1>9. ASSUME NEW a \in Account, Login(a) PROVE GoneInv'
  BY <1>2, <1>9 DEF Login, diskVars, uiVars, syncVars, GoneInv
<1>10. CASE Ready
  BY <1>2, <1>10 DEF Ready, DropCache, diskVars, uiVars, syncVars, GoneInv
<1>11. CASE Stopped
  BY <1>2, <1>11 DEF Stopped, SyncForgotten, diskVars, uiVars, GoneInv
<1>12. CASE SyncTick
  BY <1>2, <1>12 DEF SyncTick, SyncNext, GoneInv
<1>13. CASE SyncServed
  BY <1>2, <1>13 DEF SyncServed, diskVars, uiVars, GoneInv
<1>14. CASE SyncDone
  <2>1. cur # None /\ cur.chat \in Chat /\ page \in Messages
    BY <1>2, <1>14 DEF SyncDone, TypeInv, TypeOK
  <2>2. PICK j : j = [kind |-> "history", chat |-> cur.chat, msgs |-> page]
    OBVIOUS
  <2>3. \A n \in DOMAIN Append(jobs, j) :
            (n \in DOMAIN jobs /\ Append(jobs, j)[n] = jobs[n]) \/ Append(jobs, j)[n] = j
    <3>1. j \in Job
      BY <2>1, <2>2 DEF Job
    <3>2. \A n \in DOMAIN Append(jobs, j) : n \in DOMAIN jobs \/ n = Len(jobs) + 1
      BY <1>2, <3>1, AppendJob, LenProperties
    <3> QED
      BY <1>2, <3>1, <3>2, AppendJob
  <2>4. jobs' = jobs \/ jobs' = Append(jobs, j)
    BY <1>14, <2>2 DEF SyncDone
  <2>5. ASSUME NEW c \in gone, NEW n \in DOMAIN jobs', jobs'[n].kind = "history"
        PROVE  jobs'[n].chat # c
    <3>1. j.chat # c
      BY <1>2, <2>1, <2>2
    <3>2. (n \in DOMAIN jobs /\ jobs'[n] = jobs[n]) \/ jobs'[n] = j
      BY <2>3, <2>4
    <3> QED
      BY <1>2, <2>5, <3>1, <3>2
  <2> QED
    BY <1>2, <1>14, <2>1, <2>5 DEF SyncDone, MarkDirty, diskVars, GoneInv
<1>15. CASE SyncError
  BY <1>2, <1>15 DEF SyncError, diskVars, uiVars, GoneInv
<1>16. ASSUME NEW P \in SUBSET Chat, DropChats(P), jobs' = SaveDialogs(listed'), listed' \in SUBSET Chat
       PROVE  /\ \A c \in Chat : file'[c] = IF c \in P THEN None ELSE file[c]
              /\ dirty' = dirty \ P
              /\ \A c \in gone : \A n \in DOMAIN jobs' : jobs'[n].kind = "history" => jobs'[n].chat # c
              /\ P # {} => \A n \in DOMAIN jobs' : jobs'[n].kind # "history"
  <2>1. /\ \A n \in DOMAIN jobs' : n \in DOMAIN jobs \/ jobs'[n].kind = "dialogs"
        /\ \A n \in DOMAIN jobs : jobs'[n] = jobs[n]
    BY <1>2, <1>16, SaveDialogsJobs DEF DialogsJob
  <2>2. P # {} => jobs = <<>>
    BY <1>16 DEF DropChats, ChainDone
  <2> QED
    BY <1>2, <1>16, <2>1, <2>2 DEF DropChats
<1>17. ASSUME NEW c \in Chat, Leave(c) PROVE GoneInv'
  <2>1. listed' \in SUBSET Chat
    BY <1>2, <1>17 DEF Leave
  <2>2. /\ \A x \in Chat : file'[x] = IF x \in {c} THEN None ELSE file[x]
        /\ dirty' = dirty \ {c}
        /\ \A n \in DOMAIN jobs' : jobs'[n].kind # "history"
    BY <1>16, <1>17, <2>1 DEF Leave
  <2> QED
    BY <1>2, <1>17, <2>2 DEF Leave, GoneWith, StillQueued, GoneInv
<1>18. ASSUME NEW fresh \in SUBSET Chat, Dialogs(fresh) PROVE GoneInv'
  <2>1. PICK P \in Pruned(fresh), recent \in SUBSET (listed \cup fresh) :
            /\ DropChats(P)
            /\ gone' = GoneWith(P) \ fresh
            /\ listed' = (listed \cup fresh) \ P
            /\ recent \subseteq listed'
            /\ window' = Opened(recent, P)
            /\ SyncStart(P)
    BY <1>18 DEF Dialogs
  <2>2. P \in SUBSET Chat /\ P \subseteq listed \ fresh /\ listed' \in SUBSET Chat
    BY <1>2, <2>1 DEF Pruned
  <2>3. /\ \A c \in Chat : file'[c] = IF c \in P THEN None ELSE file[c]
        /\ dirty' = dirty \ P
        /\ \A c \in gone : \A n \in DOMAIN jobs' : jobs'[n].kind = "history" => jobs'[n].chat # c
        /\ P # {} => \A n \in DOMAIN jobs' : jobs'[n].kind # "history"
    BY <1>16, <1>18, <2>1, <2>2 DEF Dialogs
  <2>4. ASSUME NEW c \in gone'
        PROVE  /\ c \in Chat /\ c \notin listed'
               /\ c \in P \/ c \in gone
               /\ cur # None => cur.chat # c
    BY <1>2, <2>1, <2>2, <2>4 DEF GoneWith
  <2>5. ASSUME NEW c \in gone'
        PROVE  /\ file'[c] = None /\ window'[c] = None /\ c \notin dirty'
               /\ \A n \in DOMAIN jobs' : jobs'[n].kind = "history" => jobs'[n].chat # c
    BY <1>2, <2>1, <2>3, <2>4 DEF Opened
  <2>6. ASSUME NEW c \in gone'
        PROVE  c \notin queue' /\ (cur' # None => cur'.chat # c)
    <3>1. c \notin StillQueued(P)
      BY <1>2, <2>4 DEF StillQueued
    <3>2. ASSUME NEW q, SyncNext(q), c \notin q
          PROVE  c \notin queue' /\ (cur' # None => cur'.chat # c)
      BY <2>4, <3>2 DEF SyncNext
    <3> QED
      BY <2>1, <2>4, <3>1, <3>2 DEF SyncStart
  <2> QED
    BY <2>4, <2>5, <2>6 DEF GoneInv
<1>19. ASSUME NEW c \in Chat, Post(c) PROVE GoneInv'
  BY <1>2, <1>19 DEF Post, MarkDirty, diskVars, syncVars, GoneInv
<1>20. ASSUME NEW c \in Chat, Miss(c) PROVE GoneInv'
  BY <1>2, <1>20 DEF Miss, diskVars, uiVars, syncVars, GoneInv
<1>21. ASSUME NEW c \in Chat, Page(c) PROVE GoneInv'
  BY <1>2, <1>21 DEF Page, MarkDirty, diskVars, syncVars, GoneInv
<1>22. ASSUME NEW c \in Chat, Open(c) PROVE GoneInv'
  BY <1>2, <1>22 DEF Open, diskVars, syncVars, GoneInv
<1>23. ASSUME NEW c \in Chat, Close(c) PROVE GoneInv'
  BY <1>2, <1>23 DEF Close, syncVars, GoneInv
<1>24. ASSUME NEW c \in Chat, Clear(c) PROVE GoneInv'
  BY <1>2, <1>24 DEF Clear, diskVars, syncVars, GoneInv
<1>25. ASSUME NEW c \in Chat, NEW i \in Id, Edit(c, i) PROVE GoneInv'
  BY <1>2, <1>25 DEF Edit, MarkDirty, diskVars, syncVars, GoneInv
<1>26. CASE UNCHANGED vars
  BY <1>2, <1>26 DEF vars, GoneInv
<1> QED
  BY <1>3, <1>4, <1>5, <1>7, <1>8, <1>9, <1>10, <1>11, <1>12, <1>13, <1>14, <1>15, <1>17, <1>18, <1>19,
     <1>20, <1>21, <1>22, <1>23, <1>24, <1>25, <1>26
  DEF Next, Process, Network, Windows

-----------------------------------------------------------------------------
(* Whose messages the cache holds.                                         *)

\* The copies an account read.
Own(w) == {m \in Copy : m.by = w}

\* The account the windows and the files belong to, while the process runs.
Whose == IF self # None THEN self ELSE IF account # None THEN account ELSE cacheSelf

\* The account is in dialogs.gob, or in a write that waits.
Named ==
    \/ dialogs # None /\ dialogs.self = Whose
    \/ \E k \in DOMAIN jobs : jobs[k].kind = "dialogs"

\* The behaviours OwnHistory is about.
Alone == net.history /\ ~net.early /\ Unspent("kill") /\ Unspent("fail") /\ ~unlisted

\* While the process runs, all it holds is of one account, which is named where
\* the next start looks for it, or will be before the process ends.
OwnInv ==
    Alone =>
        /\ up => /\ Contents(Own(Whose))
                 /\ \A k \in DOMAIN jobs : jobs[k].kind = "dialogs" => jobs[k].self = account
                 /\ NoDialogs \/ Named \/ (self # None /\ dialogsDirty)
                 /\ seenDialogs => Named
        /\ ~up => NoDialogs \/ Contents(Own(dialogs.self))

LEMMA AloneBefore == TypeInv /\ [Next]_vars /\ Alone' => Alone
<1> SUFFICES ASSUME TypeInv, [Next]_vars, Alone' PROVE Alone
  OBVIOUS
<1>1. unlisted' = unlisted \/ unlisted' = (unlisted \/ (self # None /\ ~seenDialogs))
  BY DEF Next, Process, Network, Windows, Start, Quit, Kill, Ends, Flush, JobDone, JobFails, Login, Ready,
         Stopped, Dialogs, SyncTick, SyncServed, SyncDone, SyncError, Leave, Post, Miss, Page, Open,
         Close, Clear, Edit, vars
<1>2. ~unlisted
  BY <1>1 DEF Alone, TypeInv, TypeOK
<1>3. net.history /\ ~net.early
  BY PlanKept DEF Alone, net
<1>4. Unspent("kill") /\ Unspent("fail")
  <2>1. "kill" \in Deed /\ "fail" \in Deed
    BY DEF Deed
  <2> QED
    BY <2>1, UnspentBefore DEF Alone
<1> QED
  BY <1>2, <1>3, <1>4 DEF Alone

LEMMA ContentsMore ==
    ASSUME NEW Q, NEW R, Q \subseteq R, Contents(Q)
    PROVE  Contents(R)
<1>1. MsgsIn(Q) \subseteq MsgsIn(R)
  BY DEF MsgsIn
<1> QED
  BY <1>1 DEF Contents

\* A step of a process that knows the account of its session, or reads nothing
\* from the server, keeps the content of one account.
LEMMA OwnKept ==
    ASSUME TypeInv, [Next]_vars, Alone, NEW w, Contents(Own(w)), self # None => self = w
    PROVE  Contents(Own(w))'
<1>1. self # None => login = w
  BY DEF TypeInv
<1>2. login \in Account \cup {None}
  BY DEF TypeInv, TypeOK
<1>3. \A c \in Chat : \A i \in DOMAIN server[c] : server[c][i] \in 0 .. MaxVersion
  BY ServerIds
<1>4. login # None /\ self # None =>
        /\ [by |-> login, version |-> 0] \in Own(w)
        /\ \A c \in Chat : \A i \in DOMAIN server[c] :
            [by |-> login, version |-> server[c][i]] \in Own(w)
  BY <1>1, <1>2, <1>3, CacheStoreAssumption DEF Own, Copy
<1>5. \A m \in Own(w), v \in 0 .. MaxVersion : [m EXCEPT !.version = v] \in Own(w)
  BY DEF Own, Copy
<1>6. Fresh(Own(w))
  BY <1>4, <1>5 DEF Fresh, Alone
<1> QED
  BY <1>6, ContentsStep DEF Own

LEMMA OwnStep == TypeInv /\ OwnInv /\ [Next]_vars => OwnInv'
<1> SUFFICES ASSUME TypeInv, OwnInv, [Next]_vars, Alone' PROVE OwnInv'
  BY DEF OwnInv
<1>1. Alone
  BY AloneBefore
<1>2. /\ up => /\ Contents(Own(Whose))
               /\ \A k \in DOMAIN jobs : jobs[k].kind = "dialogs" => jobs[k].self = account
               /\ NoDialogs \/ Named \/ (self # None /\ dialogsDirty)
               /\ seenDialogs => Named
      /\ ~up => NoDialogs \/ Contents(Own(dialogs.self))
  BY <1>1 DEF OwnInv
<1>3. /\ jobs \in Seq(Job) /\ up \in BOOLEAN
      /\ dialogs \in [self : Account, chats : SUBSET Chat] \cup {None}
      /\ login \in Account \cup {None} /\ self \in Account \cup {None}
      /\ account \in Account \cup {None} /\ cacheSelf \in Account \cup {None}
      /\ listed \in SUBSET Chat /\ dialogsDirty \in BOOLEAN /\ seenDialogs \in BOOLEAN
      /\ cur # None \/ queue # {} \/ seenDialogs => self # None
      /\ self # None => self = login /\ account = self
      /\ login # None => up
      /\ ~up => Idle
      /\ None \notin Account
  BY CacheStoreAssumption DEF TypeInv, TypeOK
<1>4. TypeInv'
  BY TypeStep
\* Steps of a running process whose account stays.
<1>5. ASSUME up, up', UNCHANGED <<self, account, cacheSelf>>
      PROVE  Contents(Own(Whose))' /\ Whose' = Whose
  <2>1. PICK w : w = Whose
    OBVIOUS
  <2>2. Contents(Own(w))'
    BY <1>1, <1>2, <1>5, <2>1, OwnKept DEF Whose
  <2>3. Whose' = w
    BY <1>5, <2>1 DEF Whose
  <2> QED
    BY <2>1, <2>2, <2>3
\* Among them, those that leave the chain and dialogs.gob alone.
<1>6. ASSUME up, up', UNCHANGED <<self, account, cacheSelf, jobs, dialogs, dialogsDirty, seenDialogs>>
      PROVE  OwnInv'
  <2>1. Contents(Own(Whose))' /\ Named' = Named /\ NoDialogs' = NoDialogs
    BY <1>5, <1>6 DEF Named, NoDialogs
  <2> QED
    BY <1>2, <1>6, <2>1 DEF OwnInv
\* Among them, those that add a list of the account to the chain.
<1>7. ASSUME up, up', UNCHANGED <<self, account, cacheSelf, dialogs>>, self # None,
             NEW chats \in SUBSET Chat, jobs' = SaveDialogs(chats)
      PROVE  OwnInv'
  <2>1. Named'
    BY <1>3, <1>7, SaveDialogsJobs DEF Named, DialogsJob
  <2>2. \A k \in DOMAIN jobs' : jobs'[k].kind = "dialogs" => jobs'[k].self = account'
    BY <1>2, <1>3, <1>7, SaveDialogsJobs DEF DialogsJob
  <2>3. Contents(Own(Whose))'
    BY <1>5, <1>7
  <2> QED
    BY <1>7, <2>1, <2>2, <2>3 DEF OwnInv
<1>8. CASE Start
  <2>1. ~up /\ up' /\ jobs' = <<>> /\ self' = None /\ account' = None /\ ~seenDialogs' /\ page' = None
    BY <1>3, <1>8 DEF Start, Idle, syncVars
  <2>2. CASE NoDialogs
    <3>1. cacheSelf' = None /\ window' = [c \in Chat |-> None] /\ file' = [c \in Chat |-> None]
      <4>1. file \in [Chat -> Messages \cup {None}]
        BY DEF TypeInv, TypeOK
      <4> QED
        BY <1>1, <1>3, <1>8, <2>2, <4>1 DEF Start, Archive, Idle, Alone, diskVars
    <3>2. NoDialogs'
      BY <1>8, <2>2 DEF Start, Archive, NoDialogs, diskVars
    <3>3. Contents(Own(Whose))'
      BY <2>1, <3>1, EmptySeq DEF Contents
    <3> QED
      BY <2>1, <3>2, <3>3 DEF OwnInv
  <2>3. CASE ~NoDialogs
    <3>1. PICK w : w = dialogs.self
      OBVIOUS
    <3>2. Contents(Own(w))'
      BY <1>1, <1>2, <1>3, <2>1, <2>3, <3>1, OwnKept DEF Idle
    <3>3. cacheSelf' = w /\ dialogs' = dialogs
      BY <1>8, <2>3, <3>1 DEF Start, diskVars
    <3>4. Whose' = w
      BY <2>1, <3>3 DEF Whose
    <3>5. Named'
      BY <2>3, <3>1, <3>3, <3>4 DEF Named, NoDialogs
    <3> QED
      BY <2>1, <3>2, <3>4, <3>5 DEF OwnInv
  <2> QED
    BY <2>2, <2>3
<1>9. CASE Quit
  <2>1. up /\ ~up' /\ jobs = <<>>
    BY <1>9 DEF Quit, Ends, ChainDone
  <2>2. PICK w : w = Whose
    OBVIOUS
  <2>3. Contents(Own(w))'
    BY <1>1, <1>2, <2>1, <2>2, OwnKept DEF Whose
  <2>4. Named => dialogs # None /\ dialogs.self = w
    BY <2>1, <2>2 DEF Named
  <2>5. dialogs' = IF dialogsDirty /\ self # None THEN [self |-> self, chats |-> listed] ELSE dialogs
    BY <1>9 DEF Quit
  <2>6. self # None => self = w
    BY <2>2 DEF Whose
  <2>7. NoDialogs' \/ dialogs'.self = w
    BY <1>2, <1>3, <2>1, <2>4, <2>5, <2>6 DEF NoDialogs
  <2> QED
    BY <2>1, <2>3, <2>7 DEF OwnInv
<1>11. CASE Flush
  <2>1. up /\ up' /\ UNCHANGED <<self, account, cacheSelf, dialogs, seenDialogs>> /\ ~dialogsDirty'
    BY <1>3, <1>11 DEF Flush, sessVars, diskVars
  <2>2. /\ \A k \in DOMAIN jobs : k \in DOMAIN jobs' /\ jobs'[k] = jobs[k]
        /\ \A k \in DOMAIN jobs' \ DOMAIN jobs :
                (self # None /\ jobs'[k] = DialogsJob(listed)) \/ jobs'[k].kind = "history"
        /\ dialogsDirty /\ self # None => \E k \in DOMAIN jobs' : jobs'[k] = DialogsJob(listed)
    BY <1>11, FlushJobs DEF TypeInv, HistoryJob
  <2>3. Contents(Own(Whose))' /\ Whose' = Whose
    BY <1>5, <2>1
  <2>4. \A k \in DOMAIN jobs' : jobs'[k].kind = "dialogs" => jobs'[k].self = account
    BY <1>2, <1>3, <2>1, <2>2 DEF DialogsJob
  <2>5. Named => Named'
    BY <2>1, <2>2, <2>3 DEF Named
  <2>6. self # None /\ dialogsDirty => Named'
    BY <2>2 DEF Named, DialogsJob
  <2>7. NoDialogs' = NoDialogs
    BY <2>1 DEF NoDialogs
  <2> QED
    BY <1>2, <2>1, <2>3, <2>4, <2>5, <2>6, <2>7 DEF OwnInv
<1>12. CASE JobDone
  <2>1. PICK k \in NextJob :
            /\ jobs' = Without(k)
            /\ \/ jobs[k].kind = "history" /\ UNCHANGED dialogs
               \/ /\ jobs[k].kind = "dialogs"
                  /\ dialogs' = [self |-> jobs[k].self, chats |-> jobs[k].chats]
            /\ UNCHANGED <<up, sessVars, uiVars>>
    BY <1>12 DEF JobDone
  <2>2. up /\ up' /\ UNCHANGED <<self, account, cacheSelf, dialogsDirty, seenDialogs>>
    BY <1>3, <2>1 DEF NextJob, Idle, sessVars, uiVars
  <2>3. /\ k = 1 /\ k \in DOMAIN jobs
        /\ \A n \in DOMAIN jobs' : n + 1 \in DOMAIN jobs /\ jobs'[n] = jobs[n + 1]
        /\ \A n \in DOMAIN jobs : n # 1 => n - 1 \in DOMAIN jobs' /\ jobs'[n - 1] = jobs[n]
    BY <1>3, <2>1, RestOfJobs
  <2>4. Contents(Own(Whose))' /\ Whose' = Whose
    BY <1>5, <2>2
  <2>5. \A n \in DOMAIN jobs' : jobs'[n].kind = "dialogs" => jobs'[n].self = account'
    BY <1>2, <2>2, <2>3
  <2>6. jobs[k].kind = "dialogs" => jobs[k].self = Whose
    <3>1. jobs[k].kind = "dialogs" => jobs[k].self = account /\ account # None
      BY <1>2, <1>3, <2>2, <2>3, JobFields
    <3> QED
      BY <1>3, <3>1 DEF Whose
  <2>7. CASE UNCHANGED dialogs /\ jobs[k].kind = "history"
    <3>1. Named => Named'
      BY <2>3, <2>4, <2>7 DEF Named
    <3>2. NoDialogs' = NoDialogs
      BY <2>7 DEF NoDialogs
    <3> QED
      BY <1>2, <2>2, <2>4, <2>5, <3>1, <3>2 DEF OwnInv
  <2>8. CASE jobs[k].kind = "dialogs" /\ dialogs' = [self |-> jobs[k].self, chats |-> jobs[k].chats]
    <3>1. dialogs' # None
      <4>1. dialogs' \in [self : Account, chats : SUBSET Chat]
        BY <1>3, <2>3, <2>8, JobFields
      <4> QED
        BY <4>1, CacheStoreAssumption
    <3>2. Named'
      BY <2>4, <2>6, <2>8, <3>1 DEF Named
    <3> QED
      BY <2>2, <2>4, <2>5, <3>2 DEF OwnInv
  <2> QED
    BY <2>1, <2>7, <2>8
<1>13. ASSUME Spend("fail") \/ Spend("kill") PROVE FALSE
  <2>1. "fail" \in Deed /\ "kill" \in Deed
    BY DEF Deed
  <2> QED
    BY <1>13, <2>1, UnspentBefore DEF Alone
<1>14. CASE JobFails \/ SyncError \/ Kill
  BY <1>13, <1>14 DEF JobFails, SyncError, Kill
<1>15. ASSUME NEW a \in Account, Login(a) PROVE OwnInv'
  BY <1>6, <1>15 DEF Login, diskVars, uiVars
<1>16. CASE Ready
  <2>1. /\ up /\ up' /\ self = None /\ self' = login /\ account' = login /\ login # None /\ jobs' = jobs
        /\ ~seenDialogs
    BY <1>3, <1>16 DEF Ready
  <2>2. Whose' = login /\ Whose = IF account # None THEN account ELSE cacheSelf
    BY <2>1 DEF Whose
  <2>3. CASE OtherAccount
    <3>1. /\ jobs = <<>> /\ window' = [c \in Chat |-> None] /\ page' = None
          /\ dialogsDirty' = TRUE /\ seenDialogs' = FALSE
          /\ file' = [c \in Chat |-> None]
      <4>1. file \in [Chat -> Messages \cup {None}]
        BY DEF TypeInv, TypeOK
      <4> QED
        BY <1>1, <1>16, <2>3, <4>1 DEF Ready, DropCache, ChainDone, Archive, Alone, diskVars
    <3>2. Contents(Own(Whose))'
      BY <2>1, <3>1, EmptySeq DEF Contents
    <3> QED
      BY <2>1, <3>1, <3>2, EmptySeq DEF OwnInv
  <2>4. CASE ~OtherAccount
    <3>1. Whose \in {None, login}
      BY <2>2, <2>4 DEF OtherAccount
    <3>2. UNCHANGED <<file, dialogs, window, page, dialogsDirty, seenDialogs>>
      BY <1>16, <2>4 DEF Ready, diskVars, syncVars, uiVars
    <3>3. PICK w : w = login
      OBVIOUS
    <3>4. Own(Whose) \subseteq Own(w)
      BY <1>3, <3>1, <3>3 DEF Own, Copy
    <3>5. Contents(Own(w))
      BY <1>2, <2>1, <3>4, ContentsMore
    <3>6. Contents(Own(w))'
      BY <2>1, <3>2, <3>5 DEF Contents
    <3>7. Whose' = w
      BY <2>2, <3>3
    <3>8. NoDialogs' = NoDialogs /\ (Named => Named' \/ NoDialogs')
      <4>1. ASSUME dialogs # None, dialogs.self = Whose PROVE Whose = login
        BY <1>3, <3>1, <4>1
      <4> QED
        BY <2>1, <2>2, <3>2, <4>1 DEF Named, NoDialogs
    <3>9. \A k \in DOMAIN jobs' : jobs'[k].kind = "dialogs" => jobs'[k].self = account'
      <4>1. ASSUME NEW k \in DOMAIN jobs, jobs[k].kind = "dialogs" PROVE jobs[k].self = login
        <5>1. jobs[k].self = account /\ jobs[k].self # None
          BY <1>2, <1>3, <2>1, <4>1, JobFields
        <5> QED
          BY <2>2, <3>1, <5>1
      <4> QED
        BY <2>1, <4>1
    <3> QED
      BY <1>2, <2>1, <3>2, <3>6, <3>7, <3>8, <3>9 DEF OwnInv
  <2> QED
    BY <2>3, <2>4
<1>17. CASE Stopped
  <2>1. /\ up /\ up' /\ login # None /\ self' = None
        /\ UNCHANGED <<account, cacheSelf, jobs, file, dialogs, window, dialogsDirty>>
        /\ page' = None /\ ~seenDialogs'
    BY <1>3, <1>17 DEF Stopped, diskVars, uiVars
  <2>2. Whose' = Whose
    BY <1>3, <2>1 DEF Whose
  <2>3. self # None => seenDialogs
    BY <1>17 DEF Stopped, Alone
  <2>4. Contents(Own(Whose))'
    <3>1. PICK w : w = Whose
      OBVIOUS
    <3>2. Contents(Own(w))'
      BY <1>2, <2>1, <3>1 DEF Contents
    <3> QED
      BY <2>2, <3>1, <3>2
  <2>5. NoDialogs' = NoDialogs /\ Named' = Named
    BY <2>1, <2>2 DEF Named, NoDialogs
  <2> QED
    BY <1>2, <2>1, <2>3, <2>4, <2>5 DEF OwnInv
<1>18. ASSUME NEW fresh \in SUBSET Chat, Dialogs(fresh) PROVE OwnInv'
  <2>1. listed' \in SUBSET Chat
    BY <1>4 DEF TypeInv, TypeOK
  <2> QED
    BY <1>3, <1>7, <1>18, <2>1 DEF Dialogs
<1>19. CASE SyncTick \/ SyncServed
  <2>1. UNCHANGED <<up, self, account, cacheSelf, jobs, dialogs, dialogsDirty, seenDialogs>>
    BY <1>19 DEF SyncTick, SyncServed, sessVars, uiVars, diskVars
  <2>2. queue # {} \/ cur # None
    BY <1>19, CacheStoreAssumption DEF SyncTick, SyncServed, TypeInv
  <2> QED
    BY <1>3, <1>6, <2>1, <2>2
<1>20. CASE SyncDone
  <2>1. up /\ up' /\ UNCHANGED <<self, account, cacheSelf, dialogs, dialogsDirty, seenDialogs>>
    <3>1. cur # None
      BY <1>20 DEF SyncDone, TypeInv
    <3> QED
      BY <1>3, <1>20, <3>1 DEF SyncDone, sessVars, diskVars
  <2>2. CASE UNCHANGED jobs
    BY <1>6, <2>1, <2>2
  <2>3. CASE jobs' = Append(jobs, [kind |-> "history", chat |-> cur.chat, msgs |-> page])
    <3>1. PICK j : j = [kind |-> "history", chat |-> cur.chat, msgs |-> page]
      OBVIOUS
    <3>2. j \in Job
      BY <1>20, <3>1 DEF SyncDone, TypeInv, TypeOK, Job
    <3>3. /\ \A n \in DOMAIN jobs' : n \in DOMAIN jobs \/ jobs'[n] = j
          /\ \A n \in DOMAIN jobs : n \in DOMAIN jobs' /\ jobs'[n] = jobs[n]
      <4>1. Len(jobs) \in Nat /\ DOMAIN jobs = 1 .. Len(jobs) /\ DOMAIN jobs' = 1 .. Len(jobs) + 1
        BY <1>3, <2>3, <3>1, <3>2, AppendJob, LenProperties
      <4> QED
        BY <1>3, <2>3, <3>1, <3>2, <4>1, AppendJob
    <3>4. \A n \in DOMAIN jobs' : jobs'[n].kind = "dialogs" => jobs'[n].self = account'
      BY <1>2, <2>1, <3>1, <3>3
    <3>5. (Named => Named') /\ NoDialogs' = NoDialogs /\ Contents(Own(Whose))'
      BY <1>5, <2>1, <3>3 DEF Named, NoDialogs
    <3> QED
      BY <1>2, <2>1, <3>4, <3>5 DEF OwnInv
  <2> QED
    BY <1>20, <2>2, <2>3 DEF SyncDone
<1>21. ASSUME NEW c \in Chat, Leave(c) PROVE OwnInv'
  <2>1. listed' \in SUBSET Chat /\ up
    BY <1>3, <1>4, <1>21 DEF Leave, Idle, TypeInv, TypeOK
  <2>2. CASE self # None
    BY <1>7, <1>21, <2>1, <2>2 DEF Leave, sessVars
  <2>3. CASE self = None
    BY <1>6, <1>21, <2>1, <2>3 DEF Leave, SaveDialogs, sessVars
  <2> QED
    BY <2>2, <2>3
<1>22. ASSUME NEW c \in Chat, Post(c) PROVE OwnInv'
  <2>1. /\ up /\ up' /\ UNCHANGED <<self, account, cacheSelf, dialogs, jobs, seenDialogs>>
        /\ self # None /\ dialogsDirty'
    BY <1>1, <1>3, <1>22 DEF Post, sessVars, diskVars, Alone
  <2>2. Contents(Own(Whose))' /\ Named' = Named
    BY <1>5, <2>1 DEF Named
  <2> QED
    BY <1>2, <2>1, <2>2 DEF OwnInv
<1>23. CASE UNCHANGED vars
  <2>1. CASE up
    BY <1>6, <1>23, <2>1 DEF vars
  <2>2. CASE ~up
    BY <1>2, <1>23, <2>2 DEF vars, OwnInv, Contents, NoDialogs
  <2> QED
    BY <2>1, <2>2
<1>24. ASSUME NEW c \in Chat, Miss(c) \/ \E i \in Id : Edit(c, i) PROVE OwnInv'
  <2>1. UNCHANGED <<up, self, account, cacheSelf, jobs, dialogs, dialogsDirty, seenDialogs, file, page>>
    BY <1>24 DEF Miss, Edit, sessVars, uiVars, syncVars, diskVars
  <2>2. CASE up
    BY <1>6, <2>1, <2>2
  <2>3. CASE ~up
    <3>1. window' = window
      BY <1>3, <1>24, <2>3 DEF Miss, Edit, Idle, uiVars
    <3> QED
      BY <1>2, <2>1, <2>3, <3>1 DEF OwnInv, Contents, NoDialogs
  <2> QED
    BY <2>2, <2>3
<1>25. ASSUME NEW c \in Chat, Page(c) \/ Open(c) \/ Close(c) \/ Clear(c) PROVE OwnInv'
  <2>1. up
    BY <1>3, <1>25 DEF Page, Open, Close, Clear, Idle
  <2> QED
    BY <1>6, <1>25, <2>1 DEF Page, Open, Close, Clear, sessVars, diskVars
<1> QED
  BY <1>8, <1>9, <1>11, <1>12, <1>14, <1>15, <1>16, <1>17, <1>18, <1>19, <1>20, <1>21, <1>22,
     <1>23, <1>24, <1>25
  DEF Next, Process, Network, Windows

LEMMA HistoryInit == Init => GoneInv /\ OwnInv
<1> SUFFICES ASSUME Init PROVE GoneInv /\ OwnInv
  OBVIOUS
<1> QED
  BY DEF Init, GoneInv, OwnInv, NoDialogs

LEMMA HistoryFollows == TypeInv /\ GoneInv /\ OwnInv => HistoryRight
<1> SUFFICES ASSUME TypeInv, GoneInv, OwnInv PROVE HistoryRight
  OBVIOUS
<1>1. GoneStaysGone
  BY DEF GoneInv, GoneStaysGone
<1>2. OwnHistory
  <2> SUFFICES ASSUME Alone, self # None, NEW c \in Chat, NEW i \in Shown(c)
               PROVE  window[c][i].by = self
    BY DEF OwnHistory, OwnWindows, Alone
  <2>1. up /\ Whose = self
    BY DEF TypeInv, Whose
  <2>2. window[c] \in MsgsIn(Own(self)) \cup {None}
    BY <2>1 DEF OwnInv, Contents
  <2>3. window[c] # None /\ i \in DOMAIN window[c]
    BY DEF Shown
  <2>4. window[c] \in [DOMAIN window[c] -> Own(self)]
    BY <2>2, <2>3, Contents1
  <2> QED
    BY <2>3, <2>4 DEF Own
<1> QED
  BY <1>1, <1>2 DEF TypeInv, HistoryRight

\* The windows show the history of the account alone, whatever accounts log in
\* one after the other, sessions stop and processes are started again; and the
\* file of a chat that is gone stays erased.
THEOREM HistoryRightAlways == Spec => []HistoryRight
<1>1. TypeInv /\ GoneInv /\ OwnInv /\ [Next]_vars => (TypeInv /\ GoneInv /\ OwnInv)'
  BY TypeStep, GoneStep, OwnStep
<1> QED
  BY <1>1, TypeInit, HistoryInit, HistoryFollows, PTL DEF Spec

-----------------------------------------------------------------------------
(* Where the files are the only copy, nothing edits a message.             *)

Zero == {m \in Copy : m.version = 0}

OnlyFirst ==
    ~net.history => /\ Contents(Zero)
                    /\ \A c \in Chat : \A i \in DOMAIN server[c] : server[c][i] = 0

LEMMA OnlyFirstStep == TypeInv /\ OnlyFirst /\ [Next]_vars => OnlyFirst'
<1> SUFFICES ASSUME TypeInv, OnlyFirst, [Next]_vars, ~net.history
             PROVE  /\ Contents(Zero)'
                    /\ \A c \in Chat : \A i \in DOMAIN server'[c] : server'[c][i] = 0
  BY PlanKept DEF OnlyFirst, net
<1>1. \A c \in Chat : \A i \in DOMAIN server[c] : server[c][i] = 0
  BY DEF OnlyFirst
<1>2. Contents(Zero)'
  <2>1. login # None => [by |-> login, version |-> 0] \in Zero
    BY CacheStoreAssumption DEF Zero, Copy, TypeInv, TypeOK
  <2>2. Fresh(Zero)
    BY <1>1, <2>1 DEF Fresh
  <2> QED
    BY <2>2, ContentsStep DEF Zero, OnlyFirst
<1>3. ASSUME NEW c \in Chat, server' = [server EXCEPT ![c] = Append(@, 0)]
      PROVE  \A x \in Chat : \A i \in DOMAIN server'[x] : server'[x][i] = 0
  <2>1. server[c] \in Seq(0 .. MaxVersion) /\ Len(server[c]) \in Nat /\ DOMAIN server[c] = 1 .. Len(server[c])
    BY ServerIds
  <2>2. PICK t : t = Append(server[c], 0)
    OBVIOUS
  <2>3. t \in Seq(0 .. MaxVersion) /\ Len(t) = Len(server[c]) + 1
    BY <2>1, <2>2, CacheStoreAssumption
  <2>4. DOMAIN t = 1 .. Len(server[c]) + 1
    BY <2>3, LenProperties
  <2>5. \A i \in DOMAIN t : t[i] = 0
    BY <1>1, <2>1, <2>2, <2>4
  <2>6. server \in [Chat -> Seq(0 .. MaxVersion)]
    BY DEF TypeInv, TypeOK
  <2>7. server'[c] = t /\ \A x \in Chat : x # c => server'[x] = server[x]
    BY <1>3, <2>2, <2>6
  <2> QED
    BY <1>1, <2>5, <2>7
<1>4. UNCHANGED server \/ \E c \in Chat : server' = [server EXCEPT ![c] = Append(@, 0)]
  BY DEF Next, Process, Network, Windows, Start, Quit, Kill, Ends, Flush, JobDone, JobFails, Login, Ready,
         Stopped, Dialogs, SyncTick, SyncServed, SyncDone, SyncError, Leave, Post, Miss, Page, Open,
         Close, Clear, Edit, vars
<1> QED
  BY <1>1, <1>2, <1>3, <1>4

-----------------------------------------------------------------------------
(* What a window shows is marked, on its way, or in the file.              *)

\* The k-th write holds message i of c; and none older than v.
Writes(k, c, i) == jobs[k].kind = "history" /\ jobs[k].chat = c /\ i \in DOMAIN jobs[k].msgs
WritesNew(k, c, i, v) == Writes(k, c, i) => jobs[k].msgs[i].version >= v

\* When the chain is done, the file holds version v of message i of c, or has
\* cut it: it does now and no write brings it back, or the last write with it
\* does.
Coming(c, i, v) ==
    \/ /\ InFile(file[c], i, v)
       /\ \A k \in DOMAIN jobs : WritesNew(k, c, i, v)
    \/ \E n \in DOMAIN jobs :
        /\ Writes(n, c, i)
        /\ \A k \in DOMAIN jobs : k >= n => WritesNew(k, c, i, v)

ChatSaved(c) == \A i \in Shown(c) : c \in dirty \/ Coming(c, i, window[c][i].version)

\* Where messages have versions, a chat with a write on its way has its window,
\* and no page of the sync comes.
SavedInv ==
    InStep =>
        /\ net.history =>
            /\ queue = {} /\ cur = None
            /\ \A k \in DOMAIN jobs : jobs[k].kind = "history" => window[jobs[k].chat] # None
        /\ \A c \in Chat : ChatSaved(c)

\* The writes of c are the same after a step.
SameWrites(c) ==
    /\ \A k \in DOMAIN jobs : k \in DOMAIN jobs' /\ jobs'[k] = jobs[k]
    /\ \A k \in DOMAIN jobs' : k \in DOMAIN jobs \/ ~(jobs'[k].kind = "history" /\ jobs'[k].chat = c)

LEMMA ChatKept ==
    ASSUME NEW c \in Chat, ChatSaved(c), UNCHANGED <<file[c], window[c]>>, c \in dirty => c \in dirty',
           SameWrites(c)
    PROVE  ChatSaved(c)'
<1> SUFFICES ASSUME NEW i \in Shown(c)', c \notin dirty
             PROVE  Coming(c, i, window[c][i].version)'
  BY DEF ChatSaved
<1>1. PICK v : v = window[c][i].version
  OBVIOUS
<1>2. Coming(c, i, v)
  BY <1>1 DEF ChatSaved, Shown
<1>3. \A k \in DOMAIN jobs : /\ k \in DOMAIN jobs' /\ Writes(k, c, i)' = Writes(k, c, i)
                             /\ WritesNew(k, c, i, v)' = WritesNew(k, c, i, v)
  BY DEF SameWrites, Writes, WritesNew
<1>4. \A k \in DOMAIN jobs' : k \notin DOMAIN jobs => WritesNew(k, c, i, v)'
  BY DEF SameWrites, Writes, WritesNew
<1>5. Coming(c, i, v)'
  <2>1. CASE InFile(file[c], i, v) /\ \A k \in DOMAIN jobs : WritesNew(k, c, i, v)
    <3>1. InFile(file[c], i, v)'
      BY <2>1 DEF InFile
    <3> QED
      BY <1>3, <1>4, <2>1, <3>1 DEF Coming
  <2>2. ASSUME NEW n \in DOMAIN jobs, Writes(n, c, i),
               \A k \in DOMAIN jobs : k >= n => WritesNew(k, c, i, v)
        PROVE  Coming(c, i, v)'
    BY <1>3, <1>4, <2>2 DEF Coming
  <2> QED
    BY <1>2, <2>1, <2>2 DEF Coming
<1> QED
  BY <1>1, <1>5

LEMMA ChatMarked ==
    ASSUME NEW c \in Chat, c \in dirty'
    PROVE  ChatSaved(c)'
BY DEF ChatSaved

LEMMA ChatHidden ==
    ASSUME NEW c \in Chat, window'[c] \in {None, Empty}
    PROVE  ChatSaved(c)'
<1>1. DOMAIN Empty = {}
  BY LoadIn
<1> QED
  BY <1>1 DEF ChatSaved, Shown

\* A window the file has just played in.
LEMMA ChatPlays ==
    ASSUME TypeInv', OnlyFirst', UNCHANGED plan, NEW c \in Chat, window'[c] = Load(file'[c]),
           net.history => \A k \in DOMAIN jobs' : ~(jobs'[k].kind = "history" /\ jobs'[k].chat = c)
    PROVE  ChatSaved(c)'
<1> SUFFICES ASSUME NEW i \in Shown(c)'
             PROVE  Coming(c, i, window[c][i].version)'
  BY DEF ChatSaved
<1>1. window'[c] # None /\ i \in DOMAIN window'[c]
  BY DEF Shown
<1>2. file'[c] # None /\ window'[c] = file'[c]
  <2>1. DOMAIN Empty = {}
    BY LoadIn
  <2> QED
    BY <1>1, <2>1 DEF Load
<1>3. PICK v : v = window'[c][i].version
  OBVIOUS
<1>4. v \in Nat
  <2>1. window'[c] \in MsgsIn(Copy)
    BY <1>1, MsgsTyped DEF TypeInv, TypeOK
  <2>2. window'[c][i] \in Copy
    BY <1>1, <2>1, Contents1
  <2> QED
    BY <1>3, <2>2, CacheStoreAssumption DEF Copy
<1>5. InFile(file[c], i, v)'
  BY <1>1, <1>2, <1>3, <1>4 DEF InFile
<1>6. ASSUME NEW k \in DOMAIN jobs' PROVE WritesNew(k, c, i, v)'
  <2>1. CASE net.history
    BY <1>6, <2>1 DEF WritesNew, Writes
  <2>2. CASE ~net.history
    <3>1. Contents(Zero)'
      BY <2>2 DEF OnlyFirst, net
    <3>2. window'[c] \in MsgsIn(Zero)
      BY <1>1, <3>1 DEF Contents
    <3>3. v = 0
      <4>1. window'[c][i] \in Zero
        BY <1>1, <3>2, Contents1
      <4> QED
        BY <1>3, <4>1 DEF Zero
    <3>4. Writes(k, c, i)' => jobs'[k].msgs[i].version = 0
      <4>1. Writes(k, c, i)' => jobs'[k].msgs \in MsgsIn(Zero) /\ i \in DOMAIN jobs'[k].msgs
        BY <1>6, <3>1 DEF Contents, Writes
      <4>2. Writes(k, c, i)' => jobs'[k].msgs[i] \in Zero
        BY <4>1, Contents1
      <4> QED
        BY <4>2 DEF Zero
    <3> QED
      BY <3>3, <3>4 DEF WritesNew
  <2> QED
    BY <2>1, <2>2
<1> QED
  BY <1>3, <1>5, <1>6 DEF Coming

\* A flush takes a snapshot of a chat that is marked.
LEMMA ChatFlushed ==
    ASSUME TypeInv, Flush, NEW c \in Chat, ChatSaved(c)
    PROVE  ChatSaved(c)'
<1>1. /\ \A k \in DOMAIN jobs : k \in DOMAIN jobs' /\ jobs'[k] = jobs[k]
      /\ \A k \in DOMAIN jobs' \ DOMAIN jobs :
            jobs'[k].kind # "history" \/ \E x \in ToWrite : jobs'[k] = HistoryJob(x)
      /\ \A x \in ToWrite : \E k \in DOMAIN jobs' \ DOMAIN jobs : jobs'[k] = HistoryJob(x)
      /\ jobs \in Seq(Job) /\ jobs' \in Seq(Job)
  <2>1. TypeOK /\ jobs \in Seq(Job)
    BY DEF TypeInv, TypeOK
  <2>2. /\ jobs' \in Seq(Job)
        /\ DOMAIN jobs \subseteq DOMAIN jobs'
        /\ \A k \in DOMAIN jobs : jobs'[k] = jobs[k]
    BY <2>1, FlushJobs
  <2>3. ASSUME NEW k \in DOMAIN jobs' \ DOMAIN jobs
        PROVE  jobs'[k].kind # "history" \/ \E x \in ToWrite : jobs'[k] = HistoryJob(x)
    <3>1. jobs'[k] = DialogsJob(listed) \/ \E x \in ToWrite : jobs'[k] = HistoryJob(x)
      BY <2>1, FlushJobs
    <3> QED
      BY <3>1 DEF DialogsJob
  <2>4. \A x \in ToWrite : \E k \in DOMAIN jobs' \ DOMAIN jobs : jobs'[k] = HistoryJob(x)
    BY <2>1, FlushJobs
  <2> QED
    BY <2>1, <2>2, <2>3, <2>4
<1>2. UNCHANGED <<file, window>> /\ dirty' = {}
  BY DEF Flush, diskVars
<1>3. CASE c \in ToWrite
  <2> SUFFICES ASSUME NEW i \in Shown(c)'
               PROVE  Coming(c, i, window[c][i].version)'
    BY DEF ChatSaved
  <2>1. PICK v : v = window[c][i].version
    OBVIOUS
  <2>2. PICK n \in DOMAIN jobs' \ DOMAIN jobs : jobs'[n] = HistoryJob(c)
    BY <1>1, <1>3
  <2>3. window[c] # None /\ i \in DOMAIN window[c]
    BY <1>2 DEF Shown
  <2>4. v \in Nat
    <3>1. window[c] \in MsgsIn(Copy)
      BY <2>3, MsgsTyped DEF TypeInv, TypeOK
    <3>2. window[c][i] \in Copy
      BY <2>3, <3>1, Contents1
    <3> QED
      BY <2>1, <3>2, CacheStoreAssumption DEF Copy
  <2>5. Writes(n, c, i)'
    BY <2>2, <2>3 DEF Writes, HistoryJob
  <2>6. ASSUME NEW k \in DOMAIN jobs', k >= n, Writes(k, c, i)'
        PROVE  jobs'[k].msgs[i].version >= v
    <3>1. k \notin DOMAIN jobs
      <4>1. /\ Len(jobs) \in Nat /\ DOMAIN jobs = 1 .. Len(jobs)
            /\ Len(jobs') \in Nat /\ DOMAIN jobs' = 1 .. Len(jobs')
        BY <1>1, LenProperties
      <4> QED
        BY <2>2, <2>6, <4>1
    <3>2. PICK x \in ToWrite : jobs'[k] = HistoryJob(x)
      BY <1>1, <2>6, <3>1 DEF Writes
    <3>3. x = c
      BY <2>6, <3>2 DEF Writes, HistoryJob
    <3>4. jobs'[k].msgs = window[c]
      BY <3>2, <3>3 DEF HistoryJob
    <3> QED
      BY <2>1, <2>4, <3>4
  <2>7. Coming(c, i, v)'
    BY <2>2, <2>5, <2>6 DEF Coming, WritesNew
  <2> QED
    BY <1>2, <2>1, <2>7
<1>4. CASE c \notin dirty
  <2>1. SameWrites(c)
    BY <1>1, <1>4 DEF SameWrites, HistoryJob, ToWrite
  <2> QED
    BY <1>2, <1>4, <2>1, ChatKept
<1>5. CASE window[c] \in {None, Empty}
  BY <1>2, <1>5, ChatHidden
<1> QED
  BY <1>3, <1>4, <1>5 DEF ToWrite

\* The first write is done.
LEMMA ChatWritten ==
    ASSUME TypeInv, JobDone, NEW c \in Chat, ChatSaved(c)
    PROVE  ChatSaved(c)'
<1>1. PICK m \in NextJob :
        /\ jobs' = Without(m)
        /\ \/ /\ jobs[m].kind = "history"
              /\ file' = [file EXCEPT ![jobs[m].chat] = Saved(@, jobs[m].msgs)]
           \/ /\ jobs[m].kind = "dialogs"
              /\ UNCHANGED file
        /\ UNCHANGED <<window, dirty>>
  BY DEF JobDone, uiVars
<1>2. jobs \in Seq(Job) /\ file \in [Chat -> Messages \cup {None}]
      /\ window \in [Chat -> Messages \cup {None}]
  BY DEF TypeInv, TypeOK
<1>3. /\ m = 1 /\ 1 \in DOMAIN jobs
      /\ \A k \in DOMAIN jobs' : k + 1 \in DOMAIN jobs /\ k \in Nat \ {0} /\ jobs'[k] = jobs[k + 1]
      /\ \A k \in DOMAIN jobs : k # 1 => k - 1 \in DOMAIN jobs' /\ jobs'[k - 1] = jobs[k]
      /\ \A k \in DOMAIN jobs : k \in Nat \ {0}
  <2>1. \A k \in DOMAIN jobs : k \in Nat \ {0}
    BY <1>2, LenProperties
  <2> QED
    BY <1>1, <1>2, <2>1, RestOfJobs
<1> SUFFICES ASSUME NEW i \in Shown(c)', c \notin dirty
             PROVE  Coming(c, i, window[c][i].version)'
  BY <1>1 DEF ChatSaved
<1>4. PICK v : v = window[c][i].version
  OBVIOUS
<1>5. Coming(c, i, v) /\ i \in Id
  <2>1. i \in Shown(c)
    BY <1>1 DEF Shown
  <2>2. i \in Id
    <3>1. window[c] \in MsgsIn(Copy) /\ i \in DOMAIN window[c]
      BY <1>2, <2>1, MsgsTyped DEF Shown
    <3> QED
      BY <3>1, Contents1
  <2> QED
    BY <1>4, <2>1, <2>2 DEF ChatSaved
<1>6. ASSUME NEW k \in DOMAIN jobs' PROVE WritesNew(k, c, i, v)' = WritesNew(k + 1, c, i, v)
  BY <1>3, <1>6 DEF WritesNew, Writes
\* The write holds the message: it is in the file now.
<1>7. CASE Writes(1, c, i) /\ \A k \in DOMAIN jobs : WritesNew(k, c, i, v)
  <2>1. /\ jobs[1].kind = "history" /\ jobs[1].chat = c /\ i \in DOMAIN jobs[1].msgs
        /\ jobs[1].msgs[i].version >= v
    BY <1>3, <1>7 DEF WritesNew, Writes
  <2>2. file'[c] = Saved(file[c], jobs[1].msgs)
    BY <1>1, <1>2, <1>3, <2>1
  <2>3. jobs[1].msgs \in MsgsIn(Copy) /\ file[c] \in MsgsIn(Copy) \cup {None}
    BY <1>2, <1>3, <2>1, JobFields, MsgsTyped
  <2>4. /\ file'[c] # None
        /\ \/ i \in DOMAIN file'[c] /\ file'[c][i] = jobs[1].msgs[i]
           \/ i \notin DOMAIN file'[c] /\ Cut(DOMAIN file'[c], i)
    <3>1. Saved(file[c], jobs[1].msgs) \in MsgsIn(Copy)
      BY <2>3, SavedIn
    <3>2. None \notin MsgsIn(Copy)
      BY MsgsTyped
    <3> QED
      BY <2>1, <2>2, <2>3, <3>1, <3>2, SavedTakes
  <2>5. InFile(file[c], i, v)'
    BY <2>1, <2>4 DEF InFile
  <2>6. \A k \in DOMAIN jobs' : WritesNew(k, c, i, v)'
    BY <1>3, <1>6, <1>7
  <2>7. Coming(c, i, v)'
    BY <2>5, <2>6 DEF Coming
  <2> QED
    BY <1>1, <1>4, <2>7
\* A later write holds it.
<1>8. ASSUME NEW n \in DOMAIN jobs, n # 1, Writes(n, c, i),
             \A k \in DOMAIN jobs : k >= n => WritesNew(k, c, i, v)
      PROVE  Coming(c, i, v)'
  <2>1. n - 1 \in DOMAIN jobs' /\ Writes(n - 1, c, i)'
    BY <1>3, <1>8 DEF Writes
  <2>2. ASSUME NEW k \in DOMAIN jobs', k >= n - 1 PROVE WritesNew(k, c, i, v)'
    <3>1. k + 1 \in DOMAIN jobs /\ k + 1 >= n
      BY <1>3, <2>2
    <3> QED
      BY <1>6, <1>8, <3>1
  <2> QED
    BY <2>1, <2>2 DEF Coming
\* The file has it, and the write leaves it there.
<1>9. CASE /\ InFile(file[c], i, v)
           /\ \A k \in DOMAIN jobs : WritesNew(k, c, i, v)
           /\ ~Writes(1, c, i)
  <2>1. \A k \in DOMAIN jobs' : WritesNew(k, c, i, v)'
    BY <1>3, <1>6, <1>9
  <2>2. InFile(file[c], i, v)'
    <3>1. CASE file'[c] = file[c]
      BY <1>9, <3>1 DEF InFile
    <3>2. CASE file'[c] # file[c]
      <4>1. jobs[1].kind = "history" /\ jobs[1].chat = c /\ file'[c] = Saved(file[c], jobs[1].msgs)
        BY <1>1, <1>2, <1>3, <3>2
      <4>2. i \notin DOMAIN jobs[1].msgs
        BY <1>9, <4>1 DEF Writes
      <4>3. jobs[1].msgs \in MsgsIn(Copy) /\ file[c] \in MsgsIn(Copy) /\ file[c] # None
            /\ (i \in DOMAIN file[c] \/ Cut(DOMAIN file[c], i))
        BY <1>2, <1>3, <1>9, <4>1, JobFields, MsgsTyped DEF InFile
      <4>4. \/ i \in DOMAIN file[c] /\ i \in DOMAIN file'[c] /\ file'[c][i] = file[c][i]
            \/ i \notin DOMAIN file'[c] /\ Cut(DOMAIN file'[c], i)
        BY <1>5, <4>1, <4>2, <4>3, SavedKeeps
      <4>5. file'[c] # None
        <5>1. Saved(file[c], jobs[1].msgs) \in MsgsIn(Copy) /\ None \notin MsgsIn(Copy)
          BY <4>3, SavedIn, MsgsTyped
        <5> QED
          BY <4>1, <5>1
      <4> QED
        BY <1>9, <4>4, <4>5 DEF InFile
    <3> QED
      BY <3>1, <3>2
  <2>3. Coming(c, i, v)'
    BY <2>1, <2>2 DEF Coming
  <2> QED
    BY <1>1, <1>4, <2>3
<1>10. CASE \E n \in DOMAIN jobs : /\ Writes(n, c, i)
                                  /\ \A k \in DOMAIN jobs : k >= n => WritesNew(k, c, i, v)
  <2>1. PICK n \in DOMAIN jobs : /\ Writes(n, c, i)
                                 /\ \A k \in DOMAIN jobs : k >= n => WritesNew(k, c, i, v)
    BY <1>10
  <2>2. CASE n = 1
    <3>1. \A k \in DOMAIN jobs : k >= 1
      BY <1>3
    <3> QED
      BY <1>7, <2>1, <2>2, <3>1
  <2>3. CASE n # 1
    <3>1. Coming(c, i, v)'
      BY <1>8, <2>1, <2>3
    <3> QED
      BY <1>1, <1>4, <3>1
  <2> QED
    BY <2>2, <2>3
<1>11. CASE InFile(file[c], i, v) /\ \A k \in DOMAIN jobs : WritesNew(k, c, i, v)
  BY <1>7, <1>9, <1>11
<1> QED
  BY <1>5, <1>10, <1>11 DEF Coming

\* saveDialogs writes no history.
LEMMA ListWritten ==
    ASSUME TypeInv, TypeInv', jobs' = SaveDialogs(listed')
    PROVE  /\ \A c \in Chat : SameWrites(c)
           /\ jobs = <<>> => \A k \in DOMAIN jobs' : jobs'[k].kind # "history"
           /\ \A k \in DOMAIN jobs' : jobs'[k].kind = "history" => k \in DOMAIN jobs /\ jobs'[k] = jobs[k]
<1>1. jobs \in Seq(Job) /\ self \in Account \cup {None} /\ listed' \in SUBSET Chat
  BY DEF TypeInv, TypeOK
<1>2. /\ \A k \in DOMAIN jobs : k \in DOMAIN jobs' /\ jobs'[k] = jobs[k]
      /\ \A k \in DOMAIN jobs' \ DOMAIN jobs : jobs'[k].kind = "dialogs"
  BY <1>1, SaveDialogsJobs DEF DialogsJob
<1>3. jobs = <<>> => DOMAIN jobs = {}
  BY EmptySeq
<1> QED
  BY <1>2, <1>3 DEF SameWrites

LEMMA InStepBefore == TypeInv /\ [Next]_vars /\ InStep' => InStep
<1> SUFFICES ASSUME TypeInv, [Next]_vars, InStep' PROVE InStep
  OBVIOUS
<1>1. "fail" \in Deed /\ "close" \in Deed
  BY DEF Deed
<1>2. Unspent("fail")
  BY <1>1, UnspentBefore DEF InStep
<1>3. net.history => ~net.sync /\ Unspent("close")'
  BY PlanKept DEF InStep, net
<1> QED
  BY <1>1, <1>2, <1>3, UnspentBefore DEF InStep

\* The writes of a page of the sync of a chat without a window: first versions.
LEMMA PageWritten ==
    ASSUME TypeInv, OnlyFirst, ~net.history, SyncDone, window[cur.chat] = None, NEW c \in Chat, ChatSaved(c)
    PROVE  ChatSaved(c)'
<1>1. /\ cur.chat \in Chat /\ page \in Messages
      /\ jobs \in Seq(Job) /\ window \in [Chat -> Messages \cup {None}]
  BY DEF SyncDone, TypeInv, TypeOK
<1>2. UNCHANGED <<window, file, dirty>>
  BY DEF SyncDone, diskVars
<1>3. CASE c = cur.chat
  BY <1>2, <1>3, ChatHidden
<1>4. CASE c # cur.chat
  <2>1. PICK j : j = [kind |-> "history", chat |-> cur.chat, msgs |-> page]
    OBVIOUS
  <2>2. j \in Job
    BY <1>1, <2>1 DEF Job
  <2>3. jobs' = jobs \/ jobs' = Append(jobs, j)
    BY <2>1 DEF SyncDone
  <2>4. SameWrites(c)
    <3>1. CASE jobs' = Append(jobs, j)
      <4>1. Len(jobs) \in Nat /\ DOMAIN jobs = 1 .. Len(jobs) /\ DOMAIN jobs' = 1 .. Len(jobs) + 1
        BY <1>1, <2>2, <3>1, AppendJob, LenProperties
      <4>2. \A k \in DOMAIN jobs' : k \in DOMAIN jobs \/ jobs'[k] = j
        BY <1>1, <2>2, <3>1, <4>1, AppendJob
      <4>3. \A k \in DOMAIN jobs : k \in DOMAIN jobs' /\ jobs'[k] = jobs[k]
        BY <1>1, <2>2, <3>1, <4>1, AppendJob
      <4> QED
        BY <1>4, <2>1, <4>2, <4>3 DEF SameWrites
    <3> QED
      BY <2>3, <3>1 DEF SameWrites
  <2> QED
    BY <1>2, <2>4, ChatKept
<1> QED
  BY <1>3, <1>4

LEMMA SavedStep == TypeInv /\ OnlyFirst /\ SavedInv /\ [Next]_vars => SavedInv'
<1> SUFFICES ASSUME TypeInv, OnlyFirst, SavedInv, [Next]_vars, InStep' PROVE SavedInv'
  BY DEF SavedInv
<1>1. TypeInv' /\ OnlyFirst' /\ InStep
  BY TypeStep, OnlyFirstStep, InStepBefore
<1>2. /\ net.history =>
            /\ queue = {} /\ cur = None /\ page = None /\ ~net.sync
            /\ \A k \in DOMAIN jobs : jobs[k].kind = "history" => window[jobs[k].chat] # None
      /\ \A c \in Chat : ChatSaved(c)
  BY <1>1 DEF SavedInv, InStep, TypeInv
<1>3. /\ jobs \in Seq(Job) /\ file \in [Chat -> Messages \cup {None}]
      /\ window \in [Chat -> Messages \cup {None}] /\ dirty \in SUBSET Chat
      /\ ~up => Idle
      /\ listed \in SUBSET Chat
      /\ cur \in [chat : Chat, after : 0 .. MaxId] \cup {None}
      /\ (cur = None) = (page = None)
  BY DEF TypeInv, TypeOK
<1>4. plan' = plan
  BY PlanKept
<1>5. "fail" \in Deed /\ "close" \in Deed
  BY DEF Deed
<1>6. ~Spend("fail") /\ (net.history => ~Spend("close"))
  BY <1>4, <1>5, UnspentBefore DEF InStep, net
\* What is left to show of each step.
<1>7. ASSUME net.history =>
                /\ queue' = {} /\ cur' = None
                /\ \A k \in DOMAIN jobs' : jobs'[k].kind = "history" => window'[jobs'[k].chat] # None,
             \A c \in Chat : ChatSaved(c)'
      PROVE  SavedInv'
  BY <1>4, <1>7 DEF SavedInv, net
\* Steps that leave windows, marks, writes and files alone.
<1>8. ASSUME UNCHANGED <<file, window, dirty, jobs>>, net.history => UNCHANGED cur /\ queue' = {}
      PROVE  SavedInv'
  <2>1. \A c \in Chat : ChatSaved(c)'
    BY <1>2, <1>8, ChatKept DEF SameWrites
  <2> QED
    BY <1>2, <1>7, <1>8, <2>1
\* Steps that close every window.
<1>9. ASSUME window' = [c \in Chat |-> None], jobs' = <<>>, queue' = {}, cur' = None PROVE SavedInv'
  <2>1. \A c \in Chat : ChatSaved(c)'
    BY <1>9, ChatHidden
  <2> QED
    BY <1>7, <1>9, <2>1, EmptySeq
\* Steps that change and mark one window.
<1>10. ASSUME NEW c \in Chat, NEW w, window' = [window EXCEPT ![c] = w], w # None,
              dirty' = MarkDirty(c), UNCHANGED <<file, jobs, queue>>, net.history => UNCHANGED cur
       PROVE  SavedInv'
  <2>1. \A x \in Chat : ChatSaved(x)'
    <3>1. ChatSaved(c)'
      BY <1>10, ChatMarked DEF MarkDirty
    <3>2. ASSUME NEW x \in Chat, x # c PROVE ChatSaved(x)'
      BY <1>2, <1>3, <1>10, <3>2, ChatKept DEF MarkDirty, SameWrites
    <3> QED
      BY <3>1, <3>2
  <2>2. \A x \in Chat : window'[x] = None => window[x] = None
    BY <1>3, <1>10
  <2>3. \A k \in DOMAIN jobs : jobs[k].kind = "history" => jobs[k].chat \in Chat
    BY <1>3, JobFields
  <2> QED
    BY <1>2, <1>7, <1>10, <2>1, <2>2, <2>3
<1>11. CASE Start
  <2>1. jobs = <<>> /\ jobs' = <<>> /\ queue' = {} /\ cur' = None /\ \A c \in Chat : window[c] = None
    BY <1>3, <1>11 DEF Start, Idle, syncVars
  <2>2. \A c \in Chat : window'[c] = None \/ window'[c] = Load(file'[c])
    BY <1>3, <1>11, <2>1 DEF Start, diskVars
  <2>3. \A c \in Chat : ChatSaved(c)'
    BY <1>1, <1>4, <2>1, <2>2, ChatHidden, ChatPlays, EmptySeq
  <2> QED
    BY <1>7, <2>1, <2>3, EmptySeq
<1>12. CASE Quit \/ Kill
  BY <1>9, <1>12 DEF Quit, Kill, Ends
<1>13. CASE Flush
  <2>1. \A c \in Chat : ChatSaved(c)'
    BY <1>2, <1>13, ChatFlushed
  <2>2. UNCHANGED <<window, queue, cur>>
    BY <1>13 DEF Flush, syncVars
  <2>3. ASSUME net.history, NEW k \in DOMAIN jobs', jobs'[k].kind = "history"
        PROVE  window'[jobs'[k].chat] # None
    <3>1. TypeOK
      BY DEF TypeInv
    <3>2. CASE k \in DOMAIN jobs
      BY <1>2, <1>13, <2>2, <2>3, <3>1, <3>2, FlushJobs
    <3>3. CASE k \notin DOMAIN jobs
      <4>1. jobs'[k] = DialogsJob(listed) \/ \E x \in ToWrite : jobs'[k] = HistoryJob(x)
        BY <1>13, <3>1, <3>3, FlushJobs
      <4> QED
        BY <2>2, <2>3, <4>1 DEF DialogsJob, HistoryJob, ToWrite
    <3> QED
      BY <3>2, <3>3
  <2> QED
    BY <1>2, <1>7, <2>1, <2>2, <2>3
<1>14. CASE JobDone
  <2>1. \A c \in Chat : ChatSaved(c)'
    BY <1>2, <1>14, ChatWritten
  <2>2. PICK m \in NextJob : jobs' = Without(m) /\ UNCHANGED <<window, queue, cur>>
    BY <1>14 DEF JobDone, uiVars, syncVars
  <2>3. \A k \in DOMAIN jobs' : k + 1 \in DOMAIN jobs /\ jobs'[k] = jobs[k + 1]
    BY <1>3, <2>2, RestOfJobs
  <2> QED
    BY <1>2, <1>7, <2>1, <2>2, <2>3
<1>15. CASE JobFails \/ SyncError
  BY <1>6, <1>15 DEF JobFails, SyncError
<1>16. ASSUME NEW a \in Account, Login(a) PROVE SavedInv'
  BY <1>2, <1>8, <1>16 DEF Login, diskVars, uiVars, syncVars
<1>17. CASE Ready
  <2>1. CASE net.history /\ OtherAccount
    BY <1>9, <1>17, <2>1 DEF Ready, DropCache, ChainDone, SyncForgotten
  <2>2. CASE ~(net.history /\ OtherAccount)
    BY <1>2, <1>8, <1>17, <2>2 DEF Ready, diskVars, syncVars, uiVars
  <2> QED
    BY <2>1, <2>2
<1>18. CASE Stopped
  BY <1>2, <1>8, <1>18 DEF Stopped, SyncForgotten, diskVars, uiVars
<1>19. CASE SyncTick
  BY <1>2, <1>8, <1>19 DEF SyncTick
<1>20. CASE SyncServed
  BY <1>2, <1>8, <1>20 DEF SyncServed, diskVars, uiVars
<1>21. CASE SyncDone
  <2>1. ~net.history /\ cur.chat \in Chat /\ page \in Messages
    BY <1>2, <1>3, <1>21 DEF SyncDone, TypeInv, TypeOK
  <2>2. CASE window[cur.chat] # None
    <3>1. Merge(page, window[cur.chat]) # None
      <4>1. page \in MsgsIn(Copy) /\ window[cur.chat] \in MsgsIn(Copy)
        BY <1>3, <2>1, <2>2, MsgsTyped
      <4>2. Merge(page, window[cur.chat]) \in MsgsIn(Copy)
        BY <4>1, MergeIn
      <4> QED
        BY <4>2, MsgsTyped
    <3> QED
      BY <1>10, <1>21, <2>1, <2>2, <3>1 DEF SyncDone, diskVars
  <2>3. CASE window[cur.chat] = None
    BY <1>2, <1>7, <1>21, <2>1, <2>3, PageWritten
  <2> QED
    BY <2>2, <2>3
<1>22. ASSUME NEW P \in SUBSET Chat, DropChats(P), jobs' = SaveDialogs(listed'),
              queue' \subseteq queue \/ ~net.history, UNCHANGED cur \/ ~net.history,
              \A c \in P : window'[c] = None,
              \A c \in Chat \ P :
                window'[c] = window[c] \/ (window[c] = None /\ window'[c] = Load(file'[c]))
       PROVE  SavedInv'
  <2>1. /\ \A c \in Chat : SameWrites(c)
        /\ jobs = <<>> => \A k \in DOMAIN jobs' : jobs'[k].kind # "history"
        /\ \A k \in DOMAIN jobs' : jobs'[k].kind = "history" => k \in DOMAIN jobs /\ jobs'[k] = jobs[k]
    BY <1>1, <1>22, ListWritten
  <2>2. net.history /\ P # {} => jobs = <<>>
    BY <1>22 DEF DropChats, ChainDone
  <2>3. ASSUME NEW c \in Chat \ P PROVE file'[c] = file[c] /\ (c \in dirty => c \in dirty')
    BY <1>3, <1>22 DEF DropChats
  <2>4. ASSUME net.history, NEW c \in Chat, window[c] = None
        PROVE  \A k \in DOMAIN jobs' : ~(jobs'[k].kind = "history" /\ jobs'[k].chat = c)
    BY <1>2, <2>1, <2>4
  <2>5. ASSUME NEW c \in Chat PROVE ChatSaved(c)'
    <3>1. CASE c \in P
      BY <1>22, <3>1, ChatHidden
    <3>2. CASE c \notin P /\ window'[c] = window[c]
      BY <1>2, <2>1, <2>3, <3>2, ChatKept
    <3>3. CASE c \notin P /\ window[c] = None /\ window'[c] = Load(file'[c])
      BY <1>1, <1>4, <2>4, <3>3, ChatPlays
    <3> QED
      BY <1>22, <3>1, <3>2, <3>3
  <2>6. ASSUME net.history, NEW k \in DOMAIN jobs', jobs'[k].kind = "history"
        PROVE  window'[jobs'[k].chat] # None
    <3>1. k \in DOMAIN jobs /\ jobs'[k] = jobs[k] /\ jobs # <<>> /\ jobs[k].chat \in Chat
      <4>1. k \in DOMAIN jobs /\ jobs'[k] = jobs[k]
        BY <1>1, <1>22, <2>6, ListWritten
      <4> QED
        BY <1>3, <2>6, <4>1, JobFields, EmptySeq
    <3>2. P = {} /\ window[jobs[k].chat] # None
      BY <1>2, <2>2, <2>6, <3>1
    <3> QED
      BY <1>22, <3>1, <3>2
  <2> QED
    BY <1>2, <1>7, <1>22, <2>5, <2>6
<1>23. ASSUME NEW c \in Chat, Leave(c) PROVE SavedInv'
  <2>1. DropChats({c}) /\ jobs' = SaveDialogs(listed') /\ cur' = cur /\ queue' \subseteq queue
    BY <1>23 DEF Leave, StillQueued
  <2>2. PICK P : P = {c}
    OBVIOUS
  <2>3. P \in SUBSET Chat /\ DropChats(P)
    BY <2>1, <2>2
  <2>4. \A x \in P : window'[x] = None
    BY <1>3, <1>23, <2>2 DEF Leave
  <2>5. \A x \in Chat \ P : window'[x] = window[x]
    BY <1>3, <1>23, <2>2 DEF Leave
  <2> QED
    BY <1>22, <2>1, <2>3, <2>4, <2>5
<1>24. ASSUME NEW fresh \in SUBSET Chat, Dialogs(fresh) PROVE SavedInv'
  <2>1. PICK P \in Pruned(fresh), recent \in SUBSET (listed \cup fresh) :
            /\ DropChats(P)
            /\ window' = Opened(recent, P)
            /\ SyncStart(P)
    BY <1>24 DEF Dialogs
  <2>2. P \in SUBSET Chat
    BY <1>3 DEF Pruned
  <2>3. jobs' = SaveDialogs(listed')
    BY <1>24 DEF Dialogs
  <2>4. net.history => queue' \subseteq queue /\ UNCHANGED cur
    BY <1>2, <2>1 DEF SyncStart, StillQueued
  <2>5. /\ \A c \in P : window'[c] = None
        /\ \A c \in Chat \ P :
              window'[c] = window[c] \/ (window[c] = None /\ window'[c] = Load(file'[c]))
    BY <2>1, <2>2 DEF Opened, Bound
  <2> QED
    BY <1>22, <2>1, <2>2, <2>3, <2>4, <2>5
<1>25. ASSUME NEW c \in Chat, Post(c) PROVE SavedInv'
  <2>1. PICK w : w = window'[c]
    OBVIOUS
  <2>2. window' = [window EXCEPT ![c] = w]
    BY <1>3, <1>25, <2>1 DEF Post
  <2>3. w # None
    <3>1. w \in MsgsIn(Copy)
      BY <1>25, <2>1, PostedIn
    <3> QED
      BY <3>1, MsgsTyped
  <2> QED
    BY <1>10, <1>25, <2>2, <2>3 DEF Post, diskVars, syncVars
<1>26. ASSUME NEW c \in Chat, Miss(c) PROVE SavedInv'
  BY <1>2, <1>8, <1>26 DEF Miss, diskVars, uiVars, syncVars
<1>27. ASSUME NEW c \in Chat, Page(c) PROVE SavedInv'
  <2>1. net.history /\ window[c] # None /\ self # None
    BY <1>27 DEF Page
  <2>2. PICK w : w = Merge(window[c], FromServer(c, DOMAIN server[c]))
    OBVIOUS
  <2>3. window' = [window EXCEPT ![c] = w]
    BY <1>27, <2>2 DEF Page
  <2>4. w # None
    <3>1. window' \in [Chat -> MsgsIn(Copy) \cup {None}] /\ window[c] \in MsgsIn(Copy)
      BY <1>1, <1>3, <2>1, MsgsTyped DEF TypeInv, TypeOK
    <3>2. FromServer(c, DOMAIN server[c]) \in MsgsIn(Copy)
      BY <2>1, FreshCopy, FromServerIn
    <3>3. w \in MsgsIn(Copy)
      BY <2>2, <3>1, <3>2, MergeIn
    <3> QED
      BY <3>3, MsgsTyped
  <2> QED
    BY <1>10, <1>27, <2>3, <2>4 DEF Page, diskVars, syncVars
<1>28. ASSUME NEW c \in Chat, Open(c) PROVE SavedInv'
  <2>1. window[c] = None /\ window' = [window EXCEPT ![c] = Load(file[c])]
        /\ UNCHANGED <<file, jobs, dirty, queue, cur>>
    BY <1>28 DEF Open, diskVars, syncVars
  <2>2. window'[c] = Load(file'[c]) /\ \A x \in Chat \ {c} : window'[x] = window[x]
    BY <1>3, <2>1
  <2>3. net.history => \A k \in DOMAIN jobs : ~(jobs[k].kind = "history" /\ jobs[k].chat = c)
    BY <1>2, <2>1
  <2>4. \A x \in Chat : ChatSaved(x)'
    <3>1. ChatSaved(c)'
      BY <1>1, <1>4, <2>1, <2>2, <2>3, ChatPlays
    <3>2. ASSUME NEW x \in Chat, x # c PROVE ChatSaved(x)'
      BY <1>2, <2>1, <2>2, <3>2, ChatKept DEF SameWrites
    <3> QED
      BY <3>1, <3>2
  <2>5. net.history => \A k \in DOMAIN jobs' : jobs'[k].kind = "history" => window'[jobs'[k].chat] # None
    BY <1>2, <1>3, <2>1, <2>2, <2>3, JobFields
  <2> QED
    BY <1>2, <1>7, <2>1, <2>4, <2>5
<1>29. ASSUME NEW c \in Chat, Close(c) PROVE SavedInv'
  <2>1. ~net.history
    BY <1>6, <1>29 DEF Close
  <2>2. /\ window'[c] = None
        /\ \A x \in Chat \ {c} : UNCHANGED <<window[x], file[x]>> /\ (x \in dirty => x \in dirty')
        /\ UNCHANGED jobs
    BY <1>3, <1>29 DEF Close
  <2>3. ASSUME NEW x \in Chat PROVE ChatSaved(x)'
    BY <1>2, <2>2, ChatHidden, ChatKept DEF SameWrites
  <2> QED
    BY <1>7, <2>1, <2>3
<1>30. ASSUME NEW c \in Chat, Clear(c) PROVE SavedInv'
  <2>1. /\ window'[c] = Empty /\ window[c] # None
        /\ \A x \in Chat \ {c} : UNCHANGED window[x]
        /\ UNCHANGED <<file, jobs, dirty, queue, cur>>
    BY <1>3, <1>30 DEF Clear, diskVars, syncVars
  <2>2. ASSUME NEW x \in Chat PROVE ChatSaved(x)'
    BY <1>2, <2>1, ChatHidden, ChatKept DEF SameWrites
  <2>3. Empty # None
    BY MsgsTyped, LoadIn
  <2>4. net.history => \A k \in DOMAIN jobs' : jobs'[k].kind = "history" => window'[jobs'[k].chat] # None
    BY <1>2, <1>3, <2>1, <2>3, JobFields
  <2> QED
    BY <1>2, <1>7, <2>1, <2>2, <2>4
<1>31. ASSUME NEW c \in Chat, NEW i \in Id, Edit(c, i) PROVE SavedInv'
  <2>1. CASE UNCHANGED <<window, dirty>>
    BY <1>2, <1>8, <1>31, <2>1 DEF Edit, diskVars, syncVars
  <2>2. CASE /\ window[c] # None /\ i \in DOMAIN window[c]
             /\ window' = [window EXCEPT ![c][i].version = server[c][i] + 1]
             /\ dirty' = MarkDirty(c)
    <3>1. PICK w : w = [window[c] EXCEPT ![i].version = server[c][i] + 1]
      OBVIOUS
    <3>2. window' = [window EXCEPT ![c] = w] /\ window'[c] = w
      BY <1>3, <2>2, <3>1
    <3>3. w # None
      <4>1. w \in MsgsIn(Copy)
        BY <1>31, <2>2, <3>1, EditedIn
      <4> QED
        BY <4>1, MsgsTyped
    <3> QED
      BY <1>10, <1>31, <2>2, <3>2, <3>3 DEF Edit, diskVars, syncVars
  <2> QED
    BY <1>31, <2>1, <2>2 DEF Edit
<1>32. CASE UNCHANGED vars
  BY <1>2, <1>8, <1>32 DEF vars
<1> QED
  BY <1>11, <1>12, <1>13, <1>14, <1>15, <1>16, <1>17, <1>18, <1>19, <1>20, <1>21, <1>23, <1>24, <1>25,
     <1>26, <1>27, <1>28, <1>29, <1>30, <1>31, <1>32
  DEF Next, Process, Network, Windows

LEMMA SavedInit == Init => OnlyFirst /\ SavedInv
<1> SUFFICES ASSUME Init PROVE OnlyFirst /\ SavedInv
  OBVIOUS
<1>1. OnlyFirst
  BY EmptySeq DEF Init, OnlyFirst, Contents
<1>2. SavedInv
  BY EmptySeq DEF Init, SavedInv, ChatSaved, Shown
<1> QED
  BY <1>1, <1>2

\* What a write brings, or the file has.
LEMMA ComingWhere ==
    ASSUME jobs \in Seq(Job), NEW c \in Chat, NEW i, NEW v, Coming(c, i, v)
    PROVE  InFile(file[c], i, v) \/ (jobs # <<>> /\ InJobs(c, i, v))
<1>1. SUFFICES ASSUME ~InFile(file[c], i, v) PROVE jobs # <<>> /\ InJobs(c, i, v)
  OBVIOUS
<1>2. PICK n \in DOMAIN jobs :
        /\ Writes(n, c, i)
        /\ \A k \in DOMAIN jobs : k >= n => WritesNew(k, c, i, v)
  BY <1>1 DEF Coming
<1>3. n >= n /\ jobs # <<>>
  BY LenProperties, EmptySeq
<1> QED
  BY <1>2, <1>3 DEF Writes, WritesNew, InJobs

LEMMA SavedFollows == TypeInv /\ SavedInv => NothingUnsaved
<1> SUFFICES ASSUME TypeInv, SavedInv, InStep, NEW c \in Chat, NEW i \in Shown(c), c \notin dirty
             PROVE  \/ InJobs(c, i, window[c][i].version)
                    \/ InFile(file[c], i, window[c][i].version)
  BY DEF NothingUnsaved
<1>1. Coming(c, i, window[c][i].version)
  BY DEF SavedInv, ChatSaved
<1> QED
  BY <1>1, ComingWhere DEF TypeInv, TypeOK

\* What a window shows is marked to be written, in a write on its way or in the
\* file, through flushes, writes, closed windows and lists that drop chats.
THEOREM NothingUnsavedAlways == Spec => []NothingUnsaved
<1>1. TypeInv /\ OnlyFirst /\ SavedInv /\ [Next]_vars => (TypeInv /\ OnlyFirst /\ SavedInv)'
  BY TypeStep, OnlyFirstStep, SavedStep
<1> QED
  BY <1>1, TypeInit, SavedInit, SavedFollows, PTL DEF Spec

-----------------------------------------------------------------------------
(* A quit.                                                                 *)

SaidQuit ==
    up /\ ~up' /\ left'.kill = left.kill /\ InStep =>
        \A c \in Chat : \A i \in Shown(c) : InFile(file'[c], i, window[c][i].version)

LEMMA QuitStep == TypeInv /\ SavedInv /\ [Next]_vars => SaidQuit
<1> SUFFICES ASSUME TypeInv, SavedInv, [Next]_vars, up, ~up', left'["kill"] = left["kill"], InStep,
                    NEW c \in Chat, NEW i \in Shown(c)
             PROVE  InFile(file'[c], i, window[c][i].version)
  BY DEF SaidQuit
<1>1. Quit
  <2>1. Quit \/ Kill
    BY DEF Next, Process, Network, Windows, Start, Flush, JobDone, JobFails, Login, Ready, Stopped,
           Dialogs, SyncTick, SyncServed, SyncDone, SyncError, Leave, Post, Miss, Page, Open, Close,
           Clear, Edit, vars
  <2>2. ~Spend("kill")
    <3>1. "kill" \in Deed
      BY DEF Deed
    <3>2. Spend("kill") => left'["kill"] = left["kill"] - 1 /\ left["kill"] \in Nat
      BY <3>1, SpendTypes DEF TypeInv, TypeOK
    <3> QED
      BY <3>2
  <2> QED
    BY <2>1, <2>2 DEF Kill
<1>2. /\ file'[c] = IF c \in ToWrite THEN Saved(file[c], window[c]) ELSE file[c]
      /\ jobs = <<>>
  BY <1>1 DEF Quit, ChainDone
<1>3. window[c] \in MsgsIn(Copy) /\ window[c] # None /\ i \in DOMAIN window[c]
      /\ file[c] \in MsgsIn(Copy) \cup {None}
  BY MsgsTyped DEF TypeInv, TypeOK, Shown
<1>4. CASE c \in dirty
  <2>1. file'[c] = Saved(file[c], window[c])
    <3>1. DOMAIN Empty = {}
      BY LoadIn
    <3> QED
      BY <1>2, <1>3, <1>4, <3>1 DEF ToWrite
  <2>2. file'[c] # None
    BY <1>3, <2>1, SavedIn, MsgsTyped
  <2>3. \/ i \in DOMAIN file'[c] /\ file'[c][i] = window[c][i]
        \/ i \notin DOMAIN file'[c] /\ Cut(DOMAIN file'[c], i)
    BY <1>3, <2>1, SavedTakes
  <2>4. window[c][i].version \in Nat
    <3>1. window[c][i] \in Copy
      BY <1>3, Contents1
    <3> QED
      BY <3>1, CacheStoreAssumption DEF Copy
  <2> QED
    BY <2>2, <2>3, <2>4 DEF InFile
<1>5. CASE c \notin dirty
  <2>1. Coming(c, i, window[c][i].version)
    BY <1>5 DEF SavedInv, ChatSaved
  <2>2. file'[c] = file[c]
    BY <1>2, <1>5 DEF ToWrite
  <2> QED
    BY <1>2, <2>1, <2>2, ComingWhere DEF TypeInv, TypeOK, InFile
<1> QED
  BY <1>4, <1>5

\* A quit leaves on the disk what the windows show, in the version they show.
THEOREM QuitSavesAlways == Spec => QuitSaves
<1>1. TypeInv /\ OnlyFirst /\ SavedInv /\ [Next]_vars => (TypeInv /\ OnlyFirst /\ SavedInv)'
  BY TypeStep, OnlyFirstStep, SavedStep
<1>2. TypeInv /\ SavedInv /\ [Next]_vars => [SaidQuit]_vars
  BY QuitStep
<1>3. Init => TypeInv /\ OnlyFirst /\ SavedInv
  BY TypeInit, SavedInit
<1>4. Spec => [][SaidQuit]_vars
  BY <1>1, <1>2, <1>3, PTL DEF Spec
<1> QED
  BY <1>4 DEF QuitSaves, SaidQuit

-----------------------------------------------------------------------------
(* The only copy.                                                          *)

LEMMA KnownIs ==
    /\ \A c \in Chat : \A i :
        i \in Known(c) <=> \/ i \in Shown(c)
                           \/ i \in DOMAIN Load(file[c])
                           \/ \E k \in DOMAIN jobs : Writes(k, c, i)
    /\ \A c \in Chat : \A i :
        i \in Known(c)' <=> \/ i \in Shown(c)'
                            \/ i \in DOMAIN Load(file'[c])
                            \/ \E k \in DOMAIN jobs' : Writes(k, c, i)'
BY DEF Known, Writes

LEMMA KnownIds == TypeInv => \A c \in Chat : Known(c) \subseteq Id /\ DOMAIN Load(file[c]) \subseteq Id
<1> SUFFICES ASSUME TypeInv, NEW c \in Chat, NEW i \in Known(c)
             PROVE  i \in Id
  BY KnownIs
<1>1. /\ jobs \in Seq(Job) /\ file[c] \in MsgsIn(Copy) \cup {None}
      /\ window[c] \in MsgsIn(Copy) \cup {None}
  BY MsgsTyped DEF TypeInv, TypeOK
<1>2. \A k \in DOMAIN jobs : jobs[k].kind = "history" => jobs[k].msgs \in MsgsIn(Copy)
  BY <1>1, JobFields, MsgsTyped
<1>3. Load(file[c]) \in MsgsIn(Copy)
  BY <1>1, LoadIn
<1>4. PICK m \in MsgsIn(Copy) : i \in DOMAIN m
  BY <1>1, <1>2, <1>3, KnownIs DEF Shown, Writes
<1> QED
  BY <1>4, Contents1

LEMMA KnownIdsNext ==
    (TypeInv => \A c \in Chat : Known(c) \subseteq Id /\ DOMAIN Load(file[c]) \subseteq Id)'
BY KnownIds, PTL

\* What is known of c stays known, or has Cap newer messages.
StaysKnown(c) == \A i \in Known(c) : i \in Known(c)' \/ Cut(Known(c)', i)

\* No write is taken from the chain.
WritesStay == \A k \in DOMAIN jobs : k \in DOMAIN jobs' /\ jobs'[k] = jobs[k]

LEMMA KnownMore ==
    ASSUME NEW c \in Chat, WritesStay, Shown(c) \subseteq Shown(c)',
           DOMAIN Load(file[c]) \subseteq DOMAIN Load(file'[c])
    PROVE  StaysKnown(c)
<1>1. \A k \in DOMAIN jobs, i \in Known(c) : Writes(k, c, i) => k \in DOMAIN jobs' /\ Writes(k, c, i)'
  BY DEF WritesStay, Writes
<1> QED
  BY <1>1, KnownIs DEF StaysKnown

\* Cut from the file.
LEMMA CutKnown ==
    ASSUME TypeInv', NEW c \in Chat, NEW i \in Id, Cut(DOMAIN Load(file'[c]), i)
    PROVE  Cut(Known(c)', i)
<1>1. Known(c)' \in SUBSET Id /\ DOMAIN Load(file'[c]) \subseteq Known(c)' /\ i \in Nat
  BY KnownIdsNext, KnownIs, IdsFinite
<1> QED
  BY <1>1, CutMore

\* A file that takes a content holds what it brings and what it had.
LEMMA FileTakes ==
    ASSUME TypeInv, TypeInv', NEW c \in Chat, NEW m \in MsgsIn(Copy), file'[c] = Saved(file[c], m),
           NEW i, i \in DOMAIN m \/ i \in DOMAIN Load(file[c])
    PROVE  i \in Known(c)' \/ Cut(Known(c)', i)
<1>1. file[c] \in MsgsIn(Copy) \cup {None} /\ DOMAIN m \subseteq Id /\ DOMAIN Load(file[c]) \subseteq Id
  BY MsgsTyped, KnownIds, Contents1 DEF TypeInv, TypeOK
<1>2. Load(file'[c]) = Saved(file[c], m)
  <2>1. file'[c] # None
    BY <1>1, SavedIn, MsgsTyped
  <2> QED
    BY <2>1 DEF Load
<1>3. i \in DOMAIN Load(file'[c]) \/ Cut(DOMAIN Load(file'[c]), i)
  <2>1. CASE i \in DOMAIN m
    BY <1>1, <1>2, <2>1, SavedTakes
  <2>2. CASE i \notin DOMAIN m
    <3>1. file[c] # None /\ i \in DOMAIN file[c]
      BY <2>2, LoadIn DEF Load
    <3> QED
      BY <1>1, <1>2, <2>2, <3>1, SavedKeeps
  <2> QED
    BY <2>1, <2>2
<1> QED
  BY <1>1, <1>3, KnownIs, CutKnown

\* A window that goes: its content is written, or was there already.
LEMMA KnownWritten ==
    ASSUME TypeInv, TypeInv', SavedInv, InStep, NEW c \in Chat, WritesStay,
           \/ window[c] # None /\ file'[c] = Saved(file[c], window[c])
           \/ file'[c] = file[c] /\ (c \notin dirty \/ Shown(c) = {})
    PROVE  StaysKnown(c)
<1> SUFFICES ASSUME NEW i \in Known(c) PROVE i \in Known(c)' \/ Cut(Known(c)', i)
  BY DEF StaysKnown
<1>1. window[c] \in MsgsIn(Copy) \cup {None} /\ jobs \in Seq(Job) /\ i \in Id
  BY MsgsTyped, KnownIds DEF TypeInv, TypeOK
<1>2. ASSUME NEW k \in DOMAIN jobs, Writes(k, c, i) PROVE i \in Known(c)'
  BY <1>2, KnownIs DEF WritesStay, Writes
<1>3. CASE window[c] # None /\ file'[c] = Saved(file[c], window[c])
  BY <1>1, <1>2, <1>3, FileTakes, KnownIs DEF Shown
<1>4. CASE file'[c] = file[c] /\ (c \notin dirty \/ Shown(c) = {})
  <2>1. CASE i \in DOMAIN Load(file[c])
    BY <1>4, <2>1, KnownIs
  <2>2. CASE i \in Shown(c)
    <3>1. Coming(c, i, window[c][i].version)
      BY <1>4, <2>2 DEF SavedInv, ChatSaved
    <3>2. CASE InFile(file[c], i, window[c][i].version)
      <4>1. i \in DOMAIN Load(file'[c]) \/ Cut(DOMAIN Load(file'[c]), i)
        BY <1>4, <3>2 DEF InFile, Load
      <4> QED
        BY <1>1, <4>1, KnownIs, CutKnown
    <3>3. CASE InJobs(c, i, window[c][i].version)
      BY <1>2, <3>3 DEF InJobs, Writes
    <3> QED
      BY <1>1, <3>1, <3>2, <3>3, ComingWhere
  <2> QED
    BY <1>2, <2>1, <2>2, KnownIs
<1> QED
  BY <1>3, <1>4

\* The first write is done.
LEMMA KnownDone ==
    ASSUME TypeInv, TypeInv', JobDone, NEW c \in Chat
    PROVE  StaysKnown(c)
<1> SUFFICES ASSUME NEW i \in Known(c) PROVE i \in Known(c)' \/ Cut(Known(c)', i)
  BY DEF StaysKnown
<1>1. PICK m \in NextJob :
        /\ jobs' = Without(m)
        /\ \/ /\ jobs[m].kind = "history"
              /\ file' = [file EXCEPT ![jobs[m].chat] = Saved(@, jobs[m].msgs)]
           \/ /\ jobs[m].kind = "dialogs"
              /\ UNCHANGED file
        /\ UNCHANGED window
  BY DEF JobDone, uiVars
<1>2. jobs \in Seq(Job) /\ file \in [Chat -> Messages \cup {None}] /\ i \in Id
  BY KnownIds DEF TypeInv, TypeOK
<1>3. /\ m = 1 /\ 1 \in DOMAIN jobs
      /\ \A k \in DOMAIN jobs : k # 1 => k - 1 \in DOMAIN jobs' /\ jobs'[k - 1] = jobs[k]
  BY <1>1, <1>2, RestOfJobs
<1>4. ASSUME NEW k \in DOMAIN jobs, k # 1, Writes(k, c, i) PROVE i \in Known(c)'
  <2>1. k - 1 \in DOMAIN jobs' /\ Writes(k - 1, c, i)'
    BY <1>3, <1>4 DEF Writes
  <2> QED
    BY <2>1, KnownIs
<1>5. i \in Shown(c) => i \in Known(c)'
  BY <1>1, KnownIs DEF Shown
<1>6. CASE jobs[1].kind = "history" /\ jobs[1].chat = c
  <2>1. jobs[1].msgs \in MsgsIn(Copy)
    BY <1>2, <1>3, <1>6, JobFields, MsgsTyped
  <2>2. file'[c] = Saved(file[c], jobs[1].msgs)
    BY <1>1, <1>2, <1>3, <1>6
  <2>3. Writes(1, c, i) => i \in DOMAIN jobs[1].msgs
    BY DEF Writes
  <2> QED
    BY <1>4, <1>5, <2>1, <2>2, <2>3, FileTakes, KnownIs
<1>7. CASE ~(jobs[1].kind = "history" /\ jobs[1].chat = c)
  <2>1. file'[c] = file[c]
    BY <1>1, <1>2, <1>3, <1>7
  <2>2. ~Writes(1, c, i)
    BY <1>7 DEF Writes
  <2> QED
    BY <1>4, <1>5, <2>1, <2>2, KnownIs
<1> QED
  BY <1>6, <1>7

SaidOnlyCopy ==
    ~net.history /\ left'.kill = left.kill /\ left'.fail = plan.times.fail
    /\ left'.clear = left.clear => KeepsKnown

LEMMA OnlyCopyStep == TypeInv /\ OnlyFirst /\ SavedInv /\ [Next]_vars => SaidOnlyCopy
<1> SUFFICES ASSUME TypeInv, OnlyFirst, SavedInv, [Next]_vars, ~net.history,
                    left'["kill"] = left["kill"], left'["fail"] = plan.times["fail"],
                    left'["clear"] = left["clear"],
                    NEW c \in Chat
             PROVE  StaysKnown(c)
  BY DEF SaidOnlyCopy, KeepsKnown, StaysKnown
<1>1. TypeInv' /\ plan' = plan
  BY TypeStep, PlanKept
<1>2. InStep /\ ~Spend("fail")
  <2>1. "fail" \in Deed /\ Unspent("fail")'
    BY <1>1 DEF Deed, Unspent
  <2> QED
    BY <2>1, UnspentBefore DEF InStep
<1>3. ~Spend("kill") /\ ~Spend("clear")
  <2>1. \A d \in Deed : Spend(d) => left'[d] = left[d] - 1 /\ left[d] \in Nat
    BY SpendTypes DEF TypeInv, TypeOK
  <2>2. "kill" \in Deed /\ "clear" \in Deed
    BY DEF Deed
  <2>3. Spend("kill") => left'["kill"] = left["kill"] - 1 /\ left["kill"] \in Nat
    BY <2>1, <2>2
  <2>4. Spend("clear") => left'["clear"] = left["clear"] - 1 /\ left["clear"] \in Nat
    BY <2>1, <2>2
  <2> QED
    BY <2>3, <2>4
<1>4. /\ jobs \in Seq(Job) /\ self \in Account \cup {None} /\ listed' \in SUBSET Chat
      /\ file \in [Chat -> Messages \cup {None}] /\ window \in [Chat -> Messages \cup {None}]
      /\ dirty \in SUBSET Chat /\ listed \in SUBSET Chat
      /\ ~up => Idle
  BY <1>1 DEF TypeInv, TypeOK
<1>5. ASSUME UNCHANGED <<file, window, jobs>> PROVE StaysKnown(c)
  BY <1>5, KnownMore DEF WritesStay, Shown
<1>6. CASE Start
  <2>1. jobs = <<>> /\ jobs' = <<>> /\ Shown(c) = {} /\ file' = file
    BY <1>4, <1>6 DEF Start, Idle, Shown, diskVars
  <2> QED
    BY <2>1, KnownMore DEF WritesStay
<1>7. CASE Quit
  <2>1. /\ jobs = <<>> /\ jobs' = <<>>
        /\ file'[c] = IF c \in ToWrite THEN Saved(file[c], window[c]) ELSE file[c]
    BY <1>7 DEF Quit, Ends, ChainDone
  <2>2. c \notin ToWrite => c \notin dirty \/ Shown(c) = {}
    BY LoadIn DEF ToWrite, Shown
  <2>3. c \in ToWrite => window[c] # None
    BY DEF ToWrite
  <2>4. WritesStay
    BY <2>1 DEF WritesStay
  <2> QED
    BY <1>1, <1>2, <2>1, <2>2, <2>3, <2>4, KnownWritten
<1>8. CASE Kill \/ JobFails \/ SyncError
  BY <1>2, <1>3, <1>8 DEF Kill, JobFails, SyncError
<1>9. CASE Flush
  <2>1. WritesStay
    BY <1>9, FlushJobs DEF WritesStay, TypeInv
  <2> QED
    BY <1>9, <2>1, KnownMore DEF Flush, Shown, diskVars
<1>10. CASE JobDone
  BY <1>1, <1>10, KnownDone
<1>11. CASE (\E a \in Account : Login(a)) \/ Ready \/ Stopped \/ SyncTick \/ SyncServed \/ (\E x \in Chat : Miss(x))
  BY <1>5, <1>11 DEF Login, Ready, Stopped, SyncTick, SyncServed, Miss, diskVars, uiVars
<1>12. CASE SyncDone
  <2>1. cur.chat \in Chat /\ page \in Messages
    BY <1>12 DEF SyncDone, TypeInv, TypeOK
  <2>2. file' = file
    BY <1>12 DEF SyncDone, diskVars
  <2>3. CASE window[cur.chat] # None
    <3>1. window' = [window EXCEPT ![cur.chat] = Merge(page, window[cur.chat])] /\ jobs' = jobs
      BY <1>12, <2>3 DEF SyncDone
    <3>2. Shown(c) \subseteq Shown(c)'
      <4>1. page \in MsgsIn(Copy) /\ window[cur.chat] \in MsgsIn(Copy)
        BY <1>4, <2>1, <2>3, MsgsTyped
      <4>2. Merge(page, window[cur.chat]) \in MsgsIn(Copy)
        BY <4>1, MergeIn
      <4>3. Merge(page, window[cur.chat]) # None
        BY <4>2, MsgsTyped
      <4>4. DOMAIN window[cur.chat] \subseteq DOMAIN Merge(page, window[cur.chat])
        BY DEF Merge
      <4>5. PICK w : w = Merge(page, window[cur.chat])
        OBVIOUS
      <4> QED
        BY <1>4, <2>1, <3>1, <4>3, <4>4, <4>5 DEF Shown
    <3> QED
      BY <2>2, <3>1, <3>2, KnownMore DEF WritesStay
  <2>4. CASE window[cur.chat] = None
    <3>1. PICK j : j = [kind |-> "history", chat |-> cur.chat, msgs |-> page]
      OBVIOUS
    <3>2. j \in Job
      BY <2>1, <3>1 DEF Job
    <3>3. jobs' \in {jobs, Append(jobs, j)} /\ window' = window
      BY <1>12, <2>4, <3>1 DEF SyncDone
    <3>4. WritesStay
      <4>1. \A k \in DOMAIN jobs : k \in DOMAIN Append(jobs, j) /\ Append(jobs, j)[k] = jobs[k]
        <5>1. Len(jobs) \in Nat /\ DOMAIN jobs = 1 .. Len(jobs)
          BY <1>4, LenProperties
        <5> QED
          BY <1>4, <3>2, <5>1, AppendJob
      <4> QED
        BY <3>3, <4>1 DEF WritesStay
    <3> QED
      BY <2>2, <3>3, <3>4, KnownMore DEF Shown
  <2> QED
    BY <2>3, <2>4
\* A list is written: no write is taken from the chain.
<1>13. ASSUME jobs' = SaveDialogs(listed') PROVE WritesStay
  BY <1>4, <1>13, SaveDialogsJobs DEF WritesStay
\* Chats that go.
<1>14. ASSUME NEW P \in SUBSET Chat, DropChats(P), WritesStay,
              c \notin P => Shown(c) \subseteq Shown(c)'
       PROVE  StaysKnown(c)
  <2>1. file' = [x \in Chat |-> IF x \in P THEN LastLines(x) ELSE file[x]]
    BY <1>14 DEF DropChats
  <2>2. CASE c \notin P
    BY <1>14, <2>1, <2>2, KnownMore
  <2>3. CASE c \in P
    <3>1. file'[c] = IF c \in dirty /\ window[c] # None THEN Saved(file[c], window[c]) ELSE file[c]
      BY <2>1, <2>3 DEF LastLines
    <3>2. window[c] = None => Shown(c) = {}
      BY DEF Shown
    <3> QED
      BY <1>1, <1>2, <1>14, <3>1, <3>2, KnownWritten
  <2> QED
    BY <2>2, <2>3
<1>15. ASSUME NEW x \in Chat, Leave(x) PROVE StaysKnown(c)
  <2>1. PICK P : P = {x}
    OBVIOUS
  <2>2. P \in SUBSET Chat /\ DropChats(P) /\ WritesStay
    BY <1>13, <1>15, <2>1 DEF Leave
  <2>3. c \notin P => Shown(c) \subseteq Shown(c)'
    BY <1>4, <1>15, <2>1 DEF Leave, Shown
  <2> QED
    BY <1>14, <2>2, <2>3
<1>16. ASSUME NEW fresh \in SUBSET Chat, Dialogs(fresh) PROVE StaysKnown(c)
  <2>1. PICK P \in Pruned(fresh), recent \in SUBSET (listed \cup fresh) :
            DropChats(P) /\ window' = Opened(recent, P)
    BY <1>16 DEF Dialogs
  <2>2. P \in SUBSET Chat
    BY <1>4, <2>1 DEF Pruned
  <2>3. WritesStay
    BY <1>13, <1>16 DEF Dialogs
  <2>4. c \notin P => Shown(c) \subseteq Shown(c)'
    BY <2>1 DEF Opened, Bound, Shown
  <2> QED
    BY <1>14, <2>1, <2>2, <2>3, <2>4
<1>17. ASSUME NEW x \in Chat, Post(x) PROVE StaysKnown(c)
  <2>1. PICK m : window' = [window EXCEPT ![x] = Merge(Bound(@, file[x]), m)]
    BY <1>17 DEF Post
  <2>2. window'[x] # None
    BY <1>17, PostedIn, MsgsTyped
  <2>3. UNCHANGED <<file, jobs>>
    BY <1>17 DEF Post, diskVars
  <2>4. window[x] # None => DOMAIN window[x] \subseteq DOMAIN window'[x]
    <3>1. window'[x] = Merge(Bound(window[x], file[x]), m)
      BY <1>4, <2>1
    <3> QED
      BY <3>1 DEF Merge, Bound
  <2>5. x # c => window'[c] = window[c]
    BY <1>4, <2>1
  <2>6. Shown(c) \subseteq Shown(c)'
    BY <2>2, <2>4, <2>5 DEF Shown
  <2> QED
    BY <2>3, <2>6, KnownMore DEF WritesStay
<1>18. ASSUME NEW x \in Chat, Open(x) PROVE StaysKnown(c)
  <2>1. window[x] = None /\ UNCHANGED <<file, jobs>> /\ (x # c => window'[c] = window[c])
    BY <1>4, <1>18 DEF Open, diskVars
  <2>2. Shown(c) \subseteq Shown(c)'
    BY <2>1 DEF Shown
  <2> QED
    BY <2>1, <2>2, KnownMore DEF WritesStay
<1>19. ASSUME NEW x \in Chat, Close(x) PROVE StaysKnown(c)
  <2>1. UNCHANGED jobs /\ window[x] # None /\ (x # c => window'[c] = window[c])
        /\ file' = IF x \in dirty THEN [file EXCEPT ![x] = Saved(@, window[x])] ELSE file
    BY <1>4, <1>19 DEF Close
  <2>2. CASE x # c
    BY <1>4, <2>1, <2>2, KnownMore DEF WritesStay, Shown
  <2>3. CASE x = c
    <3>1. file'[c] = IF c \in dirty THEN Saved(file[c], window[c]) ELSE file[c]
      BY <1>4, <2>1, <2>3
    <3>2. WritesStay
      BY <2>1 DEF WritesStay
    <3> QED
      BY <1>1, <1>2, <2>1, <2>3, <3>1, <3>2, KnownWritten
  <2> QED
    BY <2>2, <2>3
<1>20. ASSUME NEW x \in Chat, Page(x) \/ Clear(x) \/ \E i \in Id : Edit(x, i) PROVE FALSE
  BY <1>3, <1>20 DEF Page, Clear, Edit
<1>21. CASE UNCHANGED vars
  BY <1>5, <1>21 DEF vars, diskVars
<1> QED
  BY <1>6, <1>7, <1>8, <1>9, <1>10, <1>11, <1>12, <1>15, <1>16, <1>17, <1>18, <1>19, <1>20, <1>21
  DEF Next, Process, Network, Windows

\* Where the files are the only copy, a message the program knows stays known.
THEOREM OnlyCopyAlways == Spec => OnlyCopy
<1>1. TypeInv /\ OnlyFirst /\ SavedInv /\ [Next]_vars => (TypeInv /\ OnlyFirst /\ SavedInv)'
  BY TypeStep, OnlyFirstStep, SavedStep
<1>2. TypeInv /\ OnlyFirst /\ SavedInv /\ [Next]_vars => [SaidOnlyCopy]_vars
  BY OnlyCopyStep
<1>3. Init => TypeInv /\ OnlyFirst /\ SavedInv
  BY TypeInit, SavedInit
<1>4. Spec => [][SaidOnlyCopy]_vars
  BY <1>1, <1>2, <1>3, PTL DEF Spec
<1> QED
  BY <1>4 DEF OnlyCopy, SaidOnlyCopy
=============================================================================
