-------------------------- MODULE WorkerCacheProofs --------------------------
(***************************************************************************)
(* Proofs about WorkerCache, for every value of its constants: any number  *)
(* of invocations, bundles and failures.                                   *)
(***************************************************************************)
EXTENDS WorkerCache, FiniteSetTheorems, WellFoundedInduction, SequenceTheorems, TLAPS

-----------------------------------------------------------------------------
\* What the listing of a directory keeps

\* A set of numbers has a least one.
LEMMA Least ==
    ASSUME NEW T \in SUBSET Nat, T # {}
    PROVE  \E n \in T : \A m \in T : n <= m
<1> DEFINE I == {0 .. n : n \in T}
<1>1. I \subseteq FiniteSubsetsOf(Nat) /\ I # {}
  <2>1. \A n \in T : 0 .. n \in SUBSET Nat /\ IsFiniteSet(0 .. n)
    BY FS_Interval
  <2> QED
    BY <2>1 DEF FiniteSubsetsOf
<1>2. PICK x \in I : \A y \in I : <<y, x>> \notin StrictSubsetOrdering(Nat)
  BY <1>1, FS_StrictSubsetOrderingWellFounded, WFMin
<1>3. PICK n \in T : x = 0 .. n
  OBVIOUS
<1>4. ASSUME NEW m \in T, m < n PROVE FALSE
  <2>1. 0 .. m \subseteq 0 .. n /\ 0 .. m # 0 .. n
    BY <1>4
  <2>2. 0 .. m \in SUBSET Nat /\ 0 .. n \in SUBSET Nat
    OBVIOUS
  <2>3. <<0 .. m, x>> \in StrictSubsetOrdering(Nat)
    BY <1>3, <2>1, <2>2 DEF StrictSubsetOrdering
  <2> QED
    BY <1>2, <2>3
<1> QED
  BY <1>4

\* f counts through s, keeping the members of S.
Keeps(f, s, S, k) ==
    /\ DOMAIN f = 0 .. k /\ f[0] = <<>>
    /\ \A n \in 1 .. k : f[n] = IF s[n] \in S THEN Append(f[n - 1], s[n]) ELSE f[n - 1]

\* There is such a function.
LEMMA KeepsExists ==
    ASSUME NEW s, NEW S, NEW n \in Nat
    PROVE  \E f : Keeps(f, s, S, n)
<1> DEFINE Bad == {k \in Nat : ~\E f : Keeps(f, s, S, k)}
<1>1. SUFFICES ASSUME Bad # {} PROVE FALSE
  OBVIOUS
<1>2. PICK k \in Bad : \A m \in Bad : k <= m
  BY <1>1, Least
<1>3. CASE k = 0
  <2>1. Keeps([i \in 0 .. 0 |-> <<>>], s, S, 0)
    BY DEF Keeps
  <2> QED
    BY <1>3, <2>1
<1>4. CASE k # 0
  <2>1. k - 1 \in Nat /\ k - 1 \notin Bad
    BY <1>2, <1>4
  <2>2. PICK f : Keeps(f, s, S, k - 1)
    BY <2>1
  <2> DEFINE g == [i \in 0 .. k |-> IF i = k THEN IF s[k] \in S THEN Append(f[k - 1], s[k]) ELSE f[k - 1]
                                    ELSE f[i]]
  <2>3. Keeps(g, s, S, k)
    BY <2>1, <2>2, <1>4 DEF Keeps
  <2> QED
    BY <2>3
<1> QED
  BY <1>3, <1>4

\* Among(s, S) is its last value.
LEMMA AmongKeeps ==
    ASSUME NEW s, NEW S, Len(s) \in Nat
    PROVE  \E f : Keeps(f, s, S, Len(s)) /\ Among(s, S) = f[Len(s)]
<1> DEFINE n == Len(s)
           Step(h) == [i \in 0 .. n |-> IF i = 0 THEN <<>> ELSE IF s[i] \in S THEN Append(h[i - 1], s[i])
                                                    ELSE h[i - 1]]
           upTo == CHOOSE f : f = Step(f)
<1>1. PICK f : Keeps(f, s, S, n)
  BY KeepsExists
<1> DEFINE g == [i \in 0 .. n |-> f[i]]
<1>2. g = Step(g)
  <2>1. ASSUME NEW i \in 0 .. n
        PROVE  g[i] = IF i = 0 THEN <<>> ELSE IF s[i] \in S THEN Append(g[i - 1], s[i]) ELSE g[i - 1]
    <3>1. CASE i = 0
      BY <1>1, <3>1 DEF Keeps
    <3>2. CASE i # 0
      <4>1. i \in 1 .. n /\ i - 1 \in 0 .. n
        BY <3>2
      <4>2. g[i] = f[i] /\ g[i - 1] = f[i - 1]
        BY <4>1
      <4>3. f[i] = IF s[i] \in S THEN Append(f[i - 1], s[i]) ELSE f[i - 1]
        BY <1>1, <4>1 DEF Keeps
      <4> QED
        BY <3>2, <4>2, <4>3
    <3> QED
      BY <3>1, <3>2
  <2> QED
    BY <2>1
<1>3. upTo = Step(upTo)
  <2> HIDE DEF g, Step
  <2> QED
    BY <1>2
<1>4. Among(s, S) = upTo[n]
  BY DEF Among
<1> HIDE DEF upTo
<1>5. Keeps(upTo, s, S, n)
  <2>1. DOMAIN upTo = 0 .. n
    BY <1>3
  <2>2. \A i \in 0 .. n : upTo[i] = IF i = 0 THEN <<>> ELSE IF s[i] \in S THEN Append(upTo[i - 1], s[i]) ELSE upTo[i - 1]
    BY <1>3
  <2>3. upTo[0] = <<>> /\ 0 \in 0 .. n
    BY <2>2
  <2>4. ASSUME NEW i \in 1 .. n
        PROVE  upTo[i] = IF s[i] \in S THEN Append(upTo[i - 1], s[i]) ELSE upTo[i - 1]
    <3>1. i \in 0 .. n /\ i # 0
      OBVIOUS
    <3> QED
      BY <2>2, <3>1
  <2> QED
    BY <2>1, <2>3, <2>4 DEF Keeps
<1> QED
  BY <1>4, <1>5

\* One more member at the end of a sequence.
LEMMA Appended ==
    ASSUME NEW T, NEW s \in Seq(T), NEW e \in T
    PROVE  /\ Append(s, e) \in Seq(T)
           /\ Range(Append(s, e)) = Range(s) \cup {e}
           /\ IsInjective(s) /\ e \notin Range(s) => IsInjective(Append(s, e))
<1> DEFINE a == Append(s, e)
<1>1. a \in Seq(T) /\ Len(s) \in Nat /\ DOMAIN s = 1 .. Len(s) /\ DOMAIN a = 1 .. Len(s) + 1
      /\ a[Len(s) + 1] = e /\ \A i \in 1 .. Len(s) : a[i] = s[i]
  OBVIOUS
<1> HIDE DEF a
<1>2. Range(a) = Range(s) \cup {e}
  <2>1. \A i \in 1 .. Len(s) + 1 : i \in 1 .. Len(s) \/ i = Len(s) + 1
    BY <1>1
  <2>2. 1 .. Len(s) \subseteq 1 .. Len(s) + 1 /\ Len(s) + 1 \in 1 .. Len(s) + 1
    BY <1>1
  <2> QED
    BY <1>1, <2>1, <2>2 DEF Range
<1>3. ASSUME IsInjective(s), e \notin Range(s) PROVE IsInjective(a)
  <2>1. \A i \in 1 .. Len(s) : a[i] \in Range(s)
    BY <1>1 DEF Range
  <2>2. ASSUME NEW i \in DOMAIN a, NEW j \in DOMAIN a, a[i] = a[j] PROVE i = j
    <3>1. CASE i \in 1 .. Len(s) /\ j \in 1 .. Len(s)
      BY <1>1, <1>3, <2>2, <3>1 DEF IsInjective
    <3>2. CASE i \notin 1 .. Len(s) /\ j \in 1 .. Len(s)
      BY <1>1, <1>3, <2>1, <2>2, <3>2
    <3>3. CASE i \in 1 .. Len(s) /\ j \notin 1 .. Len(s)
      BY <1>1, <1>3, <2>1, <2>2, <3>3
    <3>4. CASE i \notin 1 .. Len(s) /\ j \notin 1 .. Len(s)
      BY <1>1, <3>4
    <3> QED
      BY <3>1, <3>2, <3>3, <3>4
  <2> QED
    BY <2>2 DEF IsInjective
<1> QED
  BY <1>1, <1>2, <1>3 DEF a

\* Among(s, S) is a sequence of the members of s that are in S, none of them
\* more often than in s.
LEMMA AmongIs ==
    ASSUME NEW T, NEW s \in Seq(T), NEW S
    PROVE  /\ Among(s, S) \in Seq(T)
           /\ Range(Among(s, S)) = Range(s) \cap S
           /\ IsInjective(s) => IsInjective(Among(s, S))
<1>1. Len(s) \in Nat /\ DOMAIN s = 1 .. Len(s) /\ \A i \in 1 .. Len(s) : s[i] \in T
  OBVIOUS
<1>2. PICK f : Keeps(f, s, S, Len(s)) /\ Among(s, S) = f[Len(s)]
  BY <1>1, AmongKeeps
<1> DEFINE Seen(k) == {s[i] : i \in 1 .. k}
           Good(k) == /\ f[k] \in Seq(T) /\ Range(f[k]) = Seen(k) \cap S
                      /\ IsInjective(s) => IsInjective(f[k])
           Bad == {k \in 0 .. Len(s) : ~Good(k)}
<1>3. SUFFICES ASSUME Bad # {} PROVE FALSE
  <2>1. Seen(Len(s)) = Range(s) /\ Len(s) \in 0 .. Len(s)
    BY <1>1 DEF Range
  <2>2. Good(Len(s)) <=> /\ Among(s, S) \in Seq(T) /\ Range(Among(s, S)) = Range(s) \cap S
                         /\ IsInjective(s) => IsInjective(Among(s, S))
    <3> HIDE DEF Seen
    <3> QED
      BY <1>2, <2>1
  <2>3. Good(Len(s)) \/ Len(s) \in Bad
    <3> HIDE DEF Good
    <3> QED
      BY <2>1
  <2> HIDE DEF Good, Bad
  <2> QED
    BY <2>2, <2>3
<1>4. PICK k \in Bad : \A m \in Bad : k <= m
  <2>1. Bad \subseteq Nat
    BY <1>1
  <2> HIDE DEF Bad
  <2> QED
    BY <1>3, <2>1, Least
<1>5. k \in 0 .. Len(s) /\ ~Good(k)
  <2> HIDE DEF Good
  <2> QED
    BY <1>4
<1>6. CASE k = 0
  <2>1. f[0] = <<>>
    BY <1>2 DEF Keeps
  <2>2. <<>> \in Seq(T) /\ Range(<<>>) = {} /\ IsInjective(<<>>) /\ Seen(0) = {}
    BY DEF Range, IsInjective
  <2>3. Good(0)
    <3> HIDE DEF Seen
    <3> QED
      BY <2>1, <2>2
  <2> HIDE DEF Good
  <2> QED
    BY <1>5, <1>6, <2>3
<1>7. CASE k # 0
  <2>1. k \in 1 .. Len(s) /\ k - 1 \in 0 .. Len(s)
    BY <1>1, <1>5, <1>6, <1>7
  <2>2. k - 1 \notin Bad
    <3> HIDE DEF Bad
    <3> QED
      BY <1>4, <1>5, <2>1, <1>1
  <2>3. Good(k - 1)
    <3> HIDE DEF Good
    <3> QED
      BY <2>1, <2>2
  <2>4. f[k] = IF s[k] \in S THEN Append(f[k - 1], s[k]) ELSE f[k - 1]
    BY <1>2, <2>1 DEF Keeps
  <2>5. Seen(k) = Seen(k - 1) \cup {s[k]}
    <3>1. 1 .. k = (1 .. k - 1) \cup {k}
      BY <1>1, <2>1
    <3> QED
      BY <3>1
  <2>6. s[k] \in T
    BY <1>1, <2>1
  <2>7. IsInjective(s) => s[k] \notin Seen(k - 1)
    <3>1. \A i \in 1 .. k - 1 : i \in DOMAIN s /\ i # k
      BY <1>1, <2>1
    <3> QED
      BY <1>1, <2>1, <3>1 DEF IsInjective
  <2> HIDE DEF Seen
  <2>8. CASE s[k] \notin S
    <3>1. Good(k)
      BY <2>3, <2>4, <2>5, <2>8
    <3> HIDE DEF Good
    <3> QED
      BY <1>5, <3>1
  <2>9. CASE s[k] \in S
    <3>1. f[k] = Append(f[k - 1], s[k])
      BY <2>4, <2>9
    <3>2. /\ f[k] \in Seq(T) /\ Range(f[k]) = Range(f[k - 1]) \cup {s[k]}
          /\ IsInjective(f[k - 1]) /\ s[k] \notin Range(f[k - 1]) => IsInjective(f[k])
      BY <2>3, <2>6, <3>1, Appended
    <3>3. Good(k)
      BY <2>3, <2>5, <2>7, <2>9, <3>2
    <3> HIDE DEF Good
    <3> QED
      BY <1>5, <3>3
  <2> QED
    BY <2>8, <2>9
<1> QED
  BY <1>6, <1>7

-----------------------------------------------------------------------------
\* The inductive invariant

\* What the staging directory of an invocation that got this far holds.
Uploaded(state) ==
    CASE state = "runtime" -> {"worker"}
      [] state = "marker" -> {"worker", "runtime"}
      [] state \in {"commit", "move"} -> Members
      [] OTHER -> {}

\* An upload is to a directory that is there and holds all that was uploaded,
\* unless it was cleaned away.
Staged(c) ==
    /\ c \in uploading => cli[c] \in Members
    /\ c \notin swept =>
          /\ c \in uploading \/ cli[c] \in {"runtime", "marker", "commit", "move"} => Present(c)
          /\ Uploaded(cli[c]) \subseteq staging[c]

\* A bundle of which something is there is listed.
Listed(b) == bundle[b] # {} => Present(b)

\* A client that is going to start the cached worker finds it, or something was
\* cleaned away.
Installed(c) ==
    cli[c] = "spawn" \/ (managed[c] /\ worker[c] \in {"spawned", "loading"}) =>
        c \in swept \/ Present(Bundle[c]) \/ Bundle[c] \in damaged

Trouble(c) == c \in excused \cup swept \/ Bundle[c] \in damaged \/ installed.noexec

\* Why a worker ended, and why it is the installed one.
Explained(c) ==
    /\ worker[c] = "loading" => managed[c]
    /\ worker[c] = "exited" => IF managed[c] THEN Trouble(c) ELSE c \in excused \/ ~installed.starts
    /\ ~managed[c] => installed.build = Bundle[c] \/ (installed.build # None /\ Trouble(c))

Removing(c) ==
    /\ cli[c] = "remove" => deleting[c] # <<>>
    /\ cli[c] \notin {"prune", "remove"} => deleting[c] = <<>>

\* What c has not listed for removal.
Left(c) == {b \in Bundles : Present(b) /\ b \notin Range(deleting[c])}

HasListed(c) == managed[c] /\ cli[c] \in {"prune", "remove", "await", "ready"}

\* When all have listed the cache, the last one to do so leaves no more than
\* what is to be retained.
Pruned ==
    kept = {} /\ excused = {} /\ (\A c \in Clients : HasListed(c)) =>
        \E c \in Clients : IsFiniteSet(Left(c)) /\ Cardinality(Left(c)) <= Retained

IInv ==
    /\ TypeOK /\ PublishedWhole /\ FailureHasCause /\ Pruned
    /\ \A b \in Bundles : Listed(b)
    /\ \A c \in Clients : Staged(c) /\ Installed(c) /\ Explained(c) /\ Removing(c)

-----------------------------------------------------------------------------
\* The directories of the cache

Directories(r) == r \in Seq(Bundles \cup Clients) /\ IsInjective(r)

\* One directory less.
LEMMA WithoutIs ==
    ASSUME NEW r, Directories(r), NEW d
    PROVE  Directories(Without(r, d)) /\ Range(Without(r, d)) = Range(r) \ {d}
<1>1. Range(r) \cap (Range(r) \ {d}) = Range(r) \ {d}
  OBVIOUS
<1> QED
  BY <1>1, AmongIs DEF Directories, Without

\* A directory becomes the newest, or is made.
LEMMA TouchedIs ==
    ASSUME Directories(recent), NEW d \in Bundles \cup Clients
    PROVE  Directories(Touched(d)) /\ Range(Touched(d)) = Range(recent) \cup {d}
<1> DEFINE T == Bundles \cup Clients
           w == Without(recent, d)
           t == <<d>> \o w
<1>1. w \in Seq(T) /\ IsInjective(w) /\ Range(w) = Range(recent) \ {d}
  BY WithoutIs DEF Directories
<1>2. Touched(d) = t
  BY DEF Touched
<1> HIDE DEF w, T
<1>3. t \in Seq(T) /\ Len(w) \in Nat /\ DOMAIN w = 1 .. Len(w) /\ DOMAIN t = 1 .. Len(w) + 1
      /\ t[1] = d /\ \A i \in 1 .. Len(w) : t[i + 1] = w[i]
  BY <1>1 DEF T
<1> HIDE DEF t
<1>4. \A i \in DOMAIN t : i = 1 \/ (i - 1 \in 1 .. Len(w) /\ t[i] = w[i - 1])
  <2>1. ASSUME NEW i \in 1 .. Len(w) + 1, i # 1 PROVE i - 1 \in 1 .. Len(w) /\ (i - 1) + 1 = i
    BY <1>3, <2>1
  <2> QED
    BY <1>3, <2>1
<1>5. Range(t) = Range(w) \cup {d}
  <2>1. Range(t) \subseteq Range(w) \cup {d}
    BY <1>3, <1>4 DEF Range
  <2>2. \A i \in 1 .. Len(w) : i + 1 \in 1 .. Len(w) + 1
    BY <1>3
  <2>3. d \in Range(t)
    BY <1>3 DEF Range
  <2>4. ASSUME NEW i \in DOMAIN w PROVE w[i] \in Range(t)
    <3>1. i + 1 \in DOMAIN t /\ t[i + 1] = w[i]
      BY <1>3, <2>2
    <3> QED
      BY <3>1 DEF Range
  <2>5. Range(w) \subseteq Range(t)
    BY <2>4 DEF Range
  <2> QED
    BY <2>1, <2>3, <2>5
<1>6. IsInjective(t)
  <2>1. \A i \in 1 .. Len(w) : w[i] \in Range(w) /\ w[i] # d
    BY <1>1, <1>3 DEF Range
  <2>2. ASSUME NEW i \in DOMAIN t, NEW j \in DOMAIN t, t[i] = t[j] PROVE i = j
    <3>1. CASE i = 1 \/ j = 1
      BY <1>3, <1>4, <2>1, <2>2, <3>1
    <3>2. CASE i # 1 /\ j # 1
      <4>1. i - 1 \in 1 .. Len(w) /\ j - 1 \in 1 .. Len(w) /\ w[i - 1] = w[j - 1]
        BY <1>4, <2>2, <3>2
      <4>2. i - 1 = j - 1
        BY <1>1, <1>3, <4>1 DEF IsInjective
      <4> QED
        BY <1>3, <4>2
    <3> QED
      BY <3>1, <3>2
  <2> QED
    BY <2>2 DEF IsInjective
<1>7. Range(t) = Range(recent) \cup {d}
  BY <1>1, <1>5
<1> QED
  BY <1>2, <1>3, <1>6, <1>7 DEF Directories, T

\* A directory gets the name of another, which is not there.
LEMMA RenamedIs ==
    ASSUME NEW r, Directories(r), NEW c, NEW b \in Bundles \cup Clients, b \notin Range(r), c \in Range(r)
    PROVE  LET n == [i \in DOMAIN r |-> IF r[i] = c THEN b ELSE r[i]]
           IN  Directories(n) /\ Range(n) = (Range(r) \ {c}) \cup {b}
<1> DEFINE n == [i \in DOMAIN r |-> IF r[i] = c THEN b ELSE r[i]]
<1>1. r \in Seq(Bundles \cup Clients) /\ IsInjective(r) /\ Len(r) \in Nat /\ DOMAIN r = 1 .. Len(r)
  BY DEF Directories
<1>2. \A i \in DOMAIN r : r[i] \in Bundles \cup Clients
  BY <1>1
<1>3. n \in Seq(Bundles \cup Clients)
  BY <1>1, <1>2
<1>4. DOMAIN n = DOMAIN r /\ \A i \in DOMAIN r : n[i] = IF r[i] = c THEN b ELSE r[i]
  OBVIOUS
<1> HIDE DEF n
<1>5. Range(n) = (Range(r) \ {c}) \cup {b}
  BY <1>4 DEF Range
<1>6. IsInjective(n)
  BY <1>1, <1>4 DEF IsInjective, Range
<1> QED
  BY <1>3, <1>5, <1>6 DEF Directories, n

-----------------------------------------------------------------------------
\* Types

\* A bundle and a staging directory never have the same name.
LEMMA Names ==
    /\ Clients \cap Bundles = {} /\ None \notin Clients /\ None \notin Bundles
    /\ \A c \in Clients : c \in Bundles \cup Clients /\ c \notin Bundles
    /\ \A b \in Bundles : b \in Bundles \cup Clients /\ b \notin Clients
  BY CacheAssumption

\* Taking the first of a list away leaves the rest.
LEMMA Rest ==
    ASSUME NEW T, NEW s \in Seq(T), s # <<>>
    PROVE  Head(s) \in T /\ Tail(s) \in Seq(T)
  OBVIOUS

\* What a cleanup lists is a list of bundles.
LEMMA SuperfluousType ==
    ASSUME Directories(recent)
    PROVE  Superfluous(Among(recent, Bundles)) \in Seq(Bundles)
<1> DEFINE l == Among(recent, Bundles)
<1>1. l \in Seq(Bundles \cup Clients) /\ Range(l) \subseteq Bundles
  BY AmongIs DEF Directories
<1> HIDE DEF l
<1>2. l \in Seq(Bundles)
  BY <1>1 DEF Range
<1> QED
  BY <1>2, CacheAssumption DEF Superfluous, l

\* What is left of the list of a cleanup whose directory is gone.
LEMMA SkipDroppedType ==
    ASSUME TypeOK, \A d \in Clients : Removing(d), NEW b,
           NEW next \in [Clients -> Working \cup Ended], SkipDropped(b, next)
    PROVE  cli' \in [Clients -> Working \cup Ended] /\ deleting' \in [Clients -> Seq(Bundles)]
<1>1. "prune" \in Working \cup Ended
  BY DEF Working
<1>2. \A d \in Dropped(b) : deleting[d] \in Seq(Bundles) /\ deleting[d] # <<>>
  BY DEF Dropped, Removing, TypeOK
<1>3. \A d \in Dropped(b) : Tail(deleting[d]) \in Seq(Bundles)
  BY <1>2, Rest
<1> QED
  BY <1>1, <1>3 DEF SkipDropped, TypeOK

\* What moving a staging directory into place does to the cache, in types.
LEMMA PublishType ==
    ASSUME TypeOK, \A d \in Clients : Removing(d), \A b \in Bundles : Listed(b),
           NEW c \in Clients, Move(c)
    PROVE  /\ Directories(recent') /\ Range(recent') = (Range(recent) \ {c}) \cup {Bundle[c]}
           /\ bundle' \in [Bundles -> SUBSET Entries] /\ publisher' \in [Bundles -> Clients \cup {None}]
           /\ cli' \in [Clients -> Working \cup Ended] /\ deleting' \in [Clients -> Seq(Bundles)]
           /\ damaged' \in SUBSET Bundles
<1> DEFINE b == Bundle[c]
<1>1. b \in Bundles /\ b \notin Clients /\ c \notin Bundles /\ b # c
  BY Names DEF TypeOK
<1>2. Directories(recent) /\ c \in Range(recent) /\ b \in Bundles \cup Clients
  BY <1>1 DEF TypeOK, Directories, Move, Present
<1>3. "spawn" \in Working \cup Ended /\ AfterMove(c) = "spawn" /\ Members \subseteq Entries /\ "nested" \in Entries
  BY DEF Working, AfterMove, Entries
<1>4. CASE Replaces(b)
  <2>1. Publish(c, b)
    BY <1>4 DEF Move
  <2>2. Directories(Without(recent, b)) /\ Range(Without(recent, b)) = Range(recent) \ {b}
    BY <1>2, WithoutIs
  <2>3. Directories(recent') /\ Range(recent') = ((Range(recent) \ {b}) \ {c}) \cup {b}
    BY <1>1, <1>2, <2>1, <2>2, RenamedIs DEF Publish
  <2>4. bundle' \in [Bundles -> SUBSET Entries]
    BY <1>1, <1>3, <2>1 DEF Publish, TypeOK
  <2>5. publisher' \in [Bundles -> Clients \cup {None}] /\ damaged' \in SUBSET Bundles
    BY <1>1, <2>1 DEF Publish, TypeOK
  <2>6. [cli EXCEPT ![c] = "spawn"] \in [Clients -> Working \cup Ended]
    BY <1>3 DEF TypeOK
  <2>7. cli' \in [Clients -> Working \cup Ended] /\ deleting' \in [Clients -> Seq(Bundles)]
    BY <2>1, <2>6, SkipDroppedType DEF Publish
  <2> QED
    BY <1>1, <2>3, <2>4, <2>5, <2>7
<1>5. CASE ~Replaces(b)
  <2>1. Nest(c, b)
    BY <1>5 DEF Move
  <2>2. Directories(Touched(b)) /\ Range(Touched(b)) = Range(recent) \cup {b}
    BY <1>2, TouchedIs
  <2>3. Directories(recent') /\ Range(recent') = (Range(recent) \cup {b}) \ {c}
    BY <2>1, <2>2, WithoutIs DEF Nest
  <2>4. bundle' \in [Bundles -> SUBSET Entries]
    BY <1>1, <1>3, <2>1 DEF Nest, TypeOK
  <2>5. cli' \in [Clients -> Working \cup Ended]
    BY <1>3, <2>1 DEF Nest, Goto, TypeOK
  <2> QED
    BY <1>1, <2>1, <2>3, <2>4, <2>5 DEF Nest, TypeOK
<1> QED
  BY <1>4, <1>5

\* Every step keeps the types.
LEMMA TypeNext ==
    ASSUME TypeOK, \A d \in Clients : Removing(d), \A b \in Bundles : Listed(b),
           \A d \in Clients : Staged(d), [Next]_vars
    PROVE  TypeOK'
<1>1. CASE UNCHANGED vars
  BY <1>1 DEF vars, hostVars, cacheVars, historyVars, TypeOK
<1>2. ASSUME NEW c \in Clients, ProbeFails(c) PROVE TypeOK'
  BY <1>2 DEF ProbeFails, Goto, hostVars, cacheVars, historyVars, TypeOK, Working, Ended, Members
<1>3. ASSUME NEW c \in Clients, Discover(c) PROVE TypeOK'
  BY <1>3 DEF Discover, Goto, hostVars, cacheVars, historyVars, TypeOK, Working, Ended, Members
<1>4. ASSUME NEW c \in Clients, DiscoverUnavailable(c) PROVE TypeOK'
  BY <1>4 DEF DiscoverUnavailable, Goto, hostVars, cacheVars, historyVars, TypeOK, Working,
    Ended, Members
<1>5. ASSUME NEW c \in Clients, CheckCache(c) PROVE TypeOK'
  BY <1>5 DEF CheckCache, Goto, CacheHit, hostVars, cacheVars, historyVars, TypeOK, Working,
    Ended, Members
<1>6. ASSUME NEW c \in Clients, UploadOpens(c) PROVE TypeOK'
  <2>1. Directories(recent')
    BY <1>6, TouchedIs, Names DEF UploadOpens, TypeOK, Directories
  <2> QED
    BY <1>6, <2>1 DEF UploadOpens, TypeOK, Directories, hostVars, historyVars
<1>7. ASSUME NEW c \in Clients, UploadEnds(c) PROVE TypeOK'
  <2>1. cli[c] \in Members
    BY <1>7 DEF UploadEnds, Staged
  <2>2. cli' \in [Clients -> Working \cup Ended]
    BY <1>7, <2>1 DEF UploadEnds, Goto, AfterUpload, TypeOK, Working, Ended, Members
  <2>3. staging' \in [Clients -> SUBSET Members]
    BY <1>7, <2>1 DEF UploadEnds, TypeOK
  <2> QED
    BY <1>7, <2>2, <2>3 DEF UploadEnds, TypeOK, hostVars, historyVars
<1>8. ASSUME NEW c \in Clients, UploadFails(c) PROVE TypeOK'
  BY <1>8 DEF UploadFails, Goto, FailedUpload, hostVars, cacheVars, historyVars, TypeOK,
    Working, Ended, Members
<1>9. ASSUME NEW c \in Clients, CommitTest(c) PROVE TypeOK'
  <2>1. Directories(recent')
    <3>1. Directories(recent)
      BY DEF TypeOK, Directories
    <3>2. recent' = Without(recent, c) \/ recent' = recent
      BY <1>9 DEF CommitTest
    <3> QED
      BY <3>1, <3>2, WithoutIs
  <2>2. cli' \in [Clients -> Working \cup Ended]
    BY <1>9 DEF CommitTest, Goto, TypeOK, Working
  <2>3. staging' \in [Clients -> SUBSET Members] /\ stale' \in SUBSET Clients
    BY <1>9 DEF CommitTest, TypeOK
  <2>4. UNCHANGED <<hostVars, bundle, uploading, deleting, managed, worker, historyVars>>
    BY <1>9 DEF CommitTest
  <2> QED
    BY <2>1, <2>2, <2>3, <2>4 DEF TypeOK, Directories, hostVars, historyVars
<1>10. ASSUME NEW c \in Clients, CommitFails(c) PROVE TypeOK'
  BY <1>10 DEF CommitFails, Goto, hostVars, cacheVars, historyVars, TypeOK, Working, Ended, Members
<1>11. ASSUME NEW c \in Clients, Move(c) PROVE TypeOK'
  <2>1. Directories(recent') /\ bundle' \in [Bundles -> SUBSET Entries]
        /\ publisher' \in [Bundles -> Clients \cup {None}]
        /\ cli' \in [Clients -> Working \cup Ended] /\ deleting' \in [Clients -> Seq(Bundles)] /\ damaged' \in SUBSET Bundles
    BY <1>11, PublishType
  <2>2. UNCHANGED <<hostVars, uploading, managed, worker, excused, swept, kept>>
        /\ staging' = [staging EXCEPT ![c] = {}] /\ stale' = stale \ {c}
    BY <1>11 DEF Move
  <2> QED
    BY <2>1, <2>2 DEF TypeOK, Directories, hostVars
<1>12. ASSUME NEW c \in Clients, NothingToMove(c) PROVE TypeOK'
  BY <1>12 DEF NothingToMove, Goto, AfterMove, hostVars, cacheVars, historyVars, TypeOK,
    Working, Ended, Members
<1>13. ASSUME NEW c \in Clients, Spawn(c) PROVE TypeOK'
  BY <1>13 DEF Spawn, Goto, hostVars, cacheVars, historyVars, TypeOK, Working, Ended, Members
<1>14. ASSUME NEW c \in Clients, List(c) PROVE TypeOK'
  <2>1. Superfluous(Among(recent, Bundles)) \in Seq(Bundles)
    BY SuperfluousType DEF TypeOK, Directories
  <2>2. deleting' \in [Clients -> Seq(Bundles)]
    BY <1>14, <2>1 DEF List, TypeOK
  <2>3. cli' \in [Clients -> Working \cup Ended]
    BY <1>14 DEF List, Goto, TypeOK, Working
  <2> QED
    BY <1>14, <2>2, <2>3 DEF List, TypeOK, hostVars, cacheVars, historyVars
<1>15. ASSUME NEW c \in Clients, ListFails(c) PROVE TypeOK'
  BY <1>15 DEF ListFails, Goto, hostVars, cacheVars, historyVars, TypeOK, Working, Ended, Members
<1>16. ASSUME NEW c \in Clients, RemoveNext(c) PROVE TypeOK'
  <2>1. deleting[c] \in Seq(Bundles) /\ Tail(deleting[c]) \in Seq(Bundles)
    BY <1>16, Rest DEF RemoveNext, TypeOK
  <2>2. deleting' \in [Clients -> Seq(Bundles)]
    BY <1>16, <2>1 DEF RemoveNext, TypeOK
  <2>3. cli' \in [Clients -> Working \cup Ended]
    BY <1>16 DEF RemoveNext, Goto, TypeOK, Working
  <2> QED
    BY <1>16, <2>2, <2>3 DEF RemoveNext, TypeOK, hostVars, cacheVars, historyVars
<1>17. ASSUME NEW c \in Clients, RemoveDirectory(c) PROVE TypeOK'
  <2> DEFINE b == Head(deleting[c])
  <2>1. Directories(recent')
    BY <1>17, WithoutIs DEF RemoveDirectory, TypeOK, Directories
  <2>2. cli' \in [Clients -> Working \cup Ended] /\ deleting' \in [Clients -> Seq(Bundles)]
    BY <1>17, SkipDroppedType DEF RemoveDirectory, TypeOK
  <2>3. UNCHANGED <<hostVars, bundle, staging, stale, uploading, managed, worker, historyVars>>
    BY <1>17 DEF RemoveDirectory
  <2> QED
    BY <2>1, <2>2, <2>3 DEF TypeOK, Directories, hostVars, historyVars
<1>18. ASSUME NEW c \in Clients, RemoveFails(c) PROVE TypeOK'
  <2>1. Head(deleting[c]) \in Bundles /\ Tail(deleting[c]) \in Seq(Bundles)
    BY <1>18, Rest DEF RemoveFails, TypeOK, Removing
  <2>2. deleting' \in [Clients -> Seq(Bundles)] /\ kept' \in SUBSET Bundles
    BY <1>18, <2>1 DEF RemoveFails, TypeOK
  <2>3. cli' \in [Clients -> Working \cup Ended]
    BY <1>18 DEF RemoveFails, Goto, TypeOK, Working
  <2> QED
    BY <1>18, <2>2, <2>3 DEF RemoveFails, TypeOK, hostVars, cacheVars
<1>19. ASSUME NEW c \in Clients, Sweep(c) PROVE TypeOK'
  <2>1. Directories(recent')
    BY <1>19, AmongIs DEF Sweep, TypeOK, Directories
  <2>2. cli' \in [Clients -> Working \cup Ended]
    BY <1>19 DEF Sweep, Goto, TypeOK, Working
  <2> QED
    BY <1>19, <2>1, <2>2 DEF Sweep, TypeOK, Directories, hostVars
<1>20. ASSUME NEW c \in Clients, NEW entry \in Entries, RemoveEntry(c, entry) PROVE TypeOK'
  <2> DEFINE b == Head(deleting[c])
  <2>1. b \in Bundles
    BY <1>20, Rest DEF RemoveEntry, TypeOK, Removing
  <2>2. Directories(recent')
    BY <1>20, <2>1, TouchedIs, Names DEF RemoveEntry, TypeOK, Directories
  <2>3. bundle' \in [Bundles -> SUBSET Entries] /\ damaged' \in SUBSET Bundles
    BY <1>20, <2>1 DEF RemoveEntry, TypeOK
  <2>4. UNCHANGED <<hostVars, staging, stale, cli, uploading, deleting, managed, worker, excused, swept, kept, publisher>>
    BY <1>20 DEF RemoveEntry
  <2> QED
    BY <2>2, <2>3, <2>4 DEF TypeOK, Directories, hostVars
<1>21. ASSUME NEW c \in Clients, AwaitReady(c) PROVE TypeOK'
  BY <1>21 DEF AwaitReady, Goto, hostVars, cacheVars, historyVars, TypeOK, Working, Ended, Members
<1>22. ASSUME NEW c \in Clients, AwaitEnd(c) PROVE TypeOK'
  BY <1>22 DEF AwaitEnd, Goto, ManagedNow, hostVars, cacheVars, historyVars, TypeOK, Working,
    Ended, Members
<1>23. ASSUME NEW c \in Clients, WorkerExec(c) PROVE TypeOK'
  BY <1>23 DEF WorkerExec, hostVars, cacheVars, historyVars, TypeOK, Working, Ended, Members
<1>24. ASSUME NEW c \in Clients, WorkerLoad(c) PROVE TypeOK'
  BY <1>24 DEF WorkerLoad, hostVars, cacheVars, historyVars, TypeOK, Working, Ended, Members
<1>25. ASSUME NEW c \in Clients, WorkerCut(c) PROVE TypeOK'
  BY <1>25 DEF WorkerCut, hostVars, cacheVars, historyVars, TypeOK, Working, Ended, Members
<1>26. ASSUME NEW c \in Clients, Interrupt(c) PROVE TypeOK'
  BY <1>26 DEF Interrupt, Goto, hostVars, cacheVars, historyVars, TypeOK, Working, Ended, Members
<1>27. ASSUME NEW c \in Clients, GrowsStale(c) PROVE TypeOK'
  BY <1>27 DEF GrowsStale, hostVars, cacheVars, historyVars, TypeOK, Working, Ended, Members
<1> QED
  BY <1>1, <1>2, <1>3, <1>4, <1>5, <1>6, <1>7, <1>8, <1>9, <1>10, <1>11, <1>12, <1>13, <1>14,
    <1>15, <1>16, <1>17, <1>18, <1>19, <1>20, <1>21, <1>22, <1>23, <1>24, <1>25, <1>26, <1>27
    DEF Next, CliNext, Prune, WorkerNext, Finished

-----------------------------------------------------------------------------
\* Which directories there are

\* The directories each step makes and removes.
LEMMA PresentStep ==
    ASSUME TypeOK, \A d \in Clients : Removing(d), \A b \in Bundles : Listed(b), NEW c \in Clients
    PROVE  /\ UploadOpens(c) => Range(recent') = Range(recent) \cup {c}
           /\ CommitTest(c) => Range(recent') = IF Present(Bundle[c]) THEN Range(recent) \ {c} ELSE Range(recent)
           /\ Move(c) => Range(recent') = (Range(recent) \ {c}) \cup {Bundle[c]}
           /\ \A entry \in Entries : RemoveEntry(c, entry) => Range(recent') = Range(recent)
           /\ RemoveDirectory(c) => Range(recent') = Range(recent) \ {Head(deleting[c])}
           /\ Sweep(c) => Range(recent') = Range(recent) \ stale
<1>1. Directories(recent)
  BY DEF TypeOK, Directories
<1>2. UploadOpens(c) => Range(recent') = Range(recent) \cup {c}
  BY <1>1, TouchedIs DEF UploadOpens
<1>3. CommitTest(c) => Range(recent') = IF Present(Bundle[c]) THEN Range(recent) \ {c} ELSE Range(recent)
  BY <1>1, WithoutIs DEF CommitTest
<1>4. Move(c) => Range(recent') = (Range(recent) \ {c}) \cup {Bundle[c]}
  BY PublishType
<1>5. ASSUME NEW entry \in Entries, RemoveEntry(c, entry) PROVE Range(recent') = Range(recent)
  <2> DEFINE b == Head(deleting[c])
  <2>1. b \in Bundles
    BY <1>5, Rest DEF RemoveEntry, TypeOK, Removing
  <2>2. entry \in bundle[b] /\ recent' = Touched(b)
    BY <1>5 DEF RemoveEntry
  <2>3. b \in Range(recent)
    BY <2>1, <2>2 DEF Listed, Present
  <2> HIDE DEF b
  <2> QED
    BY <1>1, <2>1, <2>2, <2>3, TouchedIs
<1>6. RemoveDirectory(c) => Range(recent') = Range(recent) \ {Head(deleting[c])}
  BY <1>1, WithoutIs DEF RemoveDirectory
<1>7. ASSUME Sweep(c) PROVE Range(recent') = Range(recent) \ stale
  <2>1. recent' = Among(recent, Range(recent) \ stale) /\ recent \in Seq(Bundles \cup Clients)
    BY <1>1, <1>7 DEF Sweep, Directories
  <2> QED
    BY <2>1, AmongIs
<1> QED
  BY <1>2, <1>3, <1>4, <1>5, <1>6, <1>7

\* A directory is removed when nothing is left in it.
LEMMA ListedNext ==
    ASSUME TypeOK, \A d \in Clients : Removing(d), \A b \in Bundles : Listed(b),
           [Next]_vars
    PROVE  \A b \in Bundles : Listed(b)'
<1>1. CASE UNCHANGED vars
  BY <1>1 DEF vars, cacheVars, Listed, Present
<1>2. ASSUME NEW c \in Clients, ProbeFails(c) PROVE \A b \in Bundles : Listed(b)'
  BY <1>2 DEF ProbeFails, cacheVars, Listed, Present
<1>3. ASSUME NEW c \in Clients, Discover(c) PROVE \A b \in Bundles : Listed(b)'
  BY <1>3 DEF Discover, cacheVars, Listed, Present
<1>4. ASSUME NEW c \in Clients, DiscoverUnavailable(c) PROVE \A b \in Bundles : Listed(b)'
  BY <1>4 DEF DiscoverUnavailable, cacheVars, Listed, Present
<1>5. ASSUME NEW c \in Clients, CheckCache(c) PROVE \A b \in Bundles : Listed(b)'
  BY <1>5 DEF CheckCache, cacheVars, Listed, Present
<1>6. ASSUME NEW c \in Clients, UploadOpens(c) PROVE \A b \in Bundles : Listed(b)'
  BY <1>6, PresentStep DEF UploadOpens, Listed, Present
<1>7. ASSUME NEW c \in Clients, UploadEnds(c) PROVE \A b \in Bundles : Listed(b)'
  BY <1>7 DEF UploadEnds, cacheVars, Listed, Present
<1>8. ASSUME NEW c \in Clients, UploadFails(c) PROVE \A b \in Bundles : Listed(b)'
  BY <1>8 DEF UploadFails, cacheVars, Listed, Present
<1>9. ASSUME NEW c \in Clients, CommitTest(c) PROVE \A b \in Bundles : Listed(b)'
  <2>1. \A b \in Bundles : b # c
    BY Names
  <2> QED
    BY <1>9, <2>1, PresentStep DEF CommitTest, Listed, Present
<1>10. ASSUME NEW c \in Clients, CommitFails(c) PROVE \A b \in Bundles : Listed(b)'
  BY <1>10 DEF CommitFails, cacheVars, Listed, Present
<1>11. ASSUME NEW c \in Clients, Move(c) PROVE \A b \in Bundles : Listed(b)'
  <2>1. Range(recent') = (Range(recent) \ {c}) \cup {Bundle[c]}
    BY <1>11, PresentStep
  <2>2. \A b \in Bundles : b # Bundle[c] => bundle'[b] = bundle[b]
    BY <1>11 DEF Move, Publish, Nest, TypeOK
  <2>3. \A b \in Bundles : b # c
    BY Names
  <2> QED
    BY <2>1, <2>2, <2>3 DEF Listed, Present
<1>12. ASSUME NEW c \in Clients, NothingToMove(c) PROVE \A b \in Bundles : Listed(b)'
  BY <1>12 DEF NothingToMove, cacheVars, Listed, Present
<1>13. ASSUME NEW c \in Clients, Spawn(c) PROVE \A b \in Bundles : Listed(b)'
  BY <1>13 DEF Spawn, cacheVars, Listed, Present
<1>14. ASSUME NEW c \in Clients, List(c) PROVE \A b \in Bundles : Listed(b)'
  BY <1>14 DEF List, cacheVars, Listed, Present
<1>15. ASSUME NEW c \in Clients, ListFails(c) PROVE \A b \in Bundles : Listed(b)'
  BY <1>15 DEF ListFails, cacheVars, Listed, Present
<1>16. ASSUME NEW c \in Clients, RemoveNext(c) PROVE \A b \in Bundles : Listed(b)'
  BY <1>16 DEF RemoveNext, cacheVars, Listed, Present
<1>17. ASSUME NEW c \in Clients, RemoveDirectory(c) PROVE \A b \in Bundles : Listed(b)'
  <2>1. Range(recent') = Range(recent) \ {Head(deleting[c])}
    BY <1>17, PresentStep
  <2>2. bundle' = bundle /\ bundle[Head(deleting[c])] = {}
    BY <1>17 DEF RemoveDirectory
  <2> QED
    BY <2>1, <2>2 DEF Listed, Present
<1>18. ASSUME NEW c \in Clients, RemoveFails(c) PROVE \A b \in Bundles : Listed(b)'
  BY <1>18 DEF RemoveFails, cacheVars, Listed, Present
<1>19. ASSUME NEW c \in Clients, Sweep(c) PROVE \A b \in Bundles : Listed(b)'
  <2>1. \A b \in Bundles : b \notin stale
    BY Names DEF TypeOK
  <2> QED
    BY <1>19, <2>1, PresentStep DEF Sweep, Listed, Present
<1>20. ASSUME NEW c \in Clients, NEW entry \in Entries, RemoveEntry(c, entry) PROVE \A b \in Bundles : Listed(b)'
  <2>1. Range(recent') = Range(recent)
    BY <1>20, PresentStep
  <2>2. \A b \in Bundles : bundle'[b] \subseteq bundle[b]
    BY <1>20 DEF RemoveEntry, TypeOK
  <2> QED
    BY <2>1, <2>2 DEF Listed, Present
<1>21. ASSUME NEW c \in Clients, AwaitReady(c) PROVE \A b \in Bundles : Listed(b)'
  BY <1>21 DEF AwaitReady, cacheVars, Listed, Present
<1>22. ASSUME NEW c \in Clients, AwaitEnd(c) PROVE \A b \in Bundles : Listed(b)'
  BY <1>22 DEF AwaitEnd, cacheVars, Listed, Present
<1>23. ASSUME NEW c \in Clients, WorkerExec(c) PROVE \A b \in Bundles : Listed(b)'
  BY <1>23 DEF WorkerExec, cacheVars, Listed, Present
<1>24. ASSUME NEW c \in Clients, WorkerLoad(c) PROVE \A b \in Bundles : Listed(b)'
  BY <1>24 DEF WorkerLoad, cacheVars, Listed, Present
<1>25. ASSUME NEW c \in Clients, WorkerCut(c) PROVE \A b \in Bundles : Listed(b)'
  BY <1>25 DEF WorkerCut, cacheVars, Listed, Present
<1>26. ASSUME NEW c \in Clients, Interrupt(c) PROVE \A b \in Bundles : Listed(b)'
  BY <1>26 DEF Interrupt, cacheVars, Listed, Present
<1>27. ASSUME NEW c \in Clients, GrowsStale(c) PROVE \A b \in Bundles : Listed(b)'
  BY <1>27 DEF GrowsStale, cacheVars, Listed, Present
<1> QED
  BY <1>1, <1>2, <1>3, <1>4, <1>5, <1>6, <1>7, <1>8, <1>9, <1>10, <1>11, <1>12, <1>13, <1>14,
    <1>15, <1>16, <1>17, <1>18, <1>19, <1>20, <1>21, <1>22, <1>23, <1>24, <1>25, <1>26, <1>27
    DEF Next, CliNext, Prune, WorkerNext, Finished

\* The host stays as it is, and what is recorded of the past is.
Recorded ==
    /\ UNCHANGED hostVars
    /\ excused \subseteq excused' /\ swept \subseteq swept'
    /\ damaged \subseteq damaged' /\ kept \subseteq kept'

\* No step takes back what was recorded.
LEMMA RecordedNext ==
    ASSUME [Next]_vars
    PROVE  Recorded
<1>1. CASE UNCHANGED vars
  BY <1>1 DEF vars, hostVars, historyVars, Recorded
<1>2. ASSUME NEW c \in Clients, ProbeFails(c) PROVE Recorded
  BY <1>2 DEF ProbeFails, Goto, hostVars, cacheVars, historyVars, Recorded
<1>3. ASSUME NEW c \in Clients, Discover(c) PROVE Recorded
  BY <1>3 DEF Discover, Goto, hostVars, cacheVars, historyVars, Recorded
<1>4. ASSUME NEW c \in Clients, DiscoverUnavailable(c) PROVE Recorded
  BY <1>4 DEF DiscoverUnavailable, Goto, hostVars, cacheVars, historyVars, Recorded
<1>5. ASSUME NEW c \in Clients, CheckCache(c) PROVE Recorded
  BY <1>5 DEF CheckCache, Goto, CacheHit, hostVars, cacheVars, historyVars, Recorded
<1>6. ASSUME NEW c \in Clients, UploadOpens(c) PROVE Recorded
  BY <1>6 DEF UploadOpens, hostVars, cacheVars, historyVars, Recorded
<1>7. ASSUME NEW c \in Clients, UploadEnds(c) PROVE Recorded
  BY <1>7 DEF UploadEnds, Goto, AfterUpload, hostVars, cacheVars, historyVars, Recorded
<1>8. ASSUME NEW c \in Clients, UploadFails(c) PROVE Recorded
  BY <1>8 DEF UploadFails, Goto, FailedUpload, hostVars, cacheVars, historyVars, Recorded
<1>9. ASSUME NEW c \in Clients, CommitTest(c) PROVE Recorded
  BY <1>9 DEF CommitTest, Goto, hostVars, cacheVars, historyVars, Recorded
<1>10. ASSUME NEW c \in Clients, CommitFails(c) PROVE Recorded
  BY <1>10 DEF CommitFails, Goto, hostVars, cacheVars, historyVars, Recorded
<1>11. ASSUME NEW c \in Clients, Move(c) PROVE Recorded
  BY <1>11 DEF Move, Publish, Nest, hostVars, Recorded
<1>12. ASSUME NEW c \in Clients, NothingToMove(c) PROVE Recorded
  BY <1>12 DEF NothingToMove, Goto, AfterMove, hostVars, cacheVars, historyVars, Recorded
<1>13. ASSUME NEW c \in Clients, Spawn(c) PROVE Recorded
  BY <1>13 DEF Spawn, Goto, hostVars, cacheVars, historyVars, Recorded
<1>14. ASSUME NEW c \in Clients, List(c) PROVE Recorded
  BY <1>14 DEF List, Goto, hostVars, cacheVars, historyVars, Recorded
<1>15. ASSUME NEW c \in Clients, ListFails(c) PROVE Recorded
  BY <1>15 DEF ListFails, Goto, hostVars, cacheVars, historyVars, Recorded
<1>16. ASSUME NEW c \in Clients, RemoveNext(c) PROVE Recorded
  BY <1>16 DEF RemoveNext, Goto, hostVars, cacheVars, historyVars, Recorded
<1>17. ASSUME NEW c \in Clients, RemoveDirectory(c) PROVE Recorded
  BY <1>17 DEF RemoveDirectory, hostVars, historyVars, Recorded
<1>18. ASSUME NEW c \in Clients, RemoveFails(c) PROVE Recorded
  BY <1>18 DEF RemoveFails, Goto, hostVars, cacheVars, historyVars, Recorded
<1>19. ASSUME NEW c \in Clients, Sweep(c) PROVE Recorded
  BY <1>19 DEF Sweep, Goto, hostVars, cacheVars, historyVars, Recorded
<1>20. ASSUME NEW c \in Clients, NEW entry \in Entries, RemoveEntry(c, entry) PROVE Recorded
  BY <1>20 DEF RemoveEntry, hostVars, Recorded
<1>21. ASSUME NEW c \in Clients, AwaitReady(c) PROVE Recorded
  BY <1>21 DEF AwaitReady, Goto, hostVars, cacheVars, historyVars, Recorded
<1>22. ASSUME NEW c \in Clients, AwaitEnd(c) PROVE Recorded
  BY <1>22 DEF AwaitEnd, Goto, ManagedNow, hostVars, cacheVars, historyVars, Recorded
<1>23. ASSUME NEW c \in Clients, WorkerExec(c) PROVE Recorded
  BY <1>23 DEF WorkerExec, hostVars, cacheVars, historyVars, Recorded
<1>24. ASSUME NEW c \in Clients, WorkerLoad(c) PROVE Recorded
  BY <1>24 DEF WorkerLoad, hostVars, cacheVars, historyVars, Recorded
<1>25. ASSUME NEW c \in Clients, WorkerCut(c) PROVE Recorded
  BY <1>25 DEF WorkerCut, hostVars, cacheVars, historyVars, Recorded
<1>26. ASSUME NEW c \in Clients, Interrupt(c) PROVE Recorded
  BY <1>26 DEF Interrupt, Goto, hostVars, cacheVars, historyVars, Recorded
<1>27. ASSUME NEW c \in Clients, GrowsStale(c) PROVE Recorded
  BY <1>27 DEF GrowsStale, hostVars, cacheVars, historyVars, Recorded
<1> QED
  BY <1>1, <1>2, <1>3, <1>4, <1>5, <1>6, <1>7, <1>8, <1>9, <1>10, <1>11, <1>12, <1>13, <1>14,
    <1>15, <1>16, <1>17, <1>18, <1>19, <1>20, <1>21, <1>22, <1>23, <1>24, <1>25, <1>26, <1>27
    DEF Next, CliNext, Prune, WorkerNext, Finished

\* A bundle is whole until a cleanup touches it.
LEMMA WholeNext ==
    ASSUME TypeOK, \A d \in Clients : Removing(d), \A b \in Bundles : Listed(b),
           \A d \in Clients : Staged(d), PublishedWhole, [Next]_vars
    PROVE  PublishedWhole'
<1>1. CASE UNCHANGED vars
  BY <1>1 DEF vars, cacheVars, historyVars, PublishedWhole, Whole, Present
<1>2. ASSUME NEW c \in Clients, ProbeFails(c) PROVE PublishedWhole'
  BY <1>2 DEF ProbeFails, cacheVars, historyVars, PublishedWhole, Whole, Present
<1>3. ASSUME NEW c \in Clients, Discover(c) PROVE PublishedWhole'
  BY <1>3 DEF Discover, cacheVars, historyVars, PublishedWhole, Whole, Present
<1>4. ASSUME NEW c \in Clients, DiscoverUnavailable(c) PROVE PublishedWhole'
  BY <1>4 DEF DiscoverUnavailable, cacheVars, historyVars, PublishedWhole, Whole, Present
<1>5. ASSUME NEW c \in Clients, CheckCache(c) PROVE PublishedWhole'
  BY <1>5 DEF CheckCache, cacheVars, historyVars, PublishedWhole, Whole, Present
<1>6. ASSUME NEW c \in Clients, UploadOpens(c) PROVE PublishedWhole'
  <2>1. \A b \in Bundles : b # c
    BY Names
  <2> QED
    BY <1>6, <2>1, PresentStep DEF UploadOpens, historyVars, PublishedWhole, Whole, Present
<1>7. ASSUME NEW c \in Clients, UploadEnds(c) PROVE PublishedWhole'
  BY <1>7 DEF UploadEnds, cacheVars, historyVars, PublishedWhole, Whole, Present
<1>8. ASSUME NEW c \in Clients, UploadFails(c) PROVE PublishedWhole'
  BY <1>8 DEF UploadFails, cacheVars, historyVars, PublishedWhole, Whole, Present
<1>9. ASSUME NEW c \in Clients, CommitTest(c) PROVE PublishedWhole'
  BY <1>9, PresentStep DEF CommitTest, historyVars, PublishedWhole, Whole, Present
<1>10. ASSUME NEW c \in Clients, CommitFails(c) PROVE PublishedWhole'
  BY <1>10 DEF CommitFails, cacheVars, historyVars, PublishedWhole, Whole, Present
<1>11. ASSUME NEW c \in Clients, Move(c) PROVE PublishedWhole'
  <2> DEFINE p == Bundle[c]
  <2>1. Range(recent') = (Range(recent) \ {c}) \cup {p} /\ p \in Bundles
    BY <1>11, PresentStep DEF TypeOK
  <2>2. CASE Replaces(p)
    <3>1. bundle' = [bundle EXCEPT ![p] = staging[c]] /\ damaged \subseteq damaged' /\ (c \in swept => p \in damaged')
      BY <1>11, <2>2 DEF Move, Publish
    <3>2. c \notin swept => Members \subseteq staging[c]
      BY <1>11 DEF Move, Staged, Uploaded
    <3> QED
      BY <2>1, <3>1, <3>2 DEF TypeOK, PublishedWhole, Whole, Present
  <2>3. CASE ~Replaces(p)
    <3>1. bundle' = [bundle EXCEPT ![p] = bundle[p] \cup {"nested"}] /\ damaged' = damaged
      BY <1>11, <2>3 DEF Move, Nest
    <3>2. p \in Range(recent)
      BY <2>1, <2>3 DEF Replaces, Listed, Present
    <3> QED
      BY <2>1, <3>1, <3>2 DEF TypeOK, PublishedWhole, Whole, Present
  <2> QED
    BY <2>2, <2>3
<1>12. ASSUME NEW c \in Clients, NothingToMove(c) PROVE PublishedWhole'
  BY <1>12 DEF NothingToMove, cacheVars, historyVars, PublishedWhole, Whole, Present
<1>13. ASSUME NEW c \in Clients, Spawn(c) PROVE PublishedWhole'
  BY <1>13 DEF Spawn, cacheVars, historyVars, PublishedWhole, Whole, Present
<1>14. ASSUME NEW c \in Clients, List(c) PROVE PublishedWhole'
  BY <1>14 DEF List, cacheVars, historyVars, PublishedWhole, Whole, Present
<1>15. ASSUME NEW c \in Clients, ListFails(c) PROVE PublishedWhole'
  BY <1>15 DEF ListFails, cacheVars, historyVars, PublishedWhole, Whole, Present
<1>16. ASSUME NEW c \in Clients, RemoveNext(c) PROVE PublishedWhole'
  BY <1>16 DEF RemoveNext, cacheVars, historyVars, PublishedWhole, Whole, Present
<1>17. ASSUME NEW c \in Clients, RemoveDirectory(c) PROVE PublishedWhole'
  <2>1. Range(recent') \subseteq Range(recent)
    BY <1>17, PresentStep
  <2>2. bundle' = bundle /\ damaged' = damaged
    BY <1>17 DEF RemoveDirectory, historyVars
  <2> QED
    BY <2>1, <2>2 DEF PublishedWhole, Whole, Present
<1>18. ASSUME NEW c \in Clients, RemoveFails(c) PROVE PublishedWhole'
  BY <1>18 DEF RemoveFails, cacheVars, historyVars, PublishedWhole, Whole, Present
<1>19. ASSUME NEW c \in Clients, Sweep(c) PROVE PublishedWhole'
  BY <1>19, PresentStep DEF Sweep, PublishedWhole, Whole, Present
<1>20. ASSUME NEW c \in Clients, NEW entry \in Entries, RemoveEntry(c, entry) PROVE PublishedWhole'
  <2> DEFINE p == Head(deleting[c])
  <2>1. Range(recent') = Range(recent)
    BY <1>20, PresentStep
  <2>2. bundle' = [bundle EXCEPT ![p] = bundle[p] \ {entry}] /\ damaged' = damaged \cup {p}
    BY <1>20 DEF RemoveEntry
  <2> HIDE DEF p
  <2> QED
    BY <2>1, <2>2 DEF TypeOK, PublishedWhole, Whole, Present
<1>21. ASSUME NEW c \in Clients, AwaitReady(c) PROVE PublishedWhole'
  BY <1>21 DEF AwaitReady, cacheVars, historyVars, PublishedWhole, Whole, Present
<1>22. ASSUME NEW c \in Clients, AwaitEnd(c) PROVE PublishedWhole'
  BY <1>22 DEF AwaitEnd, cacheVars, historyVars, PublishedWhole, Whole, Present
<1>23. ASSUME NEW c \in Clients, WorkerExec(c) PROVE PublishedWhole'
  BY <1>23 DEF WorkerExec, cacheVars, historyVars, PublishedWhole, Whole, Present
<1>24. ASSUME NEW c \in Clients, WorkerLoad(c) PROVE PublishedWhole'
  BY <1>24 DEF WorkerLoad, cacheVars, historyVars, PublishedWhole, Whole, Present
<1>25. ASSUME NEW c \in Clients, WorkerCut(c) PROVE PublishedWhole'
  BY <1>25 DEF WorkerCut, cacheVars, historyVars, PublishedWhole, Whole, Present
<1>26. ASSUME NEW c \in Clients, Interrupt(c) PROVE PublishedWhole'
  BY <1>26 DEF Interrupt, cacheVars, historyVars, PublishedWhole, Whole, Present
<1>27. ASSUME NEW c \in Clients, GrowsStale(c) PROVE PublishedWhole'
  BY <1>27 DEF GrowsStale, cacheVars, historyVars, PublishedWhole, Whole, Present
<1> QED
  BY <1>1, <1>2, <1>3, <1>4, <1>5, <1>6, <1>7, <1>8, <1>9, <1>10, <1>11, <1>12, <1>13, <1>14,
    <1>15, <1>16, <1>17, <1>18, <1>19, <1>20, <1>21, <1>22, <1>23, <1>24, <1>25, <1>26, <1>27
    DEF Next, CliNext, Prune, WorkerNext, Finished

\* A staging directory holds what was uploaded, until it is cleaned away.
LEMMA StagedNext ==
    ASSUME TypeOK, \A d \in Clients : Removing(d), \A b \in Bundles : Listed(b),
           \A d \in Clients : Staged(d), [Next]_vars
    PROVE  \A d \in Clients : Staged(d)'
<1>1. CASE UNCHANGED vars
  BY <1>1 DEF vars, cacheVars, historyVars, Staged, Uploaded, Present
<1>2. ASSUME NEW c \in Clients, ProbeFails(c) PROVE \A d \in Clients : Staged(d)'
  BY <1>2 DEF ProbeFails, Goto, hostVars, cacheVars, historyVars, Members, TypeOK, Staged,
    Uploaded, Present
<1>3. ASSUME NEW c \in Clients, Discover(c) PROVE \A d \in Clients : Staged(d)'
  BY <1>3 DEF Discover, Goto, hostVars, cacheVars, historyVars, Members, TypeOK, Staged,
    Uploaded, Present
<1>4. ASSUME NEW c \in Clients, DiscoverUnavailable(c) PROVE \A d \in Clients : Staged(d)'
  BY <1>4 DEF DiscoverUnavailable, Goto, hostVars, cacheVars, historyVars, Members, TypeOK,
    Staged, Uploaded, Present
<1>5. ASSUME NEW c \in Clients, CheckCache(c) PROVE \A d \in Clients : Staged(d)'
  BY <1>5 DEF CheckCache, Goto, CacheHit, hostVars, cacheVars, historyVars, Members, TypeOK,
    Staged, Uploaded, Present
<1>6. ASSUME NEW c \in Clients, UploadOpens(c) PROVE \A d \in Clients : Staged(d)'
  <2>1. Range(recent') = Range(recent) \cup {c}
    BY <1>6, PresentStep
  <2> QED
    BY <1>6, <2>1 DEF UploadOpens, historyVars, Members, TypeOK, Staged, Uploaded, Present
<1>7. ASSUME NEW c \in Clients, UploadEnds(c) PROVE \A d \in Clients : Staged(d)'
  <2>1. cli[c] \in Members
    BY <1>7 DEF UploadEnds, Staged
  <2>2. ASSUME NEW d \in Clients, d # c PROVE Staged(d)'
    <3>1. (d \in uploading' <=> d \in uploading) /\ cli'[d] = cli[d] /\ staging'[d] = staging[d] /\ recent' = recent /\ swept' = swept
      BY <1>7, <2>2 DEF UploadEnds, Goto, TypeOK, historyVars
    <3> QED
      BY <3>1 DEF Staged, Uploaded, Present
  <2>3. Staged(c)'
    <3>1. c \notin uploading' /\ recent' = recent /\ swept' = swept
      BY <1>7 DEF UploadEnds, historyVars
    <3>2. CASE c \in swept
      BY <3>1, <3>2 DEF Staged
    <3>3. CASE c \notin swept
      <4>1. Present(c) /\ Uploaded(cli[c]) \subseteq staging[c]
        BY <1>7, <3>3 DEF UploadEnds, Staged
      <4>2. staging'[c] = staging[c] \cup {cli[c]} /\ cli'[c] = AfterUpload(cli[c])
        BY <1>7, <4>1 DEF UploadEnds, Goto, TypeOK
      <4>3. Uploaded(cli'[c]) \subseteq staging'[c]
        BY <2>1, <4>1, <4>2 DEF Uploaded, AfterUpload, Members
      <4> QED
        BY <3>1, <4>1, <4>3 DEF Staged, Present
    <3> QED
      BY <3>2, <3>3
  <2> QED
    BY <2>2, <2>3
<1>8. ASSUME NEW c \in Clients, UploadFails(c) PROVE \A d \in Clients : Staged(d)'
  BY <1>8 DEF UploadFails, Goto, FailedUpload, hostVars, cacheVars, historyVars, Members,
    TypeOK, Staged, Uploaded, Present
<1>9. ASSUME NEW c \in Clients, CommitTest(c) PROVE \A d \in Clients : Staged(d)'
  <2>1. \A d \in Clients : d # c => (d \in Range(recent') <=> d \in Range(recent))
    BY <1>9, PresentStep DEF CommitTest
  <2>2. ASSUME NEW d \in Clients, d # c PROVE Staged(d)'
    <3>1. (d \in uploading' <=> d \in uploading) /\ cli'[d] = cli[d] /\ staging'[d] = staging[d] /\ swept' = swept
      BY <1>9, <2>2 DEF CommitTest, Goto, TypeOK, historyVars
    <3> QED
      BY <2>1, <2>2, <3>1 DEF Staged, Uploaded, Present
  <2>3. Staged(c)'
    <3>1. c \notin uploading' /\ swept' = swept
      BY <1>9 DEF CommitTest, Staged, Members, historyVars
    <3>2. CASE Present(Bundle[c])
      <4>1. cli'[c] = "spawn"
        BY <1>9, <3>2 DEF CommitTest, Goto, TypeOK
      <4> QED
        BY <3>1, <4>1 DEF Staged, Uploaded
    <3>3. CASE ~Present(Bundle[c])
      <4>1. cli[c] = "commit" /\ cli'[c] = "move" /\ staging' = staging /\ recent' = recent
        BY <1>9, <3>3 DEF CommitTest, Goto, TypeOK
      <4> QED
        BY <3>1, <4>1 DEF Staged, Uploaded, Present
    <3> QED
      BY <3>2, <3>3
  <2> QED
    BY <2>2, <2>3
<1>10. ASSUME NEW c \in Clients, CommitFails(c) PROVE \A d \in Clients : Staged(d)'
  BY <1>10 DEF CommitFails, Goto, hostVars, cacheVars, historyVars, Members, TypeOK, Staged,
    Uploaded, Present
<1>11. ASSUME NEW c \in Clients, Move(c) PROVE \A d \in Clients : Staged(d)'
  <2>1. \A d \in Clients : d # c => (d \in Range(recent') <=> d \in Range(recent))
    BY <1>11, PresentStep, Names DEF TypeOK
  <2>2. ASSUME NEW d \in Clients, d # c PROVE Staged(d)'
    <3>1. uploading' = uploading /\ staging'[d] = staging[d] /\ swept' = swept
      BY <1>11, <2>2 DEF Move, TypeOK
    <3>2. cli'[d] = cli[d] \/ (cli[d] = "remove" /\ cli'[d] = "prune")
      BY <1>11, <2>2 DEF Move, Publish, SkipDropped, Dropped, Nest, Goto, TypeOK
    <3> QED
      BY <2>1, <2>2, <3>1, <3>2 DEF Members, Staged, Uploaded, Present
  <2>3. Staged(c)'
    <3>1. c \notin uploading' /\ cli'[c] = "spawn"
      BY <1>11 DEF Move, Publish, SkipDropped, Dropped, Nest, Goto, AfterMove, TypeOK, Staged,
        Members
    <3> QED
      BY <3>1 DEF Staged, Uploaded
  <2> QED
    BY <2>2, <2>3
<1>12. ASSUME NEW c \in Clients, NothingToMove(c) PROVE \A d \in Clients : Staged(d)'
  BY <1>12 DEF NothingToMove, Goto, AfterMove, hostVars, cacheVars, historyVars, Members,
    TypeOK, Staged, Uploaded, Present
<1>13. ASSUME NEW c \in Clients, Spawn(c) PROVE \A d \in Clients : Staged(d)'
  BY <1>13 DEF Spawn, Goto, hostVars, cacheVars, historyVars, Members, TypeOK, Staged, Uploaded,
    Present
<1>14. ASSUME NEW c \in Clients, List(c) PROVE \A d \in Clients : Staged(d)'
  BY <1>14 DEF List, Goto, hostVars, cacheVars, historyVars, Members, TypeOK, Staged, Uploaded,
    Present
<1>15. ASSUME NEW c \in Clients, ListFails(c) PROVE \A d \in Clients : Staged(d)'
  BY <1>15 DEF ListFails, Goto, hostVars, cacheVars, historyVars, Members, TypeOK, Staged,
    Uploaded, Present
<1>16. ASSUME NEW c \in Clients, RemoveNext(c) PROVE \A d \in Clients : Staged(d)'
  BY <1>16 DEF RemoveNext, Goto, hostVars, cacheVars, historyVars, Members, TypeOK, Staged,
    Uploaded, Present
<1>17. ASSUME NEW c \in Clients, RemoveDirectory(c) PROVE \A d \in Clients : Staged(d)'
  <2>1. \A d \in Clients : d \in Range(recent') <=> d \in Range(recent)
    <3>1. Head(deleting[c]) \in Bundles
      BY <1>17, Rest DEF RemoveDirectory, TypeOK, Removing
    <3> QED
      BY <1>17, <3>1, PresentStep, Names
  <2>2. ASSUME NEW d \in Clients PROVE Staged(d)'
    <3>1. uploading' = uploading /\ staging' = staging /\ swept' = swept
      BY <1>17 DEF RemoveDirectory, historyVars
    <3>2. cli'[d] = cli[d] \/ (cli[d] = "remove" /\ cli'[d] = "prune")
      BY <1>17 DEF RemoveDirectory, SkipDropped, Dropped
    <3> QED
      BY <2>1, <3>1, <3>2 DEF Members, Staged, Uploaded, Present
  <2> QED
    BY <2>2
<1>18. ASSUME NEW c \in Clients, RemoveFails(c) PROVE \A d \in Clients : Staged(d)'
  BY <1>18 DEF RemoveFails, Goto, hostVars, cacheVars, historyVars, Members, TypeOK, Staged,
    Uploaded, Present
<1>19. ASSUME NEW c \in Clients, Sweep(c) PROVE \A d \in Clients : Staged(d)'
  <2>1. Range(recent') = Range(recent) \ stale
    BY <1>19, PresentStep
  <2>2. ASSUME NEW d \in Clients PROVE Staged(d)'
    <3>1. uploading' = uploading /\ (d \notin stale => staging'[d] = staging[d]) /\ swept' = swept \cup stale
      BY <1>19 DEF Sweep
    <3>2. cli'[d] = cli[d] \/ (cli[d] = "prune" /\ cli'[d] = "await")
      BY <1>19 DEF Sweep, Goto, TypeOK
    <3> QED
      BY <2>1, <3>1, <3>2 DEF Members, Staged, Uploaded, Present
  <2> QED
    BY <2>2
<1>20. ASSUME NEW c \in Clients, NEW entry \in Entries, RemoveEntry(c, entry) PROVE \A d \in Clients : Staged(d)'
  <2>1. Range(recent') = Range(recent)
    BY <1>20, PresentStep
  <2> QED
    BY <1>20, <2>1 DEF RemoveEntry, Staged, Uploaded, Present
<1>21. ASSUME NEW c \in Clients, AwaitReady(c) PROVE \A d \in Clients : Staged(d)'
  BY <1>21 DEF AwaitReady, Goto, hostVars, cacheVars, historyVars, Members, TypeOK, Staged,
    Uploaded, Present
<1>22. ASSUME NEW c \in Clients, AwaitEnd(c) PROVE \A d \in Clients : Staged(d)'
  BY <1>22 DEF AwaitEnd, Goto, ManagedNow, hostVars, cacheVars, historyVars, Members, TypeOK,
    Staged, Uploaded, Present
<1>23. ASSUME NEW c \in Clients, WorkerExec(c) PROVE \A d \in Clients : Staged(d)'
  BY <1>23 DEF WorkerExec, hostVars, cacheVars, historyVars, Members, TypeOK, Staged, Uploaded,
    Present
<1>24. ASSUME NEW c \in Clients, WorkerLoad(c) PROVE \A d \in Clients : Staged(d)'
  BY <1>24 DEF WorkerLoad, hostVars, cacheVars, historyVars, Members, TypeOK, Staged, Uploaded,
    Present
<1>25. ASSUME NEW c \in Clients, WorkerCut(c) PROVE \A d \in Clients : Staged(d)'
  BY <1>25 DEF WorkerCut, hostVars, cacheVars, historyVars, Members, TypeOK, Staged, Uploaded,
    Present
<1>26. ASSUME NEW c \in Clients, Interrupt(c) PROVE \A d \in Clients : Staged(d)'
  BY <1>26 DEF Interrupt, Goto, hostVars, cacheVars, historyVars, Members, TypeOK, Staged,
    Uploaded, Present
<1>27. ASSUME NEW c \in Clients, GrowsStale(c) PROVE \A d \in Clients : Staged(d)'
  BY <1>27 DEF GrowsStale, hostVars, cacheVars, historyVars, Members, TypeOK, Staged, Uploaded,
    Present
<1> QED
  BY <1>1, <1>2, <1>3, <1>4, <1>5, <1>6, <1>7, <1>8, <1>9, <1>10, <1>11, <1>12, <1>13, <1>14,
    <1>15, <1>16, <1>17, <1>18, <1>19, <1>20, <1>21, <1>22, <1>23, <1>24, <1>25, <1>26, <1>27
    DEF Next, CliNext, Prune, WorkerNext, Finished

\* Only a cleanup has a list of what to remove.
LEMMA RemovingNext ==
    ASSUME TypeOK, \A d \in Clients : Removing(d), \A d \in Clients : Staged(d),
           [Next]_vars
    PROVE  \A d \in Clients : Removing(d)'
<1>1. CASE UNCHANGED vars
  BY <1>1 DEF vars, Removing
<1>2. ASSUME NEW c \in Clients, ProbeFails(c) PROVE \A d \in Clients : Removing(d)'
  BY <1>2 DEF ProbeFails, Goto, hostVars, cacheVars, historyVars, Members, TypeOK, Removing
<1>3. ASSUME NEW c \in Clients, Discover(c) PROVE \A d \in Clients : Removing(d)'
  BY <1>3 DEF Discover, Goto, hostVars, cacheVars, historyVars, Members, TypeOK, Removing
<1>4. ASSUME NEW c \in Clients, DiscoverUnavailable(c) PROVE \A d \in Clients : Removing(d)'
  BY <1>4 DEF DiscoverUnavailable, Goto, hostVars, cacheVars, historyVars, Members, TypeOK, Removing
<1>5. ASSUME NEW c \in Clients, CheckCache(c) PROVE \A d \in Clients : Removing(d)'
  BY <1>5 DEF CheckCache, Goto, CacheHit, hostVars, cacheVars, historyVars, Members, TypeOK,
    Removing
<1>6. ASSUME NEW c \in Clients, UploadOpens(c) PROVE \A d \in Clients : Removing(d)'
  BY <1>6 DEF UploadOpens, hostVars, cacheVars, historyVars, Members, TypeOK, Removing
<1>7. ASSUME NEW c \in Clients, UploadEnds(c) PROVE \A d \in Clients : Removing(d)'
  <2>1. cli[c] \in Members
    BY <1>7 DEF UploadEnds, Staged
  <2>2. deleting' = deleting /\ cli' = [cli EXCEPT ![c] = cli'[c]] /\ cli'[c] \notin {"remove", "prune"}
    BY <1>7, <2>1 DEF UploadEnds, Goto, AfterUpload, Members, TypeOK
  <2>3. deleting[c] = <<>>
    BY <2>1 DEF Removing, Members
  <2> QED
    BY <2>2, <2>3 DEF Removing, TypeOK
<1>8. ASSUME NEW c \in Clients, UploadFails(c) PROVE \A d \in Clients : Removing(d)'
  <2>1. deleting[c] = <<>>
    BY <1>8 DEF UploadFails, Staged, Removing, Members
  <2> QED
    BY <1>8, <2>1 DEF UploadFails, Goto, FailedUpload, TypeOK, Removing
<1>9. ASSUME NEW c \in Clients, CommitTest(c) PROVE \A d \in Clients : Removing(d)'
  BY <1>9 DEF CommitTest, Goto, hostVars, cacheVars, historyVars, Members, TypeOK, Removing
<1>10. ASSUME NEW c \in Clients, CommitFails(c) PROVE \A d \in Clients : Removing(d)'
  BY <1>10 DEF CommitFails, Goto, hostVars, cacheVars, historyVars, Members, TypeOK, Removing
<1>11. ASSUME NEW c \in Clients, Move(c) PROVE \A d \in Clients : Removing(d)'
  <2>1. CASE Publish(c, Bundle[c])
    <3>1. cli' = [d \in Clients |-> IF d \in Dropped(Bundle[c]) THEN "prune" ELSE IF d = c THEN "spawn" ELSE cli[d]]
          /\ deleting' = [d \in Clients |-> IF d \in Dropped(Bundle[c]) THEN Tail(deleting[d]) ELSE deleting[d]]
      BY <2>1 DEF Publish, SkipDropped, TypeOK
    <3>2. c \notin Dropped(Bundle[c]) /\ deleting[c] = <<>>
      BY <1>11 DEF Move, Dropped, Removing
    <3> QED
      BY <3>1, <3>2 DEF Removing
  <2>2. CASE Nest(c, Bundle[c])
    BY <1>11, <2>2 DEF Move, Nest, Goto, AfterMove, TypeOK, Removing
  <2> QED
    BY <1>11, <2>1, <2>2 DEF Move
<1>12. ASSUME NEW c \in Clients, NothingToMove(c) PROVE \A d \in Clients : Removing(d)'
  BY <1>12 DEF NothingToMove, Goto, AfterMove, hostVars, cacheVars, historyVars, Members,
    TypeOK, Removing
<1>13. ASSUME NEW c \in Clients, Spawn(c) PROVE \A d \in Clients : Removing(d)'
  BY <1>13 DEF Spawn, Goto, hostVars, cacheVars, historyVars, Members, TypeOK, Removing
<1>14. ASSUME NEW c \in Clients, List(c) PROVE \A d \in Clients : Removing(d)'
  BY <1>14 DEF List, Goto, hostVars, cacheVars, historyVars, Members, TypeOK, Removing
<1>15. ASSUME NEW c \in Clients, ListFails(c) PROVE \A d \in Clients : Removing(d)'
  BY <1>15 DEF ListFails, Goto, hostVars, cacheVars, historyVars, Members, TypeOK, Removing
<1>16. ASSUME NEW c \in Clients, RemoveNext(c) PROVE \A d \in Clients : Removing(d)'
  BY <1>16 DEF RemoveNext, Goto, hostVars, cacheVars, historyVars, Members, TypeOK, Removing
<1>17. ASSUME NEW c \in Clients, RemoveDirectory(c) PROVE \A d \in Clients : Removing(d)'
  <2> DEFINE b == Head(deleting[c])
  <2>1. cli' = [d \in Clients |-> IF d \in Dropped(b) THEN "prune" ELSE cli[d]]
        /\ deleting' = [d \in Clients |-> IF d \in Dropped(b) THEN Tail(deleting[d]) ELSE deleting[d]]
    BY <1>17 DEF RemoveDirectory, SkipDropped
  <2> HIDE DEF b
  <2> QED
    BY <2>1 DEF Removing
<1>18. ASSUME NEW c \in Clients, RemoveFails(c) PROVE \A d \in Clients : Removing(d)'
  BY <1>18 DEF RemoveFails, Goto, hostVars, cacheVars, historyVars, Members, TypeOK, Removing
<1>19. ASSUME NEW c \in Clients, Sweep(c) PROVE \A d \in Clients : Removing(d)'
  BY <1>19 DEF Sweep, Goto, hostVars, cacheVars, historyVars, Members, TypeOK, Removing
<1>20. ASSUME NEW c \in Clients, NEW entry \in Entries, RemoveEntry(c, entry) PROVE \A d \in Clients : Removing(d)'
  BY <1>20 DEF RemoveEntry, Removing
<1>21. ASSUME NEW c \in Clients, AwaitReady(c) PROVE \A d \in Clients : Removing(d)'
  BY <1>21 DEF AwaitReady, Goto, hostVars, cacheVars, historyVars, Members, TypeOK, Removing
<1>22. ASSUME NEW c \in Clients, AwaitEnd(c) PROVE \A d \in Clients : Removing(d)'
  BY <1>22 DEF AwaitEnd, Goto, ManagedNow, hostVars, cacheVars, historyVars, Members, TypeOK,
    Removing
<1>23. ASSUME NEW c \in Clients, WorkerExec(c) PROVE \A d \in Clients : Removing(d)'
  BY <1>23 DEF WorkerExec, hostVars, cacheVars, historyVars, Members, TypeOK, Removing
<1>24. ASSUME NEW c \in Clients, WorkerLoad(c) PROVE \A d \in Clients : Removing(d)'
  BY <1>24 DEF WorkerLoad, hostVars, cacheVars, historyVars, Members, TypeOK, Removing
<1>25. ASSUME NEW c \in Clients, WorkerCut(c) PROVE \A d \in Clients : Removing(d)'
  BY <1>25 DEF WorkerCut, hostVars, cacheVars, historyVars, Members, TypeOK, Removing
<1>26. ASSUME NEW c \in Clients, Interrupt(c) PROVE \A d \in Clients : Removing(d)'
  BY <1>26 DEF Interrupt, Goto, hostVars, cacheVars, historyVars, Members, TypeOK, Removing
<1>27. ASSUME NEW c \in Clients, GrowsStale(c) PROVE \A d \in Clients : Removing(d)'
  BY <1>27 DEF GrowsStale, hostVars, cacheVars, historyVars, Members, TypeOK, Removing
<1> QED
  BY <1>1, <1>2, <1>3, <1>4, <1>5, <1>6, <1>7, <1>8, <1>9, <1>10, <1>11, <1>12, <1>13, <1>14,
    <1>15, <1>16, <1>17, <1>18, <1>19, <1>20, <1>21, <1>22, <1>23, <1>24, <1>25, <1>26, <1>27
    DEF Next, CliNext, Prune, WorkerNext, Finished

\* Who is about to start the cached worker found it or put it there.
LEMMA InstalledNext ==
    ASSUME TypeOK, \A d \in Clients : Removing(d), \A b \in Bundles : Listed(b),
           \A d \in Clients : Staged(d), PublishedWhole,
           \A d \in Clients : Installed(d), [Next]_vars
    PROVE  \A d \in Clients : Installed(d)'
<1>1. CASE UNCHANGED vars
  BY <1>1 DEF vars, hostVars, cacheVars, historyVars, Installed, Present
<1>2. ASSUME NEW c \in Clients, ProbeFails(c) PROVE \A d \in Clients : Installed(d)'
  BY <1>2 DEF ProbeFails, Goto, hostVars, cacheVars, historyVars, TypeOK, Installed, Present
<1>3. ASSUME NEW c \in Clients, Discover(c) PROVE \A d \in Clients : Installed(d)'
  BY <1>3 DEF Discover, Goto, hostVars, cacheVars, historyVars, TypeOK, Installed, Present
<1>4. ASSUME NEW c \in Clients, DiscoverUnavailable(c) PROVE \A d \in Clients : Installed(d)'
  BY <1>4 DEF DiscoverUnavailable, Goto, hostVars, cacheVars, historyVars, TypeOK, Installed,
    Present
<1>5. ASSUME NEW c \in Clients, CheckCache(c) PROVE \A d \in Clients : Installed(d)'
  <2>1. CASE CacheHit(Bundle[c])
    <3>1. Present(Bundle[c])
      BY <2>1 DEF CacheHit, Listed, TypeOK
    <3> QED
      BY <1>5, <3>1 DEF CheckCache, Goto, TypeOK, hostVars, cacheVars, historyVars, Installed,
        Present
  <2>2. CASE ~CacheHit(Bundle[c])
    BY <1>5, <2>2 DEF CheckCache, Goto, TypeOK, hostVars, cacheVars, historyVars, Installed, Present
  <2> QED
    BY <2>1, <2>2
<1>6. ASSUME NEW c \in Clients, UploadOpens(c) PROVE \A d \in Clients : Installed(d)'
  <2>1. Range(recent) \subseteq Range(recent')
    BY <1>6, PresentStep
  <2> QED
    BY <1>6, <2>1 DEF UploadOpens, hostVars, historyVars, Installed, Present
<1>7. ASSUME NEW c \in Clients, UploadEnds(c) PROVE \A d \in Clients : Installed(d)'
  <2>1. cli[c] \in Members
    BY <1>7 DEF UploadEnds, Staged
  <2>2. cli' = [cli EXCEPT ![c] = cli'[c]] /\ cli'[c] # "spawn"
    BY <1>7, <2>1 DEF UploadEnds, Goto, AfterUpload, Members, TypeOK
  <2> QED
    BY <1>7, <2>2 DEF UploadEnds, TypeOK, hostVars, historyVars, Installed, Present
<1>8. ASSUME NEW c \in Clients, UploadFails(c) PROVE \A d \in Clients : Installed(d)'
  BY <1>8 DEF UploadFails, Goto, FailedUpload, hostVars, cacheVars, historyVars, TypeOK,
    Installed, Present
<1>9. ASSUME NEW c \in Clients, CommitTest(c) PROVE \A d \in Clients : Installed(d)'
  <2>1. \A b \in Bundles : b \in Range(recent) => b \in Range(recent')
    BY <1>9, PresentStep, Names DEF CommitTest
  <2>2. cli' = [cli EXCEPT ![c] = cli'[c]] /\ (cli'[c] = "spawn" => Present(Bundle[c]))
    BY <1>9 DEF CommitTest, Goto, TypeOK
  <2> QED
    BY <1>9, <2>1, <2>2 DEF CommitTest, TypeOK, hostVars, historyVars, Installed, Present
<1>10. ASSUME NEW c \in Clients, CommitFails(c) PROVE \A d \in Clients : Installed(d)'
  BY <1>10 DEF CommitFails, Goto, hostVars, cacheVars, historyVars, TypeOK, Installed, Present
<1>11. ASSUME NEW c \in Clients, Move(c) PROVE \A d \in Clients : Installed(d)'
  <2>1. Bundle[c] \in Range(recent') /\ \A b \in Bundles : b \in Range(recent) => b \in Range(recent')
    BY <1>11, PresentStep, Names DEF TypeOK
  <2>2. \A d \in Clients : cli'[d] = "spawn" => cli[d] = "spawn" \/ d = c
    BY <1>11 DEF Move, Publish, SkipDropped, Dropped, Nest, Goto, TypeOK
  <2>3. managed' = managed /\ worker' = worker /\ Bundle' = Bundle
    BY <1>11 DEF Move, hostVars
  <2>4. swept' = swept /\ damaged \subseteq damaged'
    BY <1>11 DEF Move, Publish, Nest
  <2> QED
    BY <2>1, <2>2, <2>3, <2>4 DEF TypeOK, Installed, Present
<1>12. ASSUME NEW c \in Clients, NothingToMove(c) PROVE \A d \in Clients : Installed(d)'
  <2>1. c \in swept
    BY <1>12 DEF NothingToMove, Staged
  <2> QED
    BY <1>12, <2>1 DEF NothingToMove, Goto, TypeOK, hostVars, cacheVars, historyVars, Installed,
      Present
<1>13. ASSUME NEW c \in Clients, Spawn(c) PROVE \A d \in Clients : Installed(d)'
  BY <1>13 DEF Spawn, Goto, hostVars, cacheVars, historyVars, TypeOK, Installed, Present
<1>14. ASSUME NEW c \in Clients, List(c) PROVE \A d \in Clients : Installed(d)'
  BY <1>14 DEF List, Goto, hostVars, cacheVars, historyVars, TypeOK, Installed, Present
<1>15. ASSUME NEW c \in Clients, ListFails(c) PROVE \A d \in Clients : Installed(d)'
  BY <1>15 DEF ListFails, Goto, hostVars, cacheVars, historyVars, TypeOK, Installed, Present
<1>16. ASSUME NEW c \in Clients, RemoveNext(c) PROVE \A d \in Clients : Installed(d)'
  BY <1>16 DEF RemoveNext, Goto, hostVars, cacheVars, historyVars, TypeOK, Installed, Present
<1>17. ASSUME NEW c \in Clients, RemoveDirectory(c) PROVE \A d \in Clients : Installed(d)'
  <2> DEFINE b == Head(deleting[c])
  <2>1. Range(recent') = Range(recent) \ {b}
    BY <1>17, PresentStep
  <2>2. bundle[b] = {} /\ cli' = [d \in Clients |-> IF d \in Dropped(b) THEN "prune" ELSE cli[d]]
    BY <1>17 DEF RemoveDirectory, SkipDropped
  <2>3. UNCHANGED <<hostVars, bundle, managed, worker, historyVars>>
    BY <1>17 DEF RemoveDirectory
  <2> HIDE DEF b
  <2>4. b \in Bundles /\ b \in Range(recent) => b \in damaged
    BY <2>2 DEF Members, PublishedWhole, Whole, Present
  <2>5. \A d \in Clients : cli'[d] = "spawn" => cli[d] = "spawn"
    BY <2>2
  <2> QED
    BY <2>1, <2>3, <2>4, <2>5 DEF TypeOK, hostVars, historyVars, Installed, Present
<1>18. ASSUME NEW c \in Clients, RemoveFails(c) PROVE \A d \in Clients : Installed(d)'
  BY <1>18 DEF RemoveFails, Goto, hostVars, cacheVars, historyVars, TypeOK, Installed, Present
<1>19. ASSUME NEW c \in Clients, Sweep(c) PROVE \A d \in Clients : Installed(d)'
  <2>1. \A b \in Bundles : b \in Range(recent) => b \in Range(recent')
    BY <1>19, PresentStep, Names DEF TypeOK
  <2>2. \A d \in Clients : cli'[d] = "spawn" => cli[d] = "spawn"
    BY <1>19 DEF Sweep, Goto, TypeOK
  <2> QED
    BY <1>19, <2>1, <2>2 DEF Sweep, TypeOK, hostVars, Installed, Present
<1>20. ASSUME NEW c \in Clients, NEW entry \in Entries, RemoveEntry(c, entry) PROVE \A d \in Clients : Installed(d)'
  <2>1. Range(recent') = Range(recent)
    BY <1>20, PresentStep
  <2> QED
    BY <1>20, <2>1 DEF RemoveEntry, hostVars, Installed, Present
<1>21. ASSUME NEW c \in Clients, AwaitReady(c) PROVE \A d \in Clients : Installed(d)'
  BY <1>21 DEF AwaitReady, Goto, hostVars, cacheVars, historyVars, TypeOK, Installed, Present
<1>22. ASSUME NEW c \in Clients, AwaitEnd(c) PROVE \A d \in Clients : Installed(d)'
  BY <1>22 DEF AwaitEnd, Goto, ManagedNow, hostVars, cacheVars, historyVars, TypeOK, Installed,
    Present
<1>23. ASSUME NEW c \in Clients, WorkerExec(c) PROVE \A d \in Clients : Installed(d)'
  BY <1>23 DEF WorkerExec, hostVars, cacheVars, historyVars, TypeOK, Installed, Present
<1>24. ASSUME NEW c \in Clients, WorkerLoad(c) PROVE \A d \in Clients : Installed(d)'
  BY <1>24 DEF WorkerLoad, hostVars, cacheVars, historyVars, TypeOK, Installed, Present
<1>25. ASSUME NEW c \in Clients, WorkerCut(c) PROVE \A d \in Clients : Installed(d)'
  BY <1>25 DEF WorkerCut, hostVars, cacheVars, historyVars, TypeOK, Installed, Present
<1>26. ASSUME NEW c \in Clients, Interrupt(c) PROVE \A d \in Clients : Installed(d)'
  BY <1>26 DEF Interrupt, Goto, hostVars, cacheVars, historyVars, TypeOK, Installed, Present
<1>27. ASSUME NEW c \in Clients, GrowsStale(c) PROVE \A d \in Clients : Installed(d)'
  BY <1>27 DEF GrowsStale, hostVars, cacheVars, historyVars, TypeOK, Installed, Present
<1> QED
  BY <1>1, <1>2, <1>3, <1>4, <1>5, <1>6, <1>7, <1>8, <1>9, <1>10, <1>11, <1>12, <1>13, <1>14,
    <1>15, <1>16, <1>17, <1>18, <1>19, <1>20, <1>21, <1>22, <1>23, <1>24, <1>25, <1>26, <1>27
    DEF Next, CliNext, Prune, WorkerNext, Finished

\* What kept a worker from running is not undone.
LEMMA TroubleKept ==
    ASSUME TypeOK, Recorded, NEW c \in Clients
    PROVE  /\ Trouble(c) => Trouble(c)'
           /\ c \in excused => c \in excused'
           /\ installed' = installed /\ Bundle' = Bundle
  BY DEF Trouble, Recorded, hostVars

\* A worker ends for a reason, and only then is another started.
LEMMA ExplainedNext ==
    ASSUME TypeOK, \A d \in Clients : Removing(d), \A b \in Bundles : Listed(b),
           PublishedWhole, \A d \in Clients : Installed(d),
           \A d \in Clients : Explained(d), [Next]_vars
    PROVE  \A d \in Clients : Explained(d)'
<1>1. CASE UNCHANGED vars
  BY <1>1 DEF vars, hostVars, historyVars, Explained, Trouble
<1>2. ASSUME NEW c \in Clients, ProbeFails(c) PROVE \A d \in Clients : Explained(d)'
  <2>1. Recorded /\ managed' = managed /\ worker' = worker
    BY <1>2, RecordedNext DEF ProbeFails
  <2> QED
    BY <2>1, TroubleKept DEF Explained
<1>3. ASSUME NEW c \in Clients, Discover(c) PROVE \A d \in Clients : Explained(d)'
  <2>1. Recorded
    BY RecordedNext
  <2>2. ASSUME NEW d \in Clients, d # c PROVE Explained(d)'
    <3>1. (managed'[d] <=> managed[d]) /\ worker'[d] = worker[d]
      BY <1>3, <2>2 DEF Discover, TypeOK
    <3> QED
      BY <2>1, <3>1, TroubleKept DEF Explained
  <2>3. Explained(c)'
    <3>1. CASE installed.build = Bundle[c]
      <4>1. worker'[c] = "spawned" /\ ~managed'[c]
        BY <1>3, <3>1 DEF Discover, TypeOK
      <4> QED
        BY <2>1, <3>1, <4>1 DEF Recorded, hostVars, Explained
    <3>2. CASE installed.build # Bundle[c]
      <4>1. UNCHANGED <<managed, worker>>
        BY <1>3, <3>2 DEF Discover
      <4> QED
        BY <2>1, <4>1, TroubleKept DEF Explained
    <3> QED
      BY <3>1, <3>2
  <2> QED
    BY <2>2, <2>3
<1>4. ASSUME NEW c \in Clients, DiscoverUnavailable(c) PROVE \A d \in Clients : Explained(d)'
  <2>1. Recorded /\ managed' = managed /\ worker' = worker
    BY <1>4, RecordedNext DEF DiscoverUnavailable
  <2> QED
    BY <2>1, TroubleKept DEF Explained
<1>5. ASSUME NEW c \in Clients, CheckCache(c) PROVE \A d \in Clients : Explained(d)'
  <2>1. Recorded /\ managed' = managed /\ worker' = worker
    BY <1>5, RecordedNext DEF CheckCache
  <2> QED
    BY <2>1, TroubleKept DEF Explained
<1>6. ASSUME NEW c \in Clients, UploadOpens(c) PROVE \A d \in Clients : Explained(d)'
  <2>1. Recorded /\ managed' = managed /\ worker' = worker
    BY <1>6, RecordedNext DEF UploadOpens
  <2> QED
    BY <2>1, TroubleKept DEF Explained
<1>7. ASSUME NEW c \in Clients, UploadEnds(c) PROVE \A d \in Clients : Explained(d)'
  <2>1. Recorded /\ managed' = managed /\ worker' = worker
    BY <1>7, RecordedNext DEF UploadEnds
  <2> QED
    BY <2>1, TroubleKept DEF Explained
<1>8. ASSUME NEW c \in Clients, UploadFails(c) PROVE \A d \in Clients : Explained(d)'
  <2>1. Recorded /\ managed' = managed /\ worker' = worker
    BY <1>8, RecordedNext DEF UploadFails
  <2> QED
    BY <2>1, TroubleKept DEF Explained
<1>9. ASSUME NEW c \in Clients, CommitTest(c) PROVE \A d \in Clients : Explained(d)'
  <2>1. Recorded /\ managed' = managed /\ worker' = worker
    BY <1>9, RecordedNext DEF CommitTest
  <2> QED
    BY <2>1, TroubleKept DEF Explained
<1>10. ASSUME NEW c \in Clients, CommitFails(c) PROVE \A d \in Clients : Explained(d)'
  <2>1. Recorded /\ managed' = managed /\ worker' = worker
    BY <1>10, RecordedNext DEF CommitFails
  <2> QED
    BY <2>1, TroubleKept DEF Explained
<1>11. ASSUME NEW c \in Clients, Move(c) PROVE \A d \in Clients : Explained(d)'
  <2>1. Recorded /\ managed' = managed /\ worker' = worker
    BY <1>11, RecordedNext DEF Move
  <2> QED
    BY <2>1, TroubleKept DEF Explained
<1>12. ASSUME NEW c \in Clients, NothingToMove(c) PROVE \A d \in Clients : Explained(d)'
  <2>1. Recorded /\ managed' = managed /\ worker' = worker
    BY <1>12, RecordedNext DEF NothingToMove
  <2> QED
    BY <2>1, TroubleKept DEF Explained
<1>13. ASSUME NEW c \in Clients, Spawn(c) PROVE \A d \in Clients : Explained(d)'
  <2>1. Recorded
    BY RecordedNext
  <2>2. ASSUME NEW d \in Clients PROVE Explained(d)'
    <3>1. managed' = managed /\ (worker'[d] = worker[d] \/ worker'[d] = "spawned")
      BY <1>13 DEF Spawn, TypeOK
    <3> QED
      BY <2>1, <3>1, TroubleKept DEF Explained
  <2> QED
    BY <2>2
<1>14. ASSUME NEW c \in Clients, List(c) PROVE \A d \in Clients : Explained(d)'
  <2>1. Recorded /\ managed' = managed /\ worker' = worker
    BY <1>14, RecordedNext DEF List
  <2> QED
    BY <2>1, TroubleKept DEF Explained
<1>15. ASSUME NEW c \in Clients, ListFails(c) PROVE \A d \in Clients : Explained(d)'
  <2>1. Recorded /\ managed' = managed /\ worker' = worker
    BY <1>15, RecordedNext DEF ListFails
  <2> QED
    BY <2>1, TroubleKept DEF Explained
<1>16. ASSUME NEW c \in Clients, RemoveNext(c) PROVE \A d \in Clients : Explained(d)'
  <2>1. Recorded /\ managed' = managed /\ worker' = worker
    BY <1>16, RecordedNext DEF RemoveNext
  <2> QED
    BY <2>1, TroubleKept DEF Explained
<1>17. ASSUME NEW c \in Clients, RemoveDirectory(c) PROVE \A d \in Clients : Explained(d)'
  <2>1. Recorded /\ managed' = managed /\ worker' = worker
    BY <1>17, RecordedNext DEF RemoveDirectory
  <2> QED
    BY <2>1, TroubleKept DEF Explained
<1>18. ASSUME NEW c \in Clients, RemoveFails(c) PROVE \A d \in Clients : Explained(d)'
  <2>1. Recorded /\ managed' = managed /\ worker' = worker
    BY <1>18, RecordedNext DEF RemoveFails
  <2> QED
    BY <2>1, TroubleKept DEF Explained
<1>19. ASSUME NEW c \in Clients, Sweep(c) PROVE \A d \in Clients : Explained(d)'
  <2>1. Recorded /\ managed' = managed /\ worker' = worker
    BY <1>19, RecordedNext DEF Sweep
  <2> QED
    BY <2>1, TroubleKept DEF Explained
<1>20. ASSUME NEW c \in Clients, NEW entry \in Entries, RemoveEntry(c, entry) PROVE \A d \in Clients : Explained(d)'
  <2>1. Recorded /\ managed' = managed /\ worker' = worker
    BY <1>20, RecordedNext DEF RemoveEntry
  <2> QED
    BY <2>1, TroubleKept DEF Explained
<1>21. ASSUME NEW c \in Clients, AwaitReady(c) PROVE \A d \in Clients : Explained(d)'
  <2>1. Recorded /\ managed' = managed /\ worker' = worker
    BY <1>21, RecordedNext DEF AwaitReady
  <2> QED
    BY <2>1, TroubleKept DEF Explained
<1>22. ASSUME NEW c \in Clients, AwaitEnd(c) PROVE \A d \in Clients : Explained(d)'
  <2>1. Recorded
    BY RecordedNext
  <2>2. ASSUME NEW d \in Clients, d # c PROVE Explained(d)'
    <3>1. (managed'[d] <=> managed[d]) /\ worker'[d] = worker[d]
      BY <1>22, <2>2 DEF AwaitEnd, TypeOK
    <3> QED
      BY <2>1, <3>1, TroubleKept DEF Explained
  <2>3. Explained(c)'
    <3>1. CASE managed[c] /\ installed.build # None
      <4>1. worker'[c] = "spawned" /\ ~managed'[c]
        BY <1>22, <3>1 DEF AwaitEnd, ManagedNow, TypeOK
      <4>2. Trouble(c)
        BY <1>22, <3>1 DEF AwaitEnd, Explained
      <4> QED
        BY <2>1, <3>1, <4>1, <4>2, TroubleKept DEF Recorded, hostVars, Explained
    <3>2. CASE ~(managed[c] /\ installed.build # None)
      <4>1. UNCHANGED <<managed, worker>>
        BY <1>22, <3>2 DEF AwaitEnd
      <4> QED
        BY <2>1, <4>1, TroubleKept DEF Explained
    <3> QED
      BY <3>1, <3>2
  <2> QED
    BY <2>2, <2>3
<1>23. ASSUME NEW c \in Clients, WorkerExec(c) PROVE \A d \in Clients : Explained(d)'
  <2>1. UNCHANGED <<hostVars, managed, historyVars>> /\ worker[c] = "spawned"
        /\ worker' = [worker EXCEPT ![c] = worker'[c]]
    BY <1>23 DEF WorkerExec, TypeOK
  <2>2. ASSUME NEW d \in Clients, d # c PROVE Explained(d)'
    BY <2>1, <2>2 DEF TypeOK, hostVars, historyVars, Explained, Trouble
  <2>3. Explained(c)'
    <3>1. CASE managed[c]
      <4>1. worker'[c] = IF "worker" \in bundle[Bundle[c]] /\ ~installed.noexec THEN "loading" ELSE "exited"
        BY <1>23, <3>1 DEF WorkerExec, TypeOK
      <4>2. "worker" \notin bundle[Bundle[c]] => c \in swept \/ Bundle[c] \in damaged
        BY <2>1, <3>1 DEF Installed, Members, TypeOK, PublishedWhole, Whole, Present
      <4> QED
        BY <2>1, <3>1, <4>1, <4>2 DEF hostVars, historyVars, Explained, Trouble
    <3>2. CASE ~managed[c]
      <4>1. worker'[c] = IF installed.starts THEN "ready" ELSE "exited"
        BY <1>23, <3>2 DEF WorkerExec, TypeOK
      <4> QED
        BY <2>1, <3>2, <4>1 DEF hostVars, historyVars, Explained, Trouble
    <3> QED
      BY <3>1, <3>2
  <2> QED
    BY <2>2, <2>3
<1>24. ASSUME NEW c \in Clients, WorkerLoad(c) PROVE \A d \in Clients : Explained(d)'
  <2>1. UNCHANGED <<hostVars, managed, historyVars>> /\ worker[c] = "loading"
        /\ worker' = [worker EXCEPT ![c] = worker'[c]]
    BY <1>24 DEF WorkerLoad, TypeOK
  <2>2. ASSUME NEW d \in Clients, d # c PROVE Explained(d)'
    BY <2>1, <2>2 DEF TypeOK, hostVars, historyVars, Explained, Trouble
  <2>3. Explained(c)'
    <3>1. managed[c]
      BY <2>1 DEF Explained
    <3>2. worker'[c] = "ready" \/ (worker'[c] = "exited" /\ "runtime" \notin bundle[Bundle[c]])
      BY <1>24 DEF WorkerLoad, TypeOK
    <3>3. "runtime" \notin bundle[Bundle[c]] => c \in swept \/ Bundle[c] \in damaged
      BY <2>1, <3>1 DEF Installed, Members, TypeOK, PublishedWhole, Whole, Present
    <3> QED
      BY <2>1, <3>1, <3>2, <3>3 DEF hostVars, historyVars, Explained, Trouble
  <2> QED
    BY <2>2, <2>3
<1>25. ASSUME NEW c \in Clients, WorkerCut(c) PROVE \A d \in Clients : Explained(d)'
  <2>1. Recorded
    BY RecordedNext
  <2>2. ASSUME NEW d \in Clients PROVE Explained(d)'
    <3>1. managed' = managed /\ (worker'[d] = worker[d] \/ (worker'[d] = "exited" /\ d \in excused'))
      BY <1>25 DEF WorkerCut, TypeOK
    <3> QED
      BY <2>1, <3>1, TroubleKept DEF Trouble, Explained
  <2> QED
    BY <2>2
<1>26. ASSUME NEW c \in Clients, Interrupt(c) PROVE \A d \in Clients : Explained(d)'
  <2>1. Recorded /\ managed' = managed /\ worker' = worker
    BY <1>26, RecordedNext DEF Interrupt
  <2> QED
    BY <2>1, TroubleKept DEF Explained
<1>27. ASSUME NEW c \in Clients, GrowsStale(c) PROVE \A d \in Clients : Explained(d)'
  <2>1. Recorded /\ managed' = managed /\ worker' = worker
    BY <1>27, RecordedNext DEF GrowsStale
  <2> QED
    BY <2>1, TroubleKept DEF Explained
<1> QED
  BY <1>1, <1>2, <1>3, <1>4, <1>5, <1>6, <1>7, <1>8, <1>9, <1>10, <1>11, <1>12, <1>13, <1>14,
    <1>15, <1>16, <1>17, <1>18, <1>19, <1>20, <1>21, <1>22, <1>23, <1>24, <1>25, <1>26, <1>27
    DEF Next, CliNext, Prune, WorkerNext, Finished

\* Why the bootstrap of c may fail.
Cause(c) ==
    \/ c \in excused \cup swept
    \/ c \notin Embedded
    \/ (Bundle[c] \in damaged \/ installed.noexec) /\ (installed.build = None \/ InstalledUnusable)
    \/ installed.build = Bundle[c] /\ InstalledUnusable

\* A cause does not go away.
LEMMA CauseKept ==
    ASSUME Recorded, NEW c
    PROVE  Cause(c) => Cause(c)'
<1>1. installed' = installed /\ Bundle' = Bundle /\ excused \subseteq excused' /\ swept \subseteq swept' /\ damaged \subseteq damaged'
  BY DEF Recorded, hostVars
<1>2. InstalledUnusable' <=> InstalledUnusable
  BY <1>1 DEF InstalledUnusable
<1> QED
  BY <1>1, <1>2 DEF Cause

\* An invocation that fails has a cause.
LEMMA FailureNext ==
    ASSUME TypeOK, \A d \in Clients : Removing(d), \A d \in Clients : Staged(d),
           \A d \in Clients : Explained(d), FailureHasCause, [Next]_vars
    PROVE  FailureHasCause'
<1>1. CASE UNCHANGED vars
  BY <1>1 DEF vars, hostVars, historyVars, FailureHasCause, InstalledUnusable
<1>2. ASSUME NEW c \in Clients, ProbeFails(c) PROVE FailureHasCause'
  <2>1. Recorded /\ \A d \in Clients : cli'[d] = "failed" => cli[d] = "failed" \/ d \in excused'
    BY <1>2, RecordedNext DEF ProbeFails, Goto, TypeOK
  <2> QED
    BY <2>1, CauseKept DEF FailureHasCause, Cause
<1>3. ASSUME NEW c \in Clients, Discover(c) PROVE FailureHasCause'
  <2>1. Recorded /\ \A d \in Clients : cli'[d] = "failed" => cli[d] = "failed" \/ d \notin Embedded
    BY <1>3, RecordedNext DEF Discover, Goto, TypeOK
  <2> QED
    BY <2>1, CauseKept DEF FailureHasCause, Cause
<1>4. ASSUME NEW c \in Clients, DiscoverUnavailable(c) PROVE FailureHasCause'
  <2>1. Recorded /\ \A d \in Clients : cli'[d] = "failed" => cli[d] = "failed" \/ d \in excused'
    BY <1>4, RecordedNext DEF DiscoverUnavailable, Goto, TypeOK
  <2> QED
    BY <2>1, CauseKept DEF FailureHasCause, Cause
<1>5. ASSUME NEW c \in Clients, CheckCache(c) PROVE FailureHasCause'
  <2>1. Recorded /\ \A d \in Clients : cli'[d] = "failed" => cli[d] = "failed"
    BY <1>5, RecordedNext DEF CheckCache, Goto, CacheHit, TypeOK
  <2> QED
    BY <2>1, CauseKept DEF FailureHasCause, Cause
<1>6. ASSUME NEW c \in Clients, UploadOpens(c) PROVE FailureHasCause'
  <2>1. Recorded /\ \A d \in Clients : cli'[d] = "failed" => cli[d] = "failed"
    BY <1>6, RecordedNext DEF UploadOpens, TypeOK
  <2> QED
    BY <2>1, CauseKept DEF FailureHasCause, Cause
<1>7. ASSUME NEW c \in Clients, UploadEnds(c) PROVE FailureHasCause'
  <2>1. cli[c] \in Members
    BY <1>7 DEF UploadEnds, Staged
  <2>2. Recorded /\ \A d \in Clients : cli'[d] = "failed" => cli[d] = "failed" \/ (d = c /\ ~Present(c))
    BY <1>7, <2>1, RecordedNext DEF UploadEnds, Goto, AfterUpload, Members, TypeOK
  <2>3. ~Present(c) => c \in swept
    BY <1>7 DEF UploadEnds, Staged
  <2> QED
    BY <2>2, <2>3, CauseKept DEF FailureHasCause, Cause
<1>8. ASSUME NEW c \in Clients, UploadFails(c) PROVE FailureHasCause'
  <2>1. Recorded /\ \A d \in Clients : cli'[d] = "failed" => cli[d] = "failed" \/ d \in excused'
    BY <1>8, RecordedNext DEF UploadFails, Goto, FailedUpload, TypeOK
  <2> QED
    BY <2>1, CauseKept DEF FailureHasCause, Cause
<1>9. ASSUME NEW c \in Clients, CommitTest(c) PROVE FailureHasCause'
  <2>1. Recorded /\ \A d \in Clients : cli'[d] = "failed" => cli[d] = "failed"
    BY <1>9, RecordedNext DEF CommitTest, Goto, TypeOK
  <2> QED
    BY <2>1, CauseKept DEF FailureHasCause, Cause
<1>10. ASSUME NEW c \in Clients, CommitFails(c) PROVE FailureHasCause'
  <2>1. Recorded /\ \A d \in Clients : cli'[d] = "failed" => cli[d] = "failed" \/ d \in excused'
    BY <1>10, RecordedNext DEF CommitFails, Goto, TypeOK
  <2> QED
    BY <2>1, CauseKept DEF FailureHasCause, Cause
<1>11. ASSUME NEW c \in Clients, Move(c) PROVE FailureHasCause'
  <2>1. Recorded /\ \A d \in Clients : cli'[d] = "failed" => cli[d] = "failed"
    BY <1>11, RecordedNext DEF Move, Publish, SkipDropped, Nest, Goto, AfterMove, TypeOK
  <2> QED
    BY <2>1, CauseKept DEF FailureHasCause, Cause
<1>12. ASSUME NEW c \in Clients, NothingToMove(c) PROVE FailureHasCause'
  <2>1. Recorded /\ \A d \in Clients : cli'[d] = "failed" => cli[d] = "failed"
    BY <1>12, RecordedNext DEF NothingToMove, Goto, AfterMove, TypeOK
  <2> QED
    BY <2>1, CauseKept DEF FailureHasCause, Cause
<1>13. ASSUME NEW c \in Clients, Spawn(c) PROVE FailureHasCause'
  <2>1. Recorded /\ \A d \in Clients : cli'[d] = "failed" => cli[d] = "failed"
    BY <1>13, RecordedNext DEF Spawn, Goto, TypeOK
  <2> QED
    BY <2>1, CauseKept DEF FailureHasCause, Cause
<1>14. ASSUME NEW c \in Clients, List(c) PROVE FailureHasCause'
  <2>1. Recorded /\ \A d \in Clients : cli'[d] = "failed" => cli[d] = "failed"
    BY <1>14, RecordedNext DEF List, Goto, TypeOK
  <2> QED
    BY <2>1, CauseKept DEF FailureHasCause, Cause
<1>15. ASSUME NEW c \in Clients, ListFails(c) PROVE FailureHasCause'
  <2>1. Recorded /\ \A d \in Clients : cli'[d] = "failed" => cli[d] = "failed" \/ d \in excused'
    BY <1>15, RecordedNext DEF ListFails, Goto, TypeOK
  <2> QED
    BY <2>1, CauseKept DEF FailureHasCause, Cause
<1>16. ASSUME NEW c \in Clients, RemoveNext(c) PROVE FailureHasCause'
  <2>1. Recorded /\ \A d \in Clients : cli'[d] = "failed" => cli[d] = "failed"
    BY <1>16, RecordedNext DEF RemoveNext, Goto, TypeOK
  <2> QED
    BY <2>1, CauseKept DEF FailureHasCause, Cause
<1>17. ASSUME NEW c \in Clients, RemoveDirectory(c) PROVE FailureHasCause'
  <2>1. Recorded /\ \A d \in Clients : cli'[d] = "failed" => cli[d] = "failed"
    BY <1>17, RecordedNext DEF RemoveDirectory, SkipDropped, TypeOK
  <2> QED
    BY <2>1, CauseKept DEF FailureHasCause, Cause
<1>18. ASSUME NEW c \in Clients, RemoveFails(c) PROVE FailureHasCause'
  <2>1. Recorded /\ \A d \in Clients : cli'[d] = "failed" => cli[d] = "failed"
    BY <1>18, RecordedNext DEF RemoveFails, Goto, TypeOK
  <2> QED
    BY <2>1, CauseKept DEF FailureHasCause, Cause
<1>19. ASSUME NEW c \in Clients, Sweep(c) PROVE FailureHasCause'
  <2>1. Recorded /\ \A d \in Clients : cli'[d] = "failed" => cli[d] = "failed"
    BY <1>19, RecordedNext DEF Sweep, Goto, TypeOK
  <2> QED
    BY <2>1, CauseKept DEF FailureHasCause, Cause
<1>20. ASSUME NEW c \in Clients, NEW entry \in Entries, RemoveEntry(c, entry) PROVE FailureHasCause'
  <2>1. Recorded /\ \A d \in Clients : cli'[d] = "failed" => cli[d] = "failed"
    BY <1>20, RecordedNext DEF RemoveEntry, TypeOK
  <2> QED
    BY <2>1, CauseKept DEF FailureHasCause, Cause
<1>21. ASSUME NEW c \in Clients, AwaitReady(c) PROVE FailureHasCause'
  <2>1. Recorded /\ \A d \in Clients : cli'[d] = "failed" => cli[d] = "failed" \/ (d = c /\ ~Compatible(Protocol(c)))
    BY <1>21, RecordedNext DEF AwaitReady, Goto, TypeOK
  <2>2. ~Compatible(Protocol(c)) => Cause(c)
    BY DEF Protocol, Compatible, InstalledUnusable, Explained, Trouble, Cause
  <2> QED
    BY <2>1, <2>2, CauseKept DEF FailureHasCause, Cause
<1>22. ASSUME NEW c \in Clients, AwaitEnd(c) PROVE FailureHasCause'
  <2>1. Recorded
    BY RecordedNext
  <2>2. \A d \in Clients : cli'[d] = "failed" =>
           cli[d] = "failed" \/ (d = c /\ worker[c] = "exited" /\ ~(managed[c] /\ installed.build # None))
    BY <1>22 DEF AwaitEnd, Goto, TypeOK
  <2>3. worker[c] = "exited" /\ ~(managed[c] /\ installed.build # None) => Cause(c)
    BY DEF InstalledUnusable, Explained, Trouble, Cause
  <2> QED
    BY <2>1, <2>2, <2>3, CauseKept DEF FailureHasCause, Cause
<1>23. ASSUME NEW c \in Clients, WorkerExec(c) PROVE FailureHasCause'
  <2>1. Recorded /\ \A d \in Clients : cli'[d] = "failed" => cli[d] = "failed"
    BY <1>23, RecordedNext DEF WorkerExec, TypeOK
  <2> QED
    BY <2>1, CauseKept DEF FailureHasCause, Cause
<1>24. ASSUME NEW c \in Clients, WorkerLoad(c) PROVE FailureHasCause'
  <2>1. Recorded /\ \A d \in Clients : cli'[d] = "failed" => cli[d] = "failed"
    BY <1>24, RecordedNext DEF WorkerLoad, TypeOK
  <2> QED
    BY <2>1, CauseKept DEF FailureHasCause, Cause
<1>25. ASSUME NEW c \in Clients, WorkerCut(c) PROVE FailureHasCause'
  <2>1. Recorded /\ \A d \in Clients : cli'[d] = "failed" => cli[d] = "failed"
    BY <1>25, RecordedNext DEF WorkerCut, TypeOK
  <2> QED
    BY <2>1, CauseKept DEF FailureHasCause, Cause
<1>26. ASSUME NEW c \in Clients, Interrupt(c) PROVE FailureHasCause'
  <2>1. Recorded /\ \A d \in Clients : cli'[d] = "failed" => cli[d] = "failed" \/ d \in excused'
    BY <1>26, RecordedNext DEF Interrupt, Goto, TypeOK
  <2> QED
    BY <2>1, CauseKept DEF FailureHasCause, Cause
<1>27. ASSUME NEW c \in Clients, GrowsStale(c) PROVE FailureHasCause'
  <2>1. Recorded /\ \A d \in Clients : cli'[d] = "failed" => cli[d] = "failed"
    BY <1>27, RecordedNext DEF GrowsStale, TypeOK
  <2> QED
    BY <2>1, CauseKept DEF FailureHasCause, Cause
<1> QED
  BY <1>1, <1>2, <1>3, <1>4, <1>5, <1>6, <1>7, <1>8, <1>9, <1>10, <1>11, <1>12, <1>13, <1>14,
    <1>15, <1>16, <1>17, <1>18, <1>19, <1>20, <1>21, <1>22, <1>23, <1>24, <1>25, <1>26, <1>27
    DEF Next, CliNext, Prune, WorkerNext, Finished

-----------------------------------------------------------------------------
\* How many bundles are left

\* The rest of a list after its first k.
LEMMA EndOf ==
    ASSUME NEW T, NEW l \in Seq(T), NEW k \in Nat, k < Len(l)
    PROVE  LET s == SubSeq(l, k + 1, Len(l))
           IN  /\ DOMAIN s = 1 .. (Len(l) - k) /\ Len(s) = Len(l) - k
               /\ \A j \in 1 .. (Len(l) - k) : s[j] = l[k + j]
  OBVIOUS

\* All but what is superfluous of a list are no more than are to be retained.
LEMMA RetainedBound ==
    ASSUME NEW l \in Seq(Bundles), NEW B, B \subseteq Range(l) \ Range(Superfluous(l))
    PROVE  IsFiniteSet(B) /\ Cardinality(B) <= Retained
<1> DEFINE m == IF Retained <= Len(l) THEN Retained ELSE Len(l)
           T == {l[i] : i \in 1 .. m}
           s == SubSeq(l, Retained + 1, Len(l))
           f == [i \in 1 .. m |-> l[i]]
<1>1. Len(l) \in Nat /\ Retained \in Nat /\ DOMAIN l = 1 .. Len(l) /\ m \in Nat /\ m <= Retained
  BY CacheAssumption
<1>2. ASSUME NEW i \in 1 .. Len(l), i > Retained PROVE l[i] \in Range(s)
  <2>1. i - Retained \in 1 .. Len(s) /\ DOMAIN s = 1 .. Len(s) /\ s[i - Retained] = l[i]
    <3>1. DOMAIN s = 1 .. (Len(l) - Retained) /\ Len(s) = Len(l) - Retained
          /\ \A j \in 1 .. (Len(l) - Retained) : s[j] = l[(Retained + 1) + j - 1]
      <4>1. Retained < Len(l)
        BY <1>1, <1>2
      <4> HIDE DEF m, T, f
      <4>2. \A j \in 1 .. (Len(l) - Retained) : s[j] = l[Retained + j] /\ Retained + j = (Retained + 1) + j - 1
        BY <1>1, <4>1, EndOf
      <4> QED
        BY <1>1, <4>1, <4>2, EndOf
    <3>2. i - Retained \in 1 .. (Len(l) - Retained) /\ (Retained + 1) + (i - Retained) - 1 = i
      BY <1>1, <1>2
    <3> HIDE DEF s
    <3> QED
      BY <3>1, <3>2
  <2> HIDE DEF s
  <2> QED
    BY <2>1 DEF Range
<1>3. Superfluous(l) = s
  BY DEF Superfluous
<1>4. \A i \in 1 .. Len(l) : i <= Retained => i \in 1 .. m
  BY <1>1
<1>5. B \subseteq T
  <2> HIDE DEF s, m
  <2>1. \A i \in 1 .. Len(l) : i > Retained \/ i <= Retained
    BY <1>1
  <2>2. ASSUME NEW x \in B PROVE x \in T
    <3>1. PICK i \in 1 .. Len(l) : x = l[i]
      BY <1>1 DEF Range
    <3>2. ~(i > Retained)
      BY <1>2, <1>3, <3>1
    <3> QED
      BY <1>4, <2>1, <3>1, <3>2
  <2> QED
    BY <2>2
<1>6. IsFiniteSet(1 .. m) /\ Cardinality(1 .. m) = m
  <2>1. IsFiniteSet(1 .. m) /\ Cardinality(1 .. m) = IF 1 > m THEN 0 ELSE m - 1 + 1
    <3>1. m \in Int
      BY <1>1
    <3> HIDE DEF m
    <3> QED
      BY <3>1, FS_Interval
  <2> HIDE DEF m
  <2> QED
    BY <1>1, <2>1
<1>7. f \in Surjection(1 .. m, T)
  BY DEF Surjection
<1>8. IsFiniteSet(T) /\ Cardinality(T) <= m
  <2> HIDE DEF f, T, m
  <2> QED
    BY <1>6, <1>7, FS_Surjection
<1>9. IsFiniteSet(B) /\ Cardinality(B) <= Cardinality(T) /\ Cardinality(B) \in Nat /\ Cardinality(T) \in Nat
  <2> HIDE DEF T
  <2>1. IsFiniteSet(B) /\ Cardinality(B) <= Cardinality(T)
    BY <1>5, <1>8, FS_Subset
  <2> QED
    BY <1>8, <2>1, FS_CardinalityType
<1> HIDE DEF m, T
<1> QED
  BY <1>1, <1>8, <1>9

\* A step after which all have listed the cache and before which they had, and
\* that adds nothing to what is left.
ListKeeps ==
    (\A c \in Clients : HasListed(c)') => \A c \in Clients : HasListed(c) /\ Left(c)' \subseteq Left(c)

\* Such a step keeps the bound.
LEMMA PrunedFrame ==
    ASSUME Pruned, Recorded, ListKeeps
    PROVE  Pruned'
<1> SUFFICES ASSUME kept' = {}, excused' = {}, \A c \in Clients : HasListed(c)'
             PROVE  \E c \in Clients : IsFiniteSet(Left(c)') /\ Cardinality(Left(c)') <= Retained
  BY DEF Pruned
<1>1. kept = {} /\ excused = {}
  BY DEF Recorded
<1>2. \A c \in Clients : HasListed(c) /\ Left(c)' \subseteq Left(c)
  BY DEF ListKeeps
<1>3. PICK c \in Clients : IsFiniteSet(Left(c)) /\ Cardinality(Left(c)) <= Retained
  BY <1>1, <1>2 DEF Pruned
<1>4. IsFiniteSet(Left(c)') /\ Cardinality(Left(c)') <= Cardinality(Left(c))
  BY <1>2, <1>3, FS_Subset
<1>5. Cardinality(Left(c)') \in Nat /\ Cardinality(Left(c)) \in Nat /\ Retained \in Nat
  BY <1>3, <1>4, FS_CardinalityType, CacheAssumption
<1> QED
  BY <1>3, <1>4, <1>5

\* An invocation that has yet to list the cache will.
LEMMA PrunedLater ==
    ASSUME NEW c \in Clients, ~HasListed(c)'
    PROVE  Pruned'
  BY DEF Pruned

\* What is in a list is first in it, or in its rest.
LEMMA HeadTailRange ==
    ASSUME NEW T, NEW s \in Seq(T), s # <<>>
    PROVE  Range(s) = {Head(s)} \cup Range(Tail(s))
<1> DEFINE t == Tail(s)
<1>1. Len(s) \in Nat \ {0} /\ DOMAIN s = 1 .. Len(s) /\ Head(s) = s[1]
      /\ DOMAIN t = 1 .. Len(s) - 1 /\ \A i \in 1 .. Len(s) - 1 : t[i] = s[i + 1]
  OBVIOUS
<1> HIDE DEF t
<1>2. ASSUME NEW i \in 1 .. Len(s), i # 1 PROVE i - 1 \in 1 .. Len(s) - 1 /\ (i - 1) + 1 = i
  BY <1>1, <1>2
<1>3. ASSUME NEW i \in 1 .. Len(s) PROVE s[i] = Head(s) \/ s[i] \in Range(t)
  <2>1. CASE i = 1
    BY <1>1, <2>1
  <2>2. CASE i # 1
    <3>1. i - 1 \in DOMAIN t /\ t[i - 1] = s[i]
      BY <1>1, <1>2, <2>2
    <3> QED
      BY <3>1 DEF Range
  <2> QED
    BY <2>1, <2>2
<1>4. \A i \in 1 .. Len(s) - 1 : i + 1 \in 1 .. Len(s)
  BY <1>1
<1>5. Range(t) \subseteq Range(s)
  BY <1>1, <1>4 DEF Range
<1>6. Head(s) \in Range(s)
  <2>1. 1 \in 1 .. Len(s)
    BY <1>1
  <2> QED
    BY <1>1, <2>1 DEF Range
<1>7. Range(s) \subseteq {Head(s)} \cup Range(t)
  BY <1>1, <1>3 DEF Range
<1> QED
  BY <1>5, <1>6, <1>7 DEF t

\* When all have listed the cache, one of them has left no more than is to be
\* retained to it.
LEMMA PrunedNext ==
    ASSUME TypeOK, \A d \in Clients : Removing(d), \A b \in Bundles : Listed(b),
           \A d \in Clients : Staged(d), Pruned, [Next]_vars
    PROVE  Pruned'
<1>1. CASE UNCHANGED vars
  BY <1>1 DEF vars, cacheVars, historyVars, Pruned, HasListed, Left, Present
<1>2. ASSUME NEW c \in Clients, ProbeFails(c) PROVE Pruned'
  <2>1. ~HasListed(c)'
    BY <1>2 DEF ProbeFails, Goto, TypeOK, HasListed
  <2> QED
    BY <2>1, PrunedLater
<1>3. ASSUME NEW c \in Clients, Discover(c) PROVE Pruned'
  <2>1. ~HasListed(c)'
    BY <1>3 DEF Discover, Goto, TypeOK, HasListed
  <2> QED
    BY <2>1, PrunedLater
<1>4. ASSUME NEW c \in Clients, DiscoverUnavailable(c) PROVE Pruned'
  <2>1. ~HasListed(c)'
    BY <1>4 DEF DiscoverUnavailable, Goto, TypeOK, HasListed
  <2> QED
    BY <2>1, PrunedLater
<1>5. ASSUME NEW c \in Clients, CheckCache(c) PROVE Pruned'
  <2>1. ~HasListed(c)'
    BY <1>5 DEF CheckCache, Goto, CacheHit, TypeOK, HasListed
  <2> QED
    BY <2>1, PrunedLater
<1>6. ASSUME NEW c \in Clients, UploadOpens(c) PROVE Pruned'
  <2>1. ~HasListed(c)'
    BY <1>6 DEF UploadOpens, Members, TypeOK, HasListed
  <2> QED
    BY <2>1, PrunedLater
<1>7. ASSUME NEW c \in Clients, UploadEnds(c) PROVE Pruned'
  <2>1. cli[c] \in Members
    BY <1>7 DEF UploadEnds, Staged
  <2>2. ~HasListed(c)'
    BY <1>7, <2>1 DEF UploadEnds, Goto, AfterUpload, Members, TypeOK, HasListed
  <2> QED
    BY <2>2, PrunedLater
<1>8. ASSUME NEW c \in Clients, UploadFails(c) PROVE Pruned'
  <2>1. ~HasListed(c)'
    BY <1>8 DEF UploadFails, Goto, FailedUpload, TypeOK, HasListed
  <2> QED
    BY <2>1, PrunedLater
<1>9. ASSUME NEW c \in Clients, CommitTest(c) PROVE Pruned'
  <2>1. ~HasListed(c)'
    BY <1>9 DEF CommitTest, Goto, TypeOK, HasListed
  <2> QED
    BY <2>1, PrunedLater
<1>10. ASSUME NEW c \in Clients, CommitFails(c) PROVE Pruned'
  <2>1. ~HasListed(c)'
    BY <1>10 DEF CommitFails, Goto, TypeOK, HasListed
  <2> QED
    BY <2>1, PrunedLater
<1>11. ASSUME NEW c \in Clients, Move(c) PROVE Pruned'
  <2>1. cli'[c] = "spawn"
    BY <1>11 DEF Move, Publish, SkipDropped, Dropped, Nest, Goto, AfterMove, TypeOK
  <2> QED
    BY <2>1, PrunedLater DEF HasListed
<1>12. ASSUME NEW c \in Clients, NothingToMove(c) PROVE Pruned'
  <2>1. ~HasListed(c)'
    BY <1>12 DEF NothingToMove, Goto, AfterMove, TypeOK, HasListed
  <2> QED
    BY <2>1, PrunedLater
<1>13. ASSUME NEW c \in Clients, Spawn(c) PROVE Pruned'
  <2>1. ~HasListed(c)'
    BY <1>13 DEF Spawn, Goto, TypeOK, HasListed
  <2> QED
    BY <2>1, PrunedLater
<1>14. ASSUME NEW c \in Clients, List(c) PROVE Pruned'
  <2> DEFINE l == Among(recent, Bundles)
  <2>1. l \in Seq(Bundles \cup Clients) /\ Range(l) = Range(recent) \cap Bundles
    BY AmongIs DEF TypeOK
  <2>2. l \in Seq(Bundles)
    <3> HIDE DEF l
    <3> QED
      BY <2>1 DEF Range
  <2>3. recent' = recent /\ deleting'[c] = Superfluous(l)
    BY <1>14 DEF List, cacheVars, TypeOK
  <2>4. Left(c)' \subseteq Range(l) \ Range(Superfluous(l))
    <3> HIDE DEF l
    <3> QED
      BY <2>1, <2>3 DEF Left, Present
  <2>5. IsFiniteSet(Left(c)') /\ Cardinality(Left(c)') <= Retained
    <3> HIDE DEF l
    <3> QED
      BY <2>2, <2>4, RetainedBound
  <2> QED
    BY <2>5 DEF Pruned
<1>15. ASSUME NEW c \in Clients, ListFails(c) PROVE Pruned'
  BY <1>15 DEF ListFails, Pruned
<1>16. ASSUME NEW c \in Clients, RemoveNext(c) PROVE Pruned'
  <2>1. Recorded
    BY RecordedNext
  <2>2. ListKeeps
    <3>1. recent' = recent /\ managed' = managed
          /\ \A d \in Clients : cli'[d] \in {"prune", "remove", "await", "ready"} => cli[d] \in {"prune", "remove", "await", "ready"}
      BY <1>16 DEF RemoveNext, Goto, TypeOK, cacheVars
    <3>2. \A d \in Clients : \A b \in Bundles : Present(b) /\ b \in Range(deleting[d]) => b \in Range(deleting'[d])
      <4>1. CASE Present(Head(deleting[c]))
        BY <1>16, <4>1 DEF RemoveNext
      <4>2. CASE ~Present(Head(deleting[c]))
        <5>1. deleting' = [deleting EXCEPT ![c] = Tail(deleting[c])] /\ deleting[c] \in Seq(Bundles) /\ deleting[c] # <<>>
          BY <1>16, <4>2 DEF RemoveNext, TypeOK
        <5>2. Range(deleting[c]) = {Head(deleting[c])} \cup Range(Tail(deleting[c]))
          BY <5>1, HeadTailRange
        <5> QED
          BY <4>2, <5>1, <5>2 DEF TypeOK
      <4> QED
        BY <4>1, <4>2
    <3> QED
      BY <3>1, <3>2 DEF ListKeeps, HasListed, Left, Present
  <2> QED
    BY <2>1, <2>2, PrunedFrame
<1>17. ASSUME NEW c \in Clients, RemoveDirectory(c) PROVE Pruned'
  <2>1. Recorded
    BY RecordedNext
  <2>2. ListKeeps
    <3> DEFINE p == Head(deleting[c])
    <3>1. managed' = managed
          /\ cli' = [d \in Clients |-> IF d \in Dropped(p) THEN "prune" ELSE cli[d]]
          /\ deleting' = [d \in Clients |-> IF d \in Dropped(p) THEN Tail(deleting[d]) ELSE deleting[d]]
      BY <1>17 DEF RemoveDirectory, SkipDropped
    <3>2. Range(recent') = Range(recent) \ {p}
      BY <1>17, PresentStep
    <3> HIDE DEF p
    <3>3. ASSUME NEW d \in Clients, NEW b \in Range(deleting[d]), b # p
          PROVE  b \in Range(deleting'[d])
      <4>1. CASE d \in Dropped(p)
        <5>1. deleting[d] \in Seq(Bundles) /\ deleting[d] # <<>> /\ Head(deleting[d]) = p
          BY <4>1 DEF Dropped, Removing, TypeOK
        <5>2. Range(deleting[d]) = {p} \cup Range(Tail(deleting[d]))
          BY <5>1, HeadTailRange
        <5> QED
          BY <3>1, <3>3, <4>1, <5>2
      <4>2. CASE d \notin Dropped(p)
        BY <3>1, <4>2
      <4> QED
        BY <4>1, <4>2
    <3>4. \A d \in Clients : Left(d)' \subseteq Left(d)
      BY <3>2, <3>3 DEF Left, Present
    <3>5. \A d \in Clients : HasListed(d)' => HasListed(d)
      BY <3>1 DEF Dropped, HasListed
    <3> QED
      BY <3>4, <3>5 DEF ListKeeps
  <2> QED
    BY <2>1, <2>2, PrunedFrame
<1>18. ASSUME NEW c \in Clients, RemoveFails(c) PROVE Pruned'
  BY <1>18 DEF RemoveFails, Pruned
<1>19. ASSUME NEW c \in Clients, Sweep(c) PROVE Pruned'
  <2>1. Recorded
    BY RecordedNext
  <2>2. ListKeeps
    <3>1. Range(recent') \subseteq Range(recent)
      BY <1>19, PresentStep
    <3>2. deleting' = deleting /\ managed' = managed
          /\ \A d \in Clients : cli'[d] \in {"prune", "remove", "await", "ready"} => cli[d] \in {"prune", "remove", "await", "ready"}
      BY <1>19 DEF Sweep, Goto, TypeOK
    <3> QED
      BY <3>1, <3>2 DEF ListKeeps, HasListed, Left, Present
  <2> QED
    BY <2>1, <2>2, PrunedFrame
<1>20. ASSUME NEW c \in Clients, NEW entry \in Entries, RemoveEntry(c, entry) PROVE Pruned'
  <2>1. Recorded
    BY RecordedNext
  <2>2. ListKeeps
    <3>1. Range(recent') = Range(recent)
      BY <1>20, PresentStep
    <3> QED
      BY <1>20, <3>1 DEF RemoveEntry, ListKeeps, HasListed, Left, Present
  <2> QED
    BY <2>1, <2>2, PrunedFrame
<1>21. ASSUME NEW c \in Clients, AwaitReady(c) PROVE Pruned'
  <2>1. Recorded
    BY RecordedNext
  <2>2. ListKeeps
    <3>1. recent' = recent /\ managed' = managed /\ deleting' = deleting
          /\ \A d \in Clients : cli'[d] \in {"prune", "remove", "await", "ready"} => cli[d] \in {"prune", "remove", "await", "ready"}
      BY <1>21 DEF AwaitReady, Goto, cacheVars, TypeOK
    <3> QED
      BY <3>1 DEF ListKeeps, HasListed, Left, Present
  <2> QED
    BY <2>1, <2>2, PrunedFrame
<1>22. ASSUME NEW c \in Clients, AwaitEnd(c) PROVE Pruned'
  <2>1. ~HasListed(c)'
    BY <1>22 DEF AwaitEnd, Goto, ManagedNow, TypeOK, HasListed
  <2> QED
    BY <2>1, PrunedLater
<1>23. ASSUME NEW c \in Clients, WorkerExec(c) PROVE Pruned'
  <2>1. Recorded
    BY RecordedNext
  <2>2. ListKeeps
    <3>1. recent' = recent /\ managed' = managed /\ deleting' = deleting
          /\ \A d \in Clients : cli'[d] \in {"prune", "remove", "await", "ready"} => cli[d] \in {"prune", "remove", "await", "ready"}
      BY <1>23 DEF WorkerExec, cacheVars, TypeOK
    <3> QED
      BY <3>1 DEF ListKeeps, HasListed, Left, Present
  <2> QED
    BY <2>1, <2>2, PrunedFrame
<1>24. ASSUME NEW c \in Clients, WorkerLoad(c) PROVE Pruned'
  <2>1. Recorded
    BY RecordedNext
  <2>2. ListKeeps
    <3>1. recent' = recent /\ managed' = managed /\ deleting' = deleting
          /\ \A d \in Clients : cli'[d] \in {"prune", "remove", "await", "ready"} => cli[d] \in {"prune", "remove", "await", "ready"}
      BY <1>24 DEF WorkerLoad, cacheVars, TypeOK
    <3> QED
      BY <3>1 DEF ListKeeps, HasListed, Left, Present
  <2> QED
    BY <2>1, <2>2, PrunedFrame
<1>25. ASSUME NEW c \in Clients, WorkerCut(c) PROVE Pruned'
  <2>1. Recorded
    BY RecordedNext
  <2>2. ListKeeps
    <3>1. recent' = recent /\ managed' = managed /\ deleting' = deleting
          /\ \A d \in Clients : cli'[d] \in {"prune", "remove", "await", "ready"} => cli[d] \in {"prune", "remove", "await", "ready"}
      BY <1>25 DEF WorkerCut, cacheVars, TypeOK
    <3> QED
      BY <3>1 DEF ListKeeps, HasListed, Left, Present
  <2> QED
    BY <2>1, <2>2, PrunedFrame
<1>26. ASSUME NEW c \in Clients, Interrupt(c) PROVE Pruned'
  <2>1. ~HasListed(c)'
    BY <1>26 DEF Interrupt, Goto, TypeOK, HasListed
  <2> QED
    BY <2>1, PrunedLater
<1>27. ASSUME NEW c \in Clients, GrowsStale(c) PROVE Pruned'
  <2>1. Recorded
    BY RecordedNext
  <2>2. ListKeeps
    <3>1. recent' = recent /\ managed' = managed /\ deleting' = deleting
          /\ \A d \in Clients : cli'[d] \in {"prune", "remove", "await", "ready"} => cli[d] \in {"prune", "remove", "await", "ready"}
      BY <1>27 DEF GrowsStale, cacheVars, TypeOK
    <3> QED
      BY <3>1 DEF ListKeeps, HasListed, Left, Present
  <2> QED
    BY <2>1, <2>2, PrunedFrame
<1> QED
  BY <1>1, <1>2, <1>3, <1>4, <1>5, <1>6, <1>7, <1>8, <1>9, <1>10, <1>11, <1>12, <1>13, <1>14,
    <1>15, <1>16, <1>17, <1>18, <1>19, <1>20, <1>21, <1>22, <1>23, <1>24, <1>25, <1>26, <1>27
    DEF Next, CliNext, Prune, WorkerNext, Finished

-----------------------------------------------------------------------------
\* The theorems

\* At first the cache holds the bundles of earlier invocations.
LEMMA InitInv == Init => IInv
<1> SUFFICES ASSUME Init PROVE IInv
  OBVIOUS
<1>1. PICK w \in Worlds : Bundle = w.deploys /\ installed = w.host /\ recent = w.cached
  BY DEF Init
<1>2. Bundle \in [Clients -> Bundles] /\ installed \in Host /\ recent \in Seq(Bundles) /\ IsInjective(recent)
  BY <1>1, CacheAssumption DEF World
<1>3. recent \in Seq(Bundles \cup Clients) /\ \A c \in Clients : ~Present(c)
  <2>1. Range(recent) \subseteq Bundles
    BY <1>2 DEF Range
  <2> QED
    BY <1>2, <2>1, Names DEF Present
<1>4. TypeOK
  <2>1. \A b \in Bundles : (IF Present(b) THEN Members ELSE {}) \in SUBSET Entries
    BY DEF Entries
  <2>2. bundle \in [Bundles -> SUBSET Entries]
    BY <2>1 DEF Init
  <2>3. deleting \in [Clients -> Seq(Bundles)]
    BY DEF Init
  <2>4. managed \in [Clients -> BOOLEAN] /\ worker \in [Clients -> {"none", "spawned", "loading", "ready", "exited"}]
        /\ cli \in [Clients -> Working \cup Ended]
    BY DEF Init, Working
  <2>5. {stale, uploading, excused, swept, Embedded} \subseteq SUBSET Clients
        /\ staging \in [Clients -> SUBSET Members]
    BY CacheAssumption DEF Init
  <2>6. damaged \subseteq Bundles /\ kept \subseteq Bundles /\ publisher \in [Bundles -> Clients \cup {None}]
    BY DEF Init
  <2> QED
    BY <1>2, <1>3, <2>2, <2>3, <2>4, <2>5, <2>6 DEF TypeOK
<1>5. PublishedWhole /\ \A b \in Bundles : Listed(b)
  BY DEF Init, PublishedWhole, Whole, Listed
<1>6. FailureHasCause
  BY DEF Init, FailureHasCause
<1>7. Pruned
  BY CacheAssumption DEF Init, Pruned, HasListed
<1>8. ASSUME NEW c \in Clients PROVE Staged(c) /\ Installed(c) /\ Explained(c) /\ Removing(c)
  BY DEF Init, Staged, Uploaded, Installed, Explained, Removing
<1> QED
  BY <1>4, <1>5, <1>6, <1>7, <1>8 DEF IInv

\* Every step keeps the invariant.
LEMMA NextInv == IInv /\ [Next]_vars => IInv'
<1> SUFFICES ASSUME IInv, [Next]_vars PROVE IInv'
  OBVIOUS
<1>1. TypeOK /\ PublishedWhole /\ FailureHasCause /\ Pruned /\ (\A b \in Bundles : Listed(b))
      /\ (\A d \in Clients : Staged(d)) /\ (\A d \in Clients : Installed(d))
      /\ (\A d \in Clients : Explained(d)) /\ (\A d \in Clients : Removing(d))
  BY DEF IInv
<1>2. TypeOK' /\ PublishedWhole' /\ FailureHasCause' /\ Pruned' /\ \A b \in Bundles : Listed(b)'
  BY <1>1, TypeNext, WholeNext, FailureNext, PrunedNext, ListedNext
<1>3. (\A d \in Clients : Staged(d)') /\ (\A d \in Clients : Installed(d)')
      /\ (\A d \in Clients : Explained(d)') /\ (\A d \in Clients : Removing(d)')
  BY <1>1, StagedNext, InstalledNext, ExplainedNext, RemovingNext
<1> QED
  BY <1>2, <1>3 DEF IInv

\* The invariant the properties rest on.
THEOREM InvariantHolds == Spec => []IInv
  BY InitInv, NextInv, PTL DEF Spec

\* Every variable keeps its type; no directory is listed twice.
THEOREM TypeCorrect == Spec => []TypeOK
<1>1. IInv => TypeOK
  BY DEF IInv
<1> QED
  BY <1>1, InvariantHolds, PTL

\* The upload in its own staging directory, the marker that comes last and the
\* move that takes no place but an empty one publish a bundle whole.
THEOREM PublishedCorrect == Spec => []PublishedWhole
<1>1. IInv => PublishedWhole
  BY DEF IInv
<1> QED
  BY <1>1, InvariantHolds, PTL

\* Losing a race for the cache is no error of the bootstrap.
THEOREM FailureCorrect == Spec => []FailureHasCause
<1>1. IInv => FailureHasCause
  BY DEF IInv
<1> QED
  BY <1>1, InvariantHolds, PTL

\* Whatever the order of uploads and cleanups, the cache ends up bounded.
THEOREM BoundedCorrect == Spec => []CacheBounded
<1>1. IInv => CacheBounded
  <2> SUFFICES ASSUME IInv, kept = {}, excused = {},
                      \A c \in Clients : cli[c] = "ready" /\ worker[c] = "ready" /\ managed[c]
               PROVE  Cardinality({b \in Bundles : Present(b)}) <= Retained
    BY DEF CacheBounded
  <2>1. \A c \in Clients : HasListed(c) /\ deleting[c] = <<>>
    BY DEF IInv, Removing, HasListed
  <2>2. PICK c \in Clients : Cardinality(Left(c)) <= Retained
    BY <2>1 DEF IInv, Pruned
  <2>3. Left(c) = {b \in Bundles : Present(b)}
    BY <2>1 DEF Left, Range
  <2> QED
    BY <2>2, <2>3
<1> QED
  BY <1>1, InvariantHolds, PTL

\* What NeverOverwritten says of a step.
OwnFiles == \A b \in Bundles : bundle[b] # {} => publisher'[b] = publisher[b]

\* Files are not put among those of another invocation.
LEMMA PublisherKept ==
    ASSUME TypeOK, [Next]_vars
    PROVE  OwnFiles
<1>1. CASE UNCHANGED vars
  BY <1>1 DEF vars, historyVars, OwnFiles
<1>2. ASSUME NEW c \in Clients, ProbeFails(c) PROVE OwnFiles
  BY <1>2 DEF ProbeFails, historyVars, OwnFiles
<1>3. ASSUME NEW c \in Clients, Discover(c) PROVE OwnFiles
  BY <1>3 DEF Discover, historyVars, OwnFiles
<1>4. ASSUME NEW c \in Clients, DiscoverUnavailable(c) PROVE OwnFiles
  BY <1>4 DEF DiscoverUnavailable, historyVars, OwnFiles
<1>5. ASSUME NEW c \in Clients, CheckCache(c) PROVE OwnFiles
  BY <1>5 DEF CheckCache, historyVars, OwnFiles
<1>6. ASSUME NEW c \in Clients, UploadOpens(c) PROVE OwnFiles
  BY <1>6 DEF UploadOpens, historyVars, OwnFiles
<1>7. ASSUME NEW c \in Clients, UploadEnds(c) PROVE OwnFiles
  BY <1>7 DEF UploadEnds, historyVars, OwnFiles
<1>8. ASSUME NEW c \in Clients, UploadFails(c) PROVE OwnFiles
  BY <1>8 DEF UploadFails, historyVars, OwnFiles
<1>9. ASSUME NEW c \in Clients, CommitTest(c) PROVE OwnFiles
  BY <1>9 DEF CommitTest, historyVars, OwnFiles
<1>10. ASSUME NEW c \in Clients, CommitFails(c) PROVE OwnFiles
  BY <1>10 DEF CommitFails, historyVars, OwnFiles
<1>11. ASSUME NEW c \in Clients, Move(c) PROVE OwnFiles
  <2>1. CASE Replaces(Bundle[c])
    BY <1>11, <2>1 DEF Move, Publish, Replaces, TypeOK, OwnFiles
  <2>2. CASE ~Replaces(Bundle[c])
    BY <1>11, <2>2 DEF Move, Nest, OwnFiles
  <2> QED
    BY <2>1, <2>2
<1>12. ASSUME NEW c \in Clients, NothingToMove(c) PROVE OwnFiles
  BY <1>12 DEF NothingToMove, historyVars, OwnFiles
<1>13. ASSUME NEW c \in Clients, Spawn(c) PROVE OwnFiles
  BY <1>13 DEF Spawn, historyVars, OwnFiles
<1>14. ASSUME NEW c \in Clients, List(c) PROVE OwnFiles
  BY <1>14 DEF List, historyVars, OwnFiles
<1>15. ASSUME NEW c \in Clients, ListFails(c) PROVE OwnFiles
  BY <1>15 DEF ListFails, historyVars, OwnFiles
<1>16. ASSUME NEW c \in Clients, RemoveNext(c) PROVE OwnFiles
  BY <1>16 DEF RemoveNext, historyVars, OwnFiles
<1>17. ASSUME NEW c \in Clients, RemoveDirectory(c) PROVE OwnFiles
  BY <1>17 DEF RemoveDirectory, historyVars, OwnFiles
<1>18. ASSUME NEW c \in Clients, RemoveFails(c) PROVE OwnFiles
  BY <1>18 DEF RemoveFails, historyVars, OwnFiles
<1>19. ASSUME NEW c \in Clients, Sweep(c) PROVE OwnFiles
  BY <1>19 DEF Sweep, historyVars, OwnFiles
<1>20. ASSUME NEW c \in Clients, NEW entry \in Entries, RemoveEntry(c, entry) PROVE OwnFiles
  BY <1>20 DEF RemoveEntry, historyVars, OwnFiles
<1>21. ASSUME NEW c \in Clients, AwaitReady(c) PROVE OwnFiles
  BY <1>21 DEF AwaitReady, historyVars, OwnFiles
<1>22. ASSUME NEW c \in Clients, AwaitEnd(c) PROVE OwnFiles
  BY <1>22 DEF AwaitEnd, historyVars, OwnFiles
<1>23. ASSUME NEW c \in Clients, WorkerExec(c) PROVE OwnFiles
  BY <1>23 DEF WorkerExec, historyVars, OwnFiles
<1>24. ASSUME NEW c \in Clients, WorkerLoad(c) PROVE OwnFiles
  BY <1>24 DEF WorkerLoad, historyVars, OwnFiles
<1>25. ASSUME NEW c \in Clients, WorkerCut(c) PROVE OwnFiles
  BY <1>25 DEF WorkerCut, historyVars, OwnFiles
<1>26. ASSUME NEW c \in Clients, Interrupt(c) PROVE OwnFiles
  BY <1>26 DEF Interrupt, historyVars, OwnFiles
<1>27. ASSUME NEW c \in Clients, GrowsStale(c) PROVE OwnFiles
  BY <1>27 DEF GrowsStale, historyVars, OwnFiles
<1> QED
  BY <1>1, <1>2, <1>3, <1>4, <1>5, <1>6, <1>7, <1>8, <1>9, <1>10, <1>11, <1>12, <1>13, <1>14,
    <1>15, <1>16, <1>17, <1>18, <1>19, <1>20, <1>21, <1>22, <1>23, <1>24, <1>25, <1>26, <1>27
    DEF Next, CliNext, Prune, WorkerNext, Finished

\* Only an empty directory is given files by another invocation.
THEOREM OverwritingCorrect == Spec => NeverOverwritten
<1>1. TypeOK /\ [Next]_vars => [OwnFiles]_vars
  BY PublisherKept
<1> QED
  BY <1>1, TypeCorrect, PTL DEF Spec, NeverOverwritten, OwnFiles
=============================================================================
