---------------------- MODULE DirectoryTransferProofs ----------------------
(***************************************************************************)
(* Theorems about DirectoryTransfer, for any tree, any sizes, any content  *)
(* of the destination and any failures: what the frames on their way say,  *)
(* that a file appears whole or not at all, and that a transfer reported   *)
(* complete delivered the tree.                                            *)
(***************************************************************************)
EXTENDS DirectoryTransfer, FiniteSetTheorems, TLAPS

Entries == Dirs \cup Files \cup Links

\* No file of the source has the staging name of another one, or its own.
NoClash == \A p \in Files : Partial[p] \notin Files

-----------------------------------------------------------------------------
\* The grammar of the frames

Types  == {"start", "pack", "packEnd", "dir", "file", "data", "digest", "end"}
Frames == [type: Types, path: Entries \cup {Root}, numbers: Seq(Nat)]

\* A place in the stream: behind unit n of a file, or between two entries.
At(p, n) == [path |-> p, n |-> n]
Between  == At(Root, 0)

After(f) == IF f.type = "file" THEN At(f.path, 0)
            ELSE IF f.type = "data" THEN At(f.path, f.numbers[1])
            ELSE Between

\* Without digests nothing marks the end of a file.
Rests(pos) == pos = Between \/ (~Checksum /\ \E p \in Files : pos = At(p, Size[p]))

Plain == {"start", "pack", "packEnd", "end"}

Follows(pos, f) ==
    \/ /\ f.type = "data" /\ f.path \in Files
       /\ \E n \in 1 .. Size[f.path] : pos = At(f.path, n - 1) /\ f.numbers = <<n>>
    \/ /\ f.type = "digest" /\ f.path \in Files /\ Checksum
       /\ pos = At(f.path, Size[f.path]) /\ f.numbers = <<Size[f.path]>>
    \/ f.type = "file" /\ f.path \in Files /\ f.numbers = <<Size[f.path]>> /\ Rests(pos)
    \/ f.type = "dir" /\ f.path \in Dirs /\ Rests(pos)
    \/ f.type \in Plain /\ Rests(pos)

Linked(pos, s) == \A i \in 1 .. Len(s) : Follows(IF i = 1 THEN pos ELSE After(s[i - 1]), s[i])

LastOf(pos, s) == IF s = <<>> THEN pos ELSE After(s[Len(s)])

-----------------------------------------------------------------------------
\* The invariant

Receiving == worker \in {"start", "frames", "data"}

\* Where the worker is, and where the sender may be.
WorkerAt == IF worker = "data" THEN At(incoming.path, Size[incoming.path] - incoming.left) ELSE Between

SenderAt(pos) ==
    /\ sender \in {"start", "walk"} => Rests(pos)
    /\ sender = "file" => \/ pos = At(current.path, Size[current.path] - current.left)
                          \/ current.left = 0 /\ ~Checksum /\ Rests(pos)

\* The frames on their way lead from the worker to the sender.
Wire ==
    /\ up \in Seq(Frames) /\ down \in Seq({"ok", "error", "body"})
    /\ Receiving => Linked(WorkerAt, up) /\ (conn = "up" => SenderAt(LastOf(WorkerAt, up)))

\* What of a file was received is under its staging name.
TaskFiles ==
    /\ sender = "file" => current.path \in Files /\ current.left <= Size[current.path]
    /\ worker = "data" =>
          /\ incoming.path \in Files /\ incoming.left <= Size[incoming.path]
          /\ dest[Staging(incoming.path)] = File(Content(incoming.path, Size[incoming.path] - incoming.left))

\* END is the last frame, with the totals of the sender.
EndSent ==
    \A i \in 1 .. Len(up) : up[i].type = "end" =>
       /\ i = Len(up) /\ sender \in {"ended", "done"}
       /\ up[i].numbers = <<sent.files, sent.dirs, sent.bytes>>

\* An entry of an open directory; a name is in one of them.
In(p, levels)    == \E i \in 1 .. Len(levels) : p \in levels[i]
Disjoint(levels) == \A i, j \in 1 .. Len(levels) : i # j => levels[i] \cap levels[j] = {}

Walks == sender \in {"walk", "file", "ended", "done"}

\* The entries seen so far: those that are not, are the ones to come in the open
\* directories and what is below them.
Walk(seen) ==
    /\ \A p \in Entries : In(p, stack) => p \notin seen
    /\ Disjoint(stack)
    /\ Walks => \A p \in Entries : Parent[p] \in seen \cup {Root} <=> (p \in seen \/ In(p, stack))
    /\ Walks => sent.files + (IF sender = "file" THEN 1 ELSE 0) = Cardinality(seen \cap Files)
    /\ sender = "start" => seen = {} /\ stack = <<>> /\ sent = Zero
    /\ sender = "file" => current.path \in seen
    /\ sender \in {"ended", "done"} => stack = <<>>

InUp(type, p) == \E i \in 1 .. Len(up) : up[i].type = type /\ up[i].path = p
HasEnd        == \E i \in 1 .. Len(up) : up[i].type = "end"

Whole(p) == dest[p] = File(Content(p, Size[p]))
Tidy(p)  == Partial[p] \in Dirs \cup Files \/ dest[Partial[p]] = Absent

\* A file that arrived; its staging name may be in use for another one.
Arrived(p) == Whole(p) /\ (Tidy(p) \/ (worker = "data" /\ Partial[incoming.path] = Partial[p]))

\* Everything seen is on its way, being received, or there, as long as the
\* stream goes on or its end is on its way.
Covered(seen) ==
    NoClash /\ Receiving /\ (conn = "up" \/ HasEnd) =>
       /\ \A d \in seen \cap Dirs : dest[d] = Directory \/ InUp("dir", d)
       /\ \A p \in seen \cap Files : Arrived(p) \/ (worker = "data" /\ incoming.path = p) \/ InUp("file", p)

Progress == \E seen \in SUBSET Entries : Walk(seen) /\ Covered(seen)

\* The worker said that all is well, and what it knew then.
Ok ==
    \/ worker \in {"ackOk", "bodyOk"} \/ \E i \in 1 .. Len(down) : down[i] = "ok"
    \/ ack = "ok" \/ cli \in {"acked", "completed"}

Finished ==
    /\ worker \in {"ackOk", "bodyOk", "shutdown", "ended"} /\ sender \in {"ended", "done"}
    /\ totals = sent /\ sent.files = Cardinality(Files)
    /\ NoClash => (\A d \in Dirs : dest[d] = Directory) /\ (\A p \in Files : Whole(p) /\ Tidy(p))

Receipt == cli \in {"acked", "completed"} => outcome.files = totals.files /\ outcome.bytes = totals.bytes

IInv == TypeOK /\ Wire /\ TaskFiles /\ EndSent /\ Progress /\ (Ok => Finished) /\ Receipt

-----------------------------------------------------------------------------
\* Sequences

\* The members of a sequence, and when it is empty.
LEMMA Elements ==
    ASSUME NEW T, NEW s \in Seq(T)
    PROVE  Len(s) \in Nat /\ (s = <<>> <=> Len(s) = 0) /\ \A i \in 1 .. Len(s) : s[i] \in T
OBVIOUS

\* The first member of a sequence, and the later ones.
LEMMA FirstAndRest ==
    ASSUME NEW T, NEW s \in Seq(T), s # <<>>
    PROVE  /\ Head(s) \in T /\ Tail(s) \in Seq(T) /\ Len(s) > 0 /\ Head(s) = s[1]
           /\ Len(Tail(s)) = Len(s) - 1 /\ \A i \in 1 .. Len(s) - 1 : Tail(s)[i] = s[i + 1]
OBVIOUS

\* The first n members of a sequence.
LEMMA Prefix ==
    ASSUME NEW T, NEW s \in Seq(T), NEW n \in 0 .. Len(s)
    PROVE  /\ SubSeq(s, 1, n) \in Seq(T) /\ Len(SubSeq(s, 1, n)) = n
           /\ \A i \in 1 .. n : SubSeq(s, 1, n)[i] = s[i]
           /\ n = Len(s) => SubSeq(s, 1, n) = s
OBVIOUS

\* Two sequences, one behind the other.
LEMMA Joined ==
    ASSUME NEW T, NEW s \in Seq(T), NEW t \in Seq(T)
    PROVE  /\ s \o t \in Seq(T) /\ Len(s \o t) = Len(s) + Len(t)
           /\ \A i \in 1 .. Len(s) : (s \o t)[i] = s[i]
           /\ \A i \in 1 .. Len(t) : (s \o t)[Len(s) + i] = t[i]
OBVIOUS

\* A member behind a sequence.
LEMMA OneMore ==
    ASSUME NEW T, NEW s \in Seq(T), NEW x \in T
    PROVE  /\ Append(s, x) \in Seq(T) /\ Len(Append(s, x)) = Len(s) + 1
           /\ \A i \in 1 .. Len(s) : Append(s, x)[i] = s[i]
           /\ Append(s, x)[Len(s) + 1] = x
OBVIOUS

\* A frame fits behind another part of the stream.
LEMMA LinkedJoin ==
    ASSUME NEW pos, NEW s \in Seq(Frames), NEW t \in Seq(Frames),
           Linked(pos, s), Linked(LastOf(pos, s), t)
    PROVE  Linked(pos, s \o t) /\ LastOf(pos, s \o t) = LastOf(LastOf(pos, s), t)
<1> DEFINE u == s \o t
<1>1. /\ u \in Seq(Frames) /\ Len(u) = Len(s) + Len(t) /\ \A i \in 1 .. Len(s) : u[i] = s[i]
      /\ \A i \in 1 .. Len(t) : u[Len(s) + i] = t[i]
  BY Joined
<1>2. /\ Len(s) \in Nat /\ (s = <<>> <=> Len(s) = 0)
      /\ Len(t) \in Nat /\ (t = <<>> <=> Len(t) = 0) /\ (u = <<>> <=> Len(u) = 0)
  BY <1>1, Elements
<1> HIDE DEF u
<1>3. ASSUME NEW i \in 1 .. Len(u) PROVE Follows(IF i = 1 THEN pos ELSE After(u[i - 1]), u[i])
  <2>1. CASE i <= Len(s)
    <3>1. u[i] = s[i] /\ (i # 1 => u[i - 1] = s[i - 1])
      BY <1>1, <1>2, <2>1
    <3> QED
      BY <1>1, <1>2, <2>1, <3>1 DEF Linked
  <2>2. CASE i > Len(s)
    <3> DEFINE j == i - Len(s)
    <3>1. j \in 1 .. Len(t) /\ i = Len(s) + j
      BY <1>1, <1>2, <2>2
    <3>2. u[i] = t[j]
      BY <1>1, <3>1
    <3>3. Follows(IF j = 1 THEN LastOf(pos, s) ELSE After(t[j - 1]), t[j])
      BY <3>1 DEF Linked
    <3>4. CASE j # 1
      <4>1. j - 1 \in 1 .. Len(t) /\ i - 1 = Len(s) + (j - 1) /\ i # 1
        BY <1>2, <3>1, <3>4
      <4>2. u[i - 1] = t[j - 1]
        BY <1>1, <4>1
      <4> QED
        BY <3>2, <3>3, <3>4, <4>1, <4>2
    <3>5. CASE j = 1 /\ s = <<>>
      BY <1>2, <3>1, <3>2, <3>3, <3>5 DEF LastOf
    <3>6. CASE j = 1 /\ s # <<>>
      <4>1. i - 1 = Len(s) /\ i # 1 /\ u[i - 1] = s[Len(s)]
        BY <1>1, <1>2, <3>1, <3>6
      <4> QED
        BY <3>2, <3>3, <3>6, <4>1 DEF LastOf
    <3> QED
      BY <3>4, <3>5, <3>6
  <2> QED
    BY <1>1, <1>2, <2>1, <2>2
<1>4. LastOf(pos, u) = LastOf(LastOf(pos, s), t)
  <2>1. CASE t = <<>>
    <3>1. u = s
      BY <2>1 DEF u
    <3> QED
      BY <2>1, <3>1 DEF LastOf
  <2>2. CASE t # <<>>
    <3>1. u # <<>> /\ Len(t) \in 1 .. Len(t) /\ u[Len(u)] = t[Len(t)]
      BY <1>1, <1>2, <2>2
    <3> QED
      BY <2>2, <3>1 DEF LastOf
  <2> QED
    BY <2>1, <2>2
<1> QED
  BY <1>3, <1>4 DEF Linked, u

\* The first frame follows the place the stream starts from.
LEMMA LinkedRest ==
    ASSUME NEW pos, NEW s \in Seq(Frames), s # <<>>, Linked(pos, s)
    PROVE  /\ Follows(pos, Head(s)) /\ Linked(After(Head(s)), Tail(s))
           /\ LastOf(After(Head(s)), Tail(s)) = LastOf(pos, s)
<1> DEFINE r == Tail(s)
<1>1. /\ Head(s) = s[1] /\ r \in Seq(Frames) /\ Len(s) > 0 /\ Len(s) \in Nat
      /\ Len(r) = Len(s) - 1 /\ \A i \in 1 .. Len(s) - 1 : r[i] = s[i + 1]
      /\ (r = <<>> <=> Len(r) = 0)
  BY FirstAndRest, Elements
<1> HIDE DEF r
<1>2. Follows(pos, Head(s))
  BY <1>1 DEF Linked
<1>3. ASSUME NEW i \in 1 .. Len(r) PROVE Follows(IF i = 1 THEN After(s[1]) ELSE After(r[i - 1]), r[i])
  <2>1. i + 1 \in 1 .. Len(s) /\ r[i] = s[i + 1] /\ i + 1 # 1 /\ (i + 1) - 1 = i
    BY <1>1
  <2>2. Follows(After(s[i]), s[i + 1])
    BY <2>1 DEF Linked
  <2>3. i # 1 => r[i - 1] = s[i]
    BY <1>1
  <2> QED
    BY <2>1, <2>2, <2>3
<1>4. LastOf(After(s[1]), r) = LastOf(pos, s)
  <2>1. CASE r = <<>>
    <3>1. Len(s) = 1 /\ s # <<>>
      BY <1>1, <2>1
    <3> QED
      BY <2>1, <3>1 DEF LastOf
  <2>2. CASE r # <<>>
    <3>1. r[Len(r)] = s[Len(s)]
      BY <1>1, <2>2
    <3> QED
      BY <1>1, <2>2, <3>1 DEF LastOf
  <2> QED
    BY <2>1, <2>2
<1> QED
  BY <1>1, <1>2, <1>3, <1>4 DEF Linked, r

\* What is left of a stream that was cut.
LEMMA LinkedPrefix ==
    ASSUME NEW pos, NEW s \in Seq(Frames), NEW n \in 0 .. Len(s), Linked(pos, s)
    PROVE  Linked(pos, SubSeq(s, 1, n))
<1>1. Len(s) \in Nat
  BY Elements
<1>2. Len(SubSeq(s, 1, n)) = n /\ \A i \in 1 .. n : SubSeq(s, 1, n)[i] = s[i]
  BY Prefix
<1> DEFINE r == SubSeq(s, 1, n)
<1> HIDE DEF r
<1>3. ASSUME NEW i \in 1 .. n PROVE Follows(IF i = 1 THEN pos ELSE After(r[i - 1]), r[i])
  <2>1. i \in 1 .. Len(s) /\ r[i] = s[i] /\ (i # 1 => r[i - 1] = s[i - 1])
    BY <1>1, <1>2 DEF r
  <2> QED
    BY <2>1 DEF Linked
<1> QED
  BY <1>2, <1>3 DEF Linked, r

\* Without digests, a file that is complete can take its name at once.
LEMMA LinkedBetween ==
    ASSUME DirectoryAssumption, ~Checksum, NEW p \in Files, NEW s \in Seq(Frames),
           Linked(At(p, Size[p]), s)
    PROVE  Linked(Between, s) /\ (s # <<>> => LastOf(Between, s) = LastOf(At(p, Size[p]), s))
<1>1. Len(s) \in Nat /\ (s = <<>> <=> Len(s) = 0) /\ Size[p] \in Nat
  BY Elements DEF DirectoryAssumption
<1>2. ASSUME NEW f, Follows(At(p, Size[p]), f) PROVE Follows(Between, f)
  <2>0. \/ f.path \in Files /\ \E n \in 1 .. Size[f.path] : At(p, Size[p]) = At(f.path, n - 1)
        \/ f.type \notin {"data", "digest"}
    BY <1>2 DEF Follows, Plain
  <2>1. CASE f.path \in Files /\ \E n \in 1 .. Size[f.path] : At(p, Size[p]) = At(f.path, n - 1)
    <3>1. PICK n \in 1 .. Size[f.path] : At(p, Size[p]) = At(f.path, n - 1)
      BY <2>1
    <3>2. p = f.path /\ Size[p] = n - 1
      BY <3>1 DEF At
    <3> QED
      BY <1>1, <3>1, <3>2
  <2>2. CASE f.type \notin {"data", "digest"}
    BY <1>2, <2>2 DEF Follows, Rests
  <2> QED
    BY <2>0, <2>1, <2>2
<1>3. ASSUME NEW i \in 1 .. Len(s) PROVE Follows(IF i = 1 THEN Between ELSE After(s[i - 1]), s[i])
  <2>1. Follows(IF i = 1 THEN At(p, Size[p]) ELSE After(s[i - 1]), s[i])
    BY DEF Linked
  <2> QED
    BY <1>2, <2>1
<1> QED
  BY <1>3 DEF Linked, LastOf

-----------------------------------------------------------------------------
\* The open directories

\* Without the innermost one.
LEMMA Popped ==
    ASSUME NEW levels \in Seq(SUBSET Entries), levels # <<>>, Disjoint(levels)
    PROVE  LET top == levels[Len(levels)]  below == SubSeq(levels, 1, Len(levels) - 1) IN
           /\ top \in SUBSET Entries /\ below \in Seq(SUBSET Entries) /\ Disjoint(below)
           /\ \A p : In(p, levels) <=> In(p, below) \/ p \in top
           /\ \A p : ~(In(p, below) /\ p \in top)
<1> DEFINE below == SubSeq(levels, 1, Len(levels) - 1)
<1>1. /\ Len(levels) \in Nat /\ Len(levels) > 0
      /\ \A i \in 1 .. Len(levels) : levels[i] \in SUBSET Entries
  BY Elements
<1>2. Len(levels) - 1 \in 0 .. Len(levels) /\ Len(levels) \in 1 .. Len(levels)
  BY <1>1
<1>3. /\ below \in Seq(SUBSET Entries) /\ Len(below) = Len(levels) - 1
      /\ \A i \in 1 .. Len(levels) - 1 : below[i] = levels[i]
  BY <1>2, Prefix
<1> HIDE DEF below
<1>4. Disjoint(below)
  <2> SUFFICES ASSUME NEW i \in 1 .. Len(below), NEW j \in 1 .. Len(below), i # j
               PROVE  below[i] \cap below[j] = {}
    BY DEF Disjoint
  <2>1. i \in 1 .. Len(levels) /\ j \in 1 .. Len(levels) /\ below[i] = levels[i] /\ below[j] = levels[j]
    BY <1>1, <1>3
  <2> QED
    BY <2>1 DEF Disjoint
<1>5. ASSUME NEW p PROVE In(p, levels) <=> In(p, below) \/ p \in levels[Len(levels)]
  <2>1. ASSUME In(p, levels) PROVE In(p, below) \/ p \in levels[Len(levels)]
    <3>1. PICK i \in 1 .. Len(levels) : p \in levels[i]
      BY <2>1 DEF In
    <3>2. i = Len(levels) \/ i \in 1 .. Len(levels) - 1
      BY <1>1
    <3> QED
      BY <1>3, <3>1, <3>2 DEF In
  <2>2. ASSUME In(p, below) PROVE In(p, levels)
    <3>1. PICK i \in 1 .. Len(below) : p \in below[i]
      BY <2>2 DEF In
    <3>2. i \in 1 .. Len(levels) /\ below[i] = levels[i]
      BY <1>1, <1>3
    <3> QED
      BY <3>1, <3>2 DEF In
  <2> QED
    BY <1>2, <2>1, <2>2 DEF In
<1>6. ASSUME NEW p, In(p, below), p \in levels[Len(levels)] PROVE FALSE
  <2>1. PICK i \in 1 .. Len(below) : p \in below[i]
    BY <1>6 DEF In
  <2>2. i \in 1 .. Len(levels) /\ i # Len(levels) /\ below[i] = levels[i]
    BY <1>1, <1>3
  <2> QED
    BY <1>2, <1>6, <2>1, <2>2 DEF Disjoint
<1> QED
  BY <1>1, <1>2, <1>3, <1>4, <1>5, <1>6 DEF below

\* With one more.
LEMMA Pushed ==
    ASSUME NEW levels \in Seq(SUBSET Entries), Disjoint(levels), NEW top \in SUBSET Entries,
           \A p \in top : ~In(p, levels)
    PROVE  /\ Append(levels, top) \in Seq(SUBSET Entries) /\ Disjoint(Append(levels, top))
           /\ \A p : In(p, Append(levels, top)) <=> In(p, levels) \/ p \in top
<1> DEFINE more == Append(levels, top)
<1>1. Len(levels) \in Nat
  BY Elements
<1>2. /\ more \in Seq(SUBSET Entries) /\ Len(more) = Len(levels) + 1
      /\ \A i \in 1 .. Len(levels) : more[i] = levels[i]
      /\ more[Len(levels) + 1] = top
  BY OneMore
<1> HIDE DEF more
<1>3. ASSUME NEW i \in 1 .. Len(more)
      PROVE  (i \in 1 .. Len(levels) /\ more[i] = levels[i]) \/ (i = Len(levels) + 1 /\ more[i] = top)
  BY <1>1, <1>2
<1>4. Disjoint(more)
  <2> SUFFICES ASSUME NEW i \in 1 .. Len(more), NEW j \in 1 .. Len(more), i # j
               PROVE  more[i] \cap more[j] = {}
    BY DEF Disjoint
  <2>1. CASE i \in 1 .. Len(levels) /\ j \in 1 .. Len(levels)
    BY <1>2, <2>1 DEF Disjoint
  <2>2. CASE i = Len(levels) + 1 /\ j \in 1 .. Len(levels)
    BY <1>2, <2>2 DEF In
  <2>3. CASE i \in 1 .. Len(levels) /\ j = Len(levels) + 1
    BY <1>2, <2>3 DEF In
  <2> QED
    BY <1>3, <2>1, <2>2, <2>3
<1>5. ASSUME NEW p PROVE In(p, more) <=> In(p, levels) \/ p \in top
  <2>1. In(p, more) => In(p, levels) \/ p \in top
    BY <1>3 DEF In
  <2>2. \A i \in 1 .. Len(levels) : i \in 1 .. Len(more)
    BY <1>1, <1>2
  <2>3. Len(levels) + 1 \in 1 .. Len(more)
    BY <1>1, <1>2
  <2> QED
    BY <1>2, <2>1, <2>2, <2>3 DEF In
<1> QED
  BY <1>2, <1>4, <1>5 DEF more

-----------------------------------------------------------------------------
\* What the sender writes

\* No frame.
LEMMA NoFrame ==
    ASSUME NEW pos
    PROVE  <<>> \in Seq(Frames) /\ Linked(pos, <<>>) /\ LastOf(pos, <<>>) = pos
BY DEF Linked, LastOf

\* One frame.
LEMMA OneFrame ==
    ASSUME NEW pos, NEW f \in Frames, Follows(pos, f)
    PROVE  /\ <<f>> \in Seq(Frames) /\ Linked(pos, <<f>>) /\ LastOf(pos, <<f>>) = After(f)
           /\ \A i \in 1 .. Len(<<f>>) : <<f>>[i] = f
<1> HIDE DEF Frames
<1>1. <<f>> \in Seq(Frames) /\ Len(<<f>>) = 1 /\ <<f>>[1] = f /\ <<f>> # <<>>
  OBVIOUS
<1> DEFINE s == <<f>>
<1> HIDE DEF s
<1>2. Linked(pos, s)
  BY <1>1 DEF Linked, s
<1>3. LastOf(pos, s) = After(f)
  BY <1>1 DEF LastOf, s
<1> QED
  BY <1>1, <1>2, <1>3 DEF s

\* Two frames.
LEMMA TwoFrames ==
    ASSUME NEW pos, NEW f \in Frames, NEW g \in Frames, Follows(pos, f), Follows(After(f), g)
    PROVE  /\ <<f, g>> \in Seq(Frames) /\ Linked(pos, <<f, g>>) /\ LastOf(pos, <<f, g>>) = After(g)
           /\ Len(<<f, g>>) = 2 /\ <<f, g>>[1] = f /\ <<f, g>>[2] = g
<1> HIDE DEF Frames
<1> DEFINE s == <<f, g>>
<1>1. s \in Seq(Frames) /\ Len(s) = 2 /\ s[1] = f /\ s[2] = g /\ s # <<>>
  OBVIOUS
<1> HIDE DEF s
<1>2. Linked(pos, s)
  BY <1>1 DEF Linked
<1>3. LastOf(pos, s) = After(g)
  BY <1>1 DEF LastOf
<1> QED
  BY <1>1, <1>2, <1>3 DEF s

\* Frames between two entries.
LEMMA PlainFrame ==
    ASSUME NEW type \in Plain, NEW numbers \in Seq(Nat)
    PROVE  LET f == Frame(type, Root, numbers) IN
           /\ f \in Frames /\ f.type = type /\ f.numbers = numbers /\ After(f) = Between
           /\ \A pos : Rests(pos) => Follows(pos, f)
<1> DEFINE f == Frame(type, Root, numbers)
<1>1. f \in Frames /\ f.type = type /\ f.numbers = numbers /\ type \notin {"file", "data"}
  BY DEF Frame, Frames, Types, Plain
<1> HIDE DEF f
<1>2. After(f) = Between /\ \A pos : Rests(pos) => Follows(pos, f)
  BY <1>1, Zenon DEF After, Follows
<1> QED
  BY <1>1, <1>2 DEF f

\* The frames without numbers.
LEMMA EmptyFrame ==
    ASSUME NEW type \in {"start", "pack", "packEnd"}
    PROVE  LET f == Frame(type, Root, <<>>) IN
           /\ f \in Frames /\ f.type = type /\ After(f) = Between
           /\ \A pos : Rests(pos) => Follows(pos, f)
<1>1. type \in Plain /\ <<>> \in Seq(Nat)
  BY DEF Plain
<1> QED
  BY <1>1, PlainFrame

\* The frame of a directory.
LEMMA DirFrame ==
    ASSUME DirectoryAssumption, NEW p \in Dirs
    PROVE  LET f == Frame("dir", p, <<>>) IN
           /\ f \in Frames /\ f.type = "dir" /\ f.path = p /\ After(f) = Between
           /\ \A pos : Rests(pos) => Follows(pos, f)
<1> DEFINE f == Frame("dir", p, <<>>)
<1>1. f \in Frames /\ f.type = "dir" /\ f.path = p
  BY DEF Frame, Frames, Types, Entries
<1> HIDE DEF f
<1>2. After(f) = Between /\ \A pos : Rests(pos) => Follows(pos, f)
  BY <1>1 DEF After, Follows
<1> QED
  BY <1>1, <1>2 DEF f

\* The frame of a file.
LEMMA FileFrame ==
    ASSUME DirectoryAssumption, NEW p \in Files
    PROVE  LET f == Frame("file", p, <<Size[p]>>) IN
           /\ f \in Frames /\ f.type = "file" /\ f.path = p /\ After(f) = At(p, 0)
           /\ \A pos : Rests(pos) => Follows(pos, f)
<1> DEFINE f == Frame("file", p, <<Size[p]>>)
<1>1. <<Size[p]>> \in Seq(Nat)
  BY DEF DirectoryAssumption
<1>2. f \in Frames /\ f.type = "file" /\ f.path = p /\ f.numbers = <<Size[p]>>
  BY <1>1 DEF Frame, Frames, Types, Entries
<1> HIDE DEF f
<1>3. After(f) = At(p, 0) /\ \A pos : Rests(pos) => Follows(pos, f)
  BY <1>2 DEF After, Follows
<1> QED
  BY <1>2, <1>3 DEF f

\* The frame of unit n.
LEMMA DataFrame ==
    ASSUME DirectoryAssumption, NEW p \in Files, NEW n \in 1 .. Size[p]
    PROVE  LET f == Frame("data", p, <<n>>) IN
           f \in Frames /\ f.type = "data" /\ After(f) = At(p, n) /\ Follows(At(p, n - 1), f)
<1> DEFINE f == Frame("data", p, <<n>>)
<1>1. <<n>> \in Seq(Nat) /\ <<n>>[1] = n
  BY DEF DirectoryAssumption
<1>2. f \in Frames /\ f.type = "data" /\ f.path = p /\ f.numbers = <<n>>
  BY <1>1 DEF Frame, Frames, Types, Entries
<1> HIDE DEF f
<1>3. After(f) = At(p, n)
  BY <1>1, <1>2 DEF After
<1>4. Follows(At(p, n - 1), f)
  BY <1>2 DEF Follows
<1> QED
  BY <1>2, <1>3, <1>4 DEF f

\* The frame of a digest.
LEMMA DigestFrame ==
    ASSUME DirectoryAssumption, Checksum, NEW p \in Files
    PROVE  LET f == Frame("digest", p, <<Size[p]>>) IN
           f \in Frames /\ f.type = "digest" /\ After(f) = Between /\ Follows(At(p, Size[p]), f)
<1> DEFINE f == Frame("digest", p, <<Size[p]>>)
<1>1. <<Size[p]>> \in Seq(Nat)
  BY DEF DirectoryAssumption
<1>2. f \in Frames /\ f.type = "digest" /\ f.path = p /\ f.numbers = <<Size[p]>>
  BY <1>1 DEF Frame, Frames, Types, Entries
<1> HIDE DEF f
<1>3. After(f) = Between /\ Follows(At(p, Size[p]), f)
  BY <1>2 DEF After, Follows
<1> QED
  BY <1>2, <1>3 DEF f

\* A place between two entries, also when what is behind it was written.
LEMMA Resting == Rests(Between) /\ \A p \in Files : ~Checksum => Rests(At(p, Size[p]))
BY DEF Rests

\* What an action of the sender wrote: frames that lead from where it was to
\* where it is, and the end only behind all others.
Sent(fs) ==
    /\ fs \in Seq(Frames) /\ Put(fs)
    /\ \A pos : SenderAt(pos) => Linked(pos, fs) /\ SenderAt(LastOf(pos, fs))'
    /\ \A i \in 1 .. Len(fs) : fs[i].type = "end" =>
          /\ i = Len(fs) /\ sender' = "ended" /\ sent' = sent
          /\ fs[i].numbers = <<sent.files, sent.dirs, sent.bytes>>

\* An action that writes nothing.
LEMMA SentNothing ==
    ASSUME Wire, up' = up, \A pos : SenderAt(pos) => SenderAt(pos)'
    PROVE  Sent(<<>>)
<1>1. up \o <<>> = up
  <2> HIDE DEF Frames
  <2> QED
    BY DEF Wire
<1>2. /\ <<>> \in Seq(Frames)
      /\ \A pos : Linked(pos, <<>>) /\ LastOf(pos, <<>>) = pos
  BY NoFrame
<1>3. \A i \in 1 .. Len(<<>>) : FALSE
  OBVIOUS
<1>4. Put(<<>>)
  BY <1>1 DEF Put
<1>5. ASSUME NEW pos, SenderAt(pos) PROVE Linked(pos, <<>>) /\ SenderAt(LastOf(pos, <<>>))'
  BY <1>2, <1>5
<1> QED
  BY <1>2, <1>3, <1>4, <1>5 DEF Sent

\* An action that writes one frame, not the end.
LEMMA SentOne ==
    ASSUME NEW f \in Frames, f.type # "end", Put(<<f>>),
           \A pos : SenderAt(pos) => Follows(pos, f), SenderAt(After(f))'
    PROVE  Sent(<<f>>)
<1>1. ASSUME NEW pos, SenderAt(pos) PROVE Linked(pos, <<f>>) /\ SenderAt(LastOf(pos, <<f>>))'
  BY <1>1, OneFrame
<1>2. ASSUME NEW i \in 1 .. Len(<<f>>) PROVE <<f>>[i] = f
  OBVIOUS
<1>3. <<f>> \in Seq(Frames)
  <2> HIDE DEF Frames
  <2> QED
    OBVIOUS
<1> QED
  BY <1>1, <1>2, <1>3 DEF Sent

\* The sender's actions write what fits.
LEMMA SendsWrite ==
    ASSUME DirectoryAssumption, TypeOK, Wire, TaskFiles, Sends
    PROVE  \E fs : Sent(fs)
<1> USE DEF SenderAt
<1>1. CASE SendStart
  <2> DEFINE f == Frame("start", Root, <<>>)  g == Frame("pack", Root, <<>>)
  <2>0. /\ f \in Frames /\ f.type = "start" /\ After(f) = Between /\ \A pos : Rests(pos) => Follows(pos, f)
        /\ g \in Frames /\ g.type = "pack" /\ After(g) = Between /\ \A pos : Rests(pos) => Follows(pos, g)
    BY EmptyFrame
  <2>1. sender = "start" /\ sender' = "walk" /\ Put(<<f, g>>)
    BY <1>1, Zenon DEF SendStart
  <2> HIDE DEF f, g
  <2>2. ASSUME NEW pos, SenderAt(pos) PROVE Linked(pos, <<f, g>>) /\ SenderAt(LastOf(pos, <<f, g>>))'
    <3>1. Follows(pos, f) /\ Follows(After(f), g)
      BY <2>0, <2>1, <2>2, Resting
    <3>2. Linked(pos, <<f, g>>) /\ LastOf(pos, <<f, g>>) = Between
      BY <2>0, <3>1, TwoFrames
    <3> QED
      BY <2>1, <3>2, Resting
  <2>3. ASSUME NEW i \in 1 .. Len(<<f, g>>) PROVE <<f, g>>[i].type # "end"
    <3>1. i = 1 \/ i = 2
      OBVIOUS
    <3> QED
      BY <2>0, <3>1
  <2>4. <<f, g>> \in Seq(Frames)
    <3> HIDE DEF Frames
    <3> QED
      BY <2>0
  <2>5. Sent(<<f, g>>)
    BY <2>1, <2>2, <2>3, <2>4 DEF Sent
  <2> QED
    BY <2>5
<1>2. CASE LeaveDirectory
  <2>1. up' = up /\ sender' = sender /\ current' = current
    BY <1>2 DEF LeaveDirectory
  <2> QED
    BY <2>1, SentNothing
<1>3. CASE NextEntry
  <2>1. PICK p \in Top : SkipLink(p) \/ EnterDirectory(p) \/ StartFile(p)
    BY <1>3 DEF NextEntry
  <2>2. sender = "walk"
    BY <1>3 DEF NextEntry
  <2>3. CASE SkipLink(p)
    <3>1. up' = up /\ sender' = sender /\ current' = current
      BY <2>3 DEF SkipLink
    <3> QED
      BY <3>1, SentNothing
  <2>4. CASE EnterDirectory(p)
    <3> DEFINE f == Frame("dir", p, <<>>)
    <3>1. p \in Dirs /\ Put(<<f>>) /\ sender' = sender
      BY <2>4 DEF EnterDirectory
    <3>2. f \in Frames /\ f.type = "dir" /\ After(f) = Between /\ \A pos : Rests(pos) => Follows(pos, f)
      BY <3>1, DirFrame
    <3> HIDE DEF f
    <3>3. Sent(<<f>>)
      BY <2>2, <3>1, <3>2, Resting, SentOne
    <3> QED
      BY <3>3
  <2>5. CASE StartFile(p)
    <3> DEFINE f == Frame("packEnd", Root, <<>>)  g == Frame("pack", Root, <<>>)
               h == Frame("file", p, <<Size[p]>>)
    <3>0. PICK fs : fs = IF NewPack(p) THEN <<f, g>> ELSE <<>>
      OBVIOUS
    <3>1. p \in Files /\ Put(fs \o <<h>>) /\ sender' = "file" /\ current' = [path |-> p, left |-> Size[p]]
      BY <2>5, <3>0 DEF StartFile
    <3>2. Size[p] \in Nat
      BY <3>1 DEF DirectoryAssumption
    <3>3. /\ f \in Frames /\ f.type = "packEnd" /\ After(f) = Between /\ \A pos : Rests(pos) => Follows(pos, f)
          /\ g \in Frames /\ g.type = "pack" /\ After(g) = Between /\ \A pos : Rests(pos) => Follows(pos, g)
      BY EmptyFrame
    <3>4. h \in Frames /\ h.type = "file" /\ After(h) = At(p, 0) /\ \A pos : Rests(pos) => Follows(pos, h)
      BY <3>1, FileFrame
    <3> HIDE DEF f, g, h
    <3>5. <<f, g>> \in Seq(Frames) /\ Len(<<f, g>>) = 2 /\ <<f, g>>[1] = f /\ <<f, g>>[2] = g
      <4> HIDE DEF Frames
      <4> QED
        BY <3>3
    <3>6. fs \in Seq(Frames) /\ \A i \in 1 .. Len(fs) : fs[i].type # "end"
      <4>1. CASE NewPack(p)
        <5>1. \A i \in 1 .. Len(<<f, g>>) : i = 1 \/ i = 2
          BY <3>5
        <5> QED
          BY <3>0, <3>3, <3>5, <4>1, <5>1
      <4>2. CASE ~NewPack(p)
        BY <3>0, <4>2, NoFrame
      <4> QED
        BY <4>1, <4>2
    <3>7. ASSUME NEW pos, SenderAt(pos) PROVE Linked(pos, fs) /\ Rests(LastOf(pos, fs))
      <4>1. Rests(pos)
        BY <2>2, <3>7
      <4>2. CASE NewPack(p)
        <5>1. Linked(pos, <<f, g>>) /\ LastOf(pos, <<f, g>>) = Between
          BY <3>3, <4>1, Resting, TwoFrames
        <5> QED
          BY <3>0, <4>2, <5>1, Resting
      <4>3. CASE ~NewPack(p)
        BY <3>0, <4>1, <4>3, NoFrame
      <4> QED
        BY <4>2, <4>3
    <3>8. <<h>> \in Seq(Frames) /\ Len(<<h>>) = 1 /\ <<h>>[1] = h
      <4> HIDE DEF Frames
      <4> QED
        BY <3>4
    <3>9. ASSUME NEW pos, SenderAt(pos) PROVE Linked(pos, fs \o <<h>>) /\ SenderAt(LastOf(pos, fs \o <<h>>))'
      <4>1. Linked(LastOf(pos, fs), <<h>>) /\ LastOf(LastOf(pos, fs), <<h>>) = At(p, 0)
        BY <3>4, <3>7, <3>9, OneFrame
      <4>2. Linked(pos, fs \o <<h>>) /\ LastOf(pos, fs \o <<h>>) = At(p, 0)
        <5>1. /\ fs \in Seq(Frames) /\ <<h>> \in Seq(Frames) /\ Linked(pos, fs)
              /\ Linked(LastOf(pos, fs), <<h>>)
          BY <3>6, <3>7, <3>8, <3>9, <4>1
        <5>2. Linked(pos, fs \o <<h>>) /\ LastOf(pos, fs \o <<h>>) = LastOf(LastOf(pos, fs), <<h>>)
          <6>1. PICK t : t = <<h>>
            OBVIOUS
          <6>2. Linked(pos, fs \o t) /\ LastOf(pos, fs \o t) = LastOf(LastOf(pos, fs), t)
            <7>1. fs \in Seq(Frames) /\ t \in Seq(Frames) /\ Linked(pos, fs) /\ Linked(LastOf(pos, fs), t)
              BY <5>1, <6>1
            <7> QED
              BY <7>1, LinkedJoin
          <6> QED
            BY <6>1, <6>2
        <5> QED
          BY <4>1, <5>2
      <4>3. Size[current'.path] - current'.left = 0 /\ current'.path = p
        BY <3>1, <3>2
      <4> QED
        BY <3>1, <4>2, <4>3
    <3>10. /\ fs \o <<h>> \in Seq(Frames) /\ Len(fs \o <<h>>) = Len(fs) + 1
           /\ \A i \in 1 .. Len(fs) : (fs \o <<h>>)[i] = fs[i]
           /\ \A i \in 1 .. 1 : (fs \o <<h>>)[Len(fs) + i] = <<h>>[i]
      BY <3>6, <3>8, Joined
    <3>11. Len(fs) \in Nat
      BY <3>6, Elements
    <3>12. ASSUME NEW i \in 1 .. Len(fs \o <<h>>) PROVE (fs \o <<h>>)[i].type # "end"
      <4>1. i \in 1 .. Len(fs) \/ (i = Len(fs) + 1 /\ 1 \in 1 .. 1)
        BY <3>10, <3>11
      <4> QED
        BY <3>4, <3>6, <3>8, <3>10, <4>1
    <3>13. Sent(fs \o <<h>>)
      BY <3>1, <3>9, <3>10, <3>12 DEF Sent
    <3> QED
      BY <3>13
  <2> QED
    BY <2>1, <2>3, <2>4, <2>5
<1>4. CASE SendUnit
  <2>0. PICK p, n, f : /\ p = current.path /\ n = Size[current.path] - current.left + 1
                       /\ f = Frame("data", p, <<n>>)
    OBVIOUS
  <2>1. /\ sender = "file" /\ sender' = sender /\ current.left > 0 /\ Put(<<f>>)
        /\ current' = [current EXCEPT !.left = @ - 1]
    BY <1>4, <2>0 DEF SendUnit
  <2>2. p \in Files /\ current.left <= Size[p] /\ Size[p] \in Nat /\ current.left \in Nat
    BY <2>0, <2>1 DEF TaskFiles, TypeOK, DirectoryAssumption
  <2>3. current'.path = p /\ current'.left = current.left - 1
    BY <2>0, <2>1 DEF TypeOK
  <2>4. n \in 1 .. Size[p] /\ n - 1 = Size[p] - current.left /\ Size[p] - current'.left = n
    BY <2>0, <2>1, <2>2, <2>3
  <2>5. f \in Frames /\ f.type = "data" /\ After(f) = At(p, n) /\ Follows(At(p, n - 1), f)
    BY <2>0, <2>2, <2>4, DataFrame
  <2>6. ASSUME NEW pos, SenderAt(pos) PROVE Follows(pos, f)
    BY <2>0, <2>1, <2>2, <2>4, <2>5, <2>6
  <2>7. SenderAt(After(f))'
    BY <2>1, <2>3, <2>4, <2>5
  <2>8. Sent(<<f>>)
    BY <2>1, <2>5, <2>6, <2>7, SentOne
  <2> QED
    BY <2>8
<1>5. CASE FinishFile
  <2>0. PICK p, f : p = current.path /\ f = Frame("digest", p, <<Size[p]>>)
    OBVIOUS
  <2>1. /\ sender = "file" /\ sender' = "walk" /\ current.left = 0
        /\ Put(IF Checksum THEN <<f>> ELSE <<>>)
    BY <1>5, <2>0 DEF FinishFile
  <2>2. p \in Files /\ Size[p] \in Nat /\ Size[p] - current.left = Size[p]
    BY <2>0, <2>1 DEF TaskFiles, DirectoryAssumption
  <2>3. CASE Checksum
    <3>1. f \in Frames /\ f.type = "digest" /\ After(f) = Between /\ Follows(At(p, Size[p]), f)
      BY <2>0, <2>2, <2>3, DigestFrame
    <3>2. ASSUME NEW pos, SenderAt(pos) PROVE Follows(pos, f)
      BY <2>0, <2>1, <2>2, <2>3, <3>1, <3>2
    <3>3. SenderAt(After(f))'
      BY <2>1, <3>1, Resting
    <3>4. Sent(<<f>>)
      BY <2>1, <2>3, <3>1, <3>2, <3>3, SentOne
    <3> QED
      BY <3>4
  <2>4. CASE ~Checksum
    <3>1. up' = up
      <4>1. up \o <<>> = up
        <5> HIDE DEF Frames
        <5> QED
          BY DEF Wire
      <4> QED
        BY <2>1, <2>4, <4>1 DEF Put
    <3>2. ASSUME NEW pos, SenderAt(pos) PROVE SenderAt(pos)'
      BY <2>0, <2>1, <2>2, <2>4, <3>2, Resting
    <3> QED
      BY <3>1, <3>2, SentNothing
  <2> QED
    BY <2>3, <2>4
<1>6. CASE SendTotals
  <2>numbers. PICK numbers, f, g : /\ numbers = <<sent.files, sent.dirs, sent.bytes>>
                              /\ f = Frame("packEnd", Root, <<>>) /\ g = Frame("end", Root, numbers)
    OBVIOUS
  <2>0. numbers \in Seq(Nat) /\ "end" \in Plain
    BY <2>numbers DEF TypeOK, Plain
  <2>1. /\ f \in Frames /\ f.type = "packEnd" /\ After(f) = Between /\ \A pos : Rests(pos) => Follows(pos, f)
        /\ g \in Frames /\ g.type = "end" /\ g.numbers = numbers /\ \A pos : Rests(pos) => Follows(pos, g)
    <3>1. f \in Frames /\ f.type = "packEnd" /\ After(f) = Between /\ \A pos : Rests(pos) => Follows(pos, f)
      BY <2>numbers, EmptyFrame
    <3>2. g \in Frames /\ g.type = "end" /\ g.numbers = numbers /\ \A pos : Rests(pos) => Follows(pos, g)
      BY <2>numbers, <2>0, PlainFrame
    <3> QED
      BY <3>1, <3>2
  <2>2. sender = "walk" /\ sender' = "ended" /\ sent' = sent /\ Put(<<f, g>>)
    BY <1>6, <2>numbers, Zenon DEF SendTotals
  <2>3. ASSUME NEW pos, SenderAt(pos) PROVE Linked(pos, <<f, g>>) /\ SenderAt(LastOf(pos, <<f, g>>))'
    <3>1. Follows(pos, f) /\ Follows(After(f), g)
      BY <2>1, <2>2, <2>3, Resting
    <3> QED
      BY <2>1, <2>2, <3>1, TwoFrames
  <2>4. <<f, g>> \in Seq(Frames) /\ Len(<<f, g>>) = 2 /\ <<f, g>>[1] = f /\ <<f, g>>[2] = g
    <3> HIDE DEF Frames
    <3> QED
      BY <2>1
  <2>5. ASSUME NEW i \in 1 .. Len(<<f, g>>), <<f, g>>[i].type = "end"
        PROVE  i = Len(<<f, g>>) /\ <<f, g>>[i].numbers = numbers
    <3>1. i = 1 \/ i = 2
      BY <2>4
    <3> QED
      BY <2>1, <2>4, <2>5, <3>1
  <2>6. Sent(<<f, g>>)
    BY <2>numbers, <2>2, <2>3, <2>4, <2>5 DEF Sent
  <2> QED
    BY <2>6
<1>7. CASE SendFails
  <2>1. up' = up /\ sender' = "failed"
    BY <1>7 DEF SendFails
  <2> QED
    BY <2>1, SentNothing
<1>8. CASE SendShutdown
  <2>1. up' = up /\ sender' \in {"done", "error"}
    BY <1>8 DEF SendShutdown
  <2> QED
    BY <2>1, SentNothing
<1> QED
  BY <1>1, <1>2, <1>3, <1>4, <1>5, <1>6, <1>7, <1>8 DEF Sends

-----------------------------------------------------------------------------
\* The wire

\* What the sender's actions leave alone.
LEMMA SendsKeep == ASSUME Sends PROVE UNCHANGED <<down, conn, workerVars, cliVars>>
BY DEF Sends, SendStart, LeaveDirectory, NextEntry, SendUnit, FinishFile, SendTotals, SendFails,
       SendShutdown, cliVars

\* What the worker's actions leave alone.
LEMMA ReceivesKeep == ASSUME Receives PROVE UNCHANGED <<senderVars, conn, cliVars>>
BY DEF Receives, RecvStart, RecvPack, RecvDirectory, RecvFile, RecvUnit, RecvLast, RecvEnd,
       RecvCut, WriteAck, WriteAckFails

\* What the CLI's actions leave alone.
LEMMA AwaitsKeep == ASSUME Awaits PROVE UNCHANGED <<senderVars, up, conn, workerVars>>
BY DEF Awaits, AckTag, AckBody, AckCut, SentFirst, AckedFirst

\* A frame goes.
LEMMA TookFirst ==
    ASSUME Wire, NEW type, Took(type)
    PROVE  /\ Head(up) \in Frames /\ Head(up).type = type /\ up' \in Seq(Frames)
           /\ Receiving => /\ Follows(WorkerAt, Head(up)) /\ Linked(After(Head(up)), up')
                           /\ LastOf(After(Head(up)), up') = LastOf(WorkerAt, up)
<1>1. up # <<>> /\ up \in Seq(Frames) /\ up' = Tail(up) /\ Head(up).type = type
  BY DEF Took, Wire
<1>2. Head(up) \in Frames /\ Tail(up) \in Seq(Frames)
  BY <1>1, FirstAndRest
<1>3. ASSUME Receiving
      PROVE  /\ Follows(WorkerAt, Head(up)) /\ Linked(After(Head(up)), Tail(up))
             /\ LastOf(After(Head(up)), Tail(up)) = LastOf(WorkerAt, up)
  <2>1. Linked(WorkerAt, up)
    BY <1>3 DEF Wire
  <2> QED
    BY <1>1, <2>1, LinkedRest
<1> QED
  BY <1>1, <1>2, <1>3

\* What has to be shown of a step that the sender does not take.
LEMMA WireKept ==
    ASSUME Wire, down' \in Seq({"ok", "error", "body"}), up' \in Seq(Frames),
           UNCHANGED <<sender, current>>,
           NEW pos, Receiving' => pos = WorkerAt' /\ Linked(pos, up'),
           (Receiving /\ conn = "up")' => SenderAt(LastOf(pos, up'))
    PROVE  Wire'
<1>1. PICK last : last = LastOf(pos, up')
  OBVIOUS
<1>2. Receiving' => /\ Linked(WorkerAt', up')
                    /\ conn' = "up" => SenderAt(last)' /\ last = LastOf(WorkerAt', up')
  BY <1>1 DEF SenderAt
<1> QED
  BY <1>2 DEF Wire

\* A step that leaves the frames and both places alone.
LEMMA WireSame ==
    ASSUME Wire, down' \in Seq({"ok", "error", "body"}), UNCHANGED <<up, sender, current, worker, incoming>>,
           conn' = conn \/ conn' = "lost"
    PROVE  Wire'
<1>1. PICK pos : pos = WorkerAt
  OBVIOUS
<1>2. WorkerAt' = pos /\ Receiving' = Receiving
  BY <1>1 DEF WorkerAt, Receiving
<1>3. Receiving' => pos = WorkerAt' /\ Linked(pos, up')
  BY <1>1, <1>2 DEF Wire
<1>4. (Receiving /\ conn = "up")' => SenderAt(LastOf(pos, up'))
  BY <1>1, <1>2 DEF Wire
<1>5. up' \in Seq(Frames) /\ UNCHANGED <<sender, current>>
  BY DEF Wire
<1> QED
  BY <1>3, <1>4, <1>5, WireKept

\* The sender writes.
LEMMA WireSends ==
    ASSUME DirectoryAssumption, TypeOK, Wire, TaskFiles, Sends
    PROVE  Wire'
<1>1. PICK fs : Sent(fs)
  BY SendsWrite
<1>2. /\ fs \in Seq(Frames) /\ up' = IF conn = "up" THEN up \o fs ELSE up
      /\ \A pos : SenderAt(pos) => Linked(pos, fs) /\ SenderAt(LastOf(pos, fs))'
  BY <1>1, Zenon DEF Sent, Put
<1>3. UNCHANGED <<down, conn, worker, incoming>>
  BY SendsKeep DEF workerVars
<1>4. up' \in Seq(Frames) /\ down' \in Seq({"ok", "error", "body"})
  <2>1. up \in Seq(Frames) /\ up \o fs \in Seq(Frames)
    BY <1>2, Joined DEF Wire
  <2> QED
    BY <1>2, <1>3, <2>1 DEF Wire
<1>5. PICK pos : pos = WorkerAt
  OBVIOUS
<1>6. WorkerAt' = pos /\ Receiving' = Receiving
  BY <1>3, <1>5 DEF WorkerAt, Receiving
<1>7. CASE ~Receiving
  BY <1>4, <1>6, <1>7 DEF Wire
<1>8. CASE Receiving /\ conn = "lost"
  <2>1. up' = up /\ conn' = "lost" /\ Linked(pos, up)
    BY <1>2, <1>3, <1>5, <1>8 DEF Wire
  <2> QED
    BY <1>4, <1>6, <2>1 DEF Wire
<1>9. CASE Receiving /\ conn = "up"
  <2>1. PICK last : last = LastOf(pos, up)
    OBVIOUS
  <2>2. up' = up \o fs /\ up \in Seq(Frames) /\ Linked(pos, up) /\ SenderAt(last)
    BY <1>2, <1>5, <1>9, <2>1 DEF Wire
  <2>3. Linked(last, fs) /\ SenderAt(LastOf(last, fs))'
    BY <1>2, <2>2
  <2>4. Linked(pos, up') /\ LastOf(pos, up') = LastOf(last, fs)
    <3>1. /\ up \in Seq(Frames) /\ fs \in Seq(Frames) /\ Linked(pos, up) /\ Linked(LastOf(pos, up), fs)
      BY <1>2, <2>1, <2>2, <2>3
    <3>2. Linked(pos, up \o fs) /\ LastOf(pos, up \o fs) = LastOf(LastOf(pos, up), fs)
      BY <3>1, LinkedJoin
    <3> QED
      BY <2>1, <2>2, <3>2
  <2>5. PICK end : end = LastOf(last, fs)
    OBVIOUS
  <2>6. SenderAt(end)' /\ end = LastOf(WorkerAt', up') /\ Linked(WorkerAt', up')
    BY <1>6, <2>3, <2>4, <2>5
  <2> QED
    BY <1>4, <2>6 DEF Wire
<1> QED
  BY <1>7, <1>8, <1>9 DEF TypeOK

\* The worker takes the first frame, or is between two files of known size.
LEMMA WireReceives ==
    ASSUME DirectoryAssumption, TypeOK, Wire, TaskFiles, Receives
    PROVE  Wire'
<1>1. UNCHANGED <<sender, current, conn>> /\ up \in Seq(Frames) /\ down \in Seq({"ok", "error", "body"})
  BY ReceivesKeep DEF senderVars, Wire
<1>2. ASSUME NEW type, Took(type), worker \in {"start", "frames", "data"}, down' = down,
             Receiving' => WorkerAt' = After(Head(up))
      PROVE  Wire'
  <2>1. PICK pos : pos = After(Head(up))
    OBVIOUS
  <2>2. /\ up' \in Seq(Frames) /\ Receiving /\ Linked(pos, up') /\ LastOf(pos, up') = LastOf(WorkerAt, up)
    BY <1>2, <2>1, TookFirst DEF Receiving
  <2>3. (Receiving /\ conn = "up")' => SenderAt(LastOf(pos, up'))
    BY <1>1, <2>2 DEF Wire
  <2>4. Receiving' => pos = WorkerAt' /\ Linked(pos, up')
    BY <1>2, <2>1, <2>2
  <2>5. down' \in Seq({"ok", "error", "body"}) /\ UNCHANGED <<sender, current>>
    BY <1>1, <1>2
  <2> QED
    BY <2>2, <2>3, <2>4, <2>5, WireKept
<1>3. ASSUME ~Receiving', up' \in Seq(Frames), down' \in Seq({"ok", "error", "body"}) PROVE Wire'
  BY <1>3 DEF Wire
<1>4. CASE RecvStart
  <2>1. Took("start") /\ worker = "start" /\ down' = down /\ worker' \in {"frames", "ackError"}
    BY <1>4 DEF RecvStart, DiskError, Reject
  <2>2. Head(up) \in Frames /\ Head(up).type = "start"
    BY <2>1, TookFirst
  <2>3. Receiving' => WorkerAt' = After(Head(up))
    BY <2>1, <2>2 DEF Receiving, WorkerAt, After
  <2> QED
    BY <1>2, <2>1, <2>3
<1>5. CASE RecvPack
  <2>1. worker = "frames" /\ down' = down /\ worker' = "frames" /\ (Took("pack") \/ Took("packEnd"))
    BY <1>5 DEF RecvPack, workerVars
  <2>2. Head(up).type \in {"pack", "packEnd"}
    BY <2>1 DEF Took
  <2>3. Receiving' => WorkerAt' = After(Head(up))
    BY <2>1, <2>2 DEF Receiving, WorkerAt, After
  <2> QED
    BY <1>2, <2>1, <2>3
<1>6. CASE RecvDirectory
  <2>1. Took("dir") /\ worker = "frames" /\ down' = down /\ worker' \in {"frames", "ackError"}
    BY <1>6 DEF RecvDirectory, DiskError, Reject
  <2>2. Head(up).type = "dir"
    BY <2>1 DEF Took
  <2>3. Receiving' => WorkerAt' = After(Head(up))
    BY <2>1, <2>2 DEF Receiving, WorkerAt, After
  <2> QED
    BY <1>2, <2>1, <2>3
<1>7. CASE RecvFile
  <2>1. /\ Took("file") /\ worker = "frames" /\ down' = down
        /\ \/ worker' = "data" /\ incoming' = [path |-> Head(up).path, left |-> Head(up).numbers[1]]
           \/ worker' = "ackError"
    BY <1>7 DEF RecvFile, DiskError, Reject
  <2>2. Head(up).type = "file" /\ Follows(WorkerAt, Head(up))
    BY <2>1, TookFirst DEF Receiving
  <2>3. Head(up).path \in Files /\ Head(up).numbers = <<Size[Head(up).path]>>
    BY <2>2 DEF Follows, Plain
  <2>4. Size[Head(up).path] \in Nat /\ Head(up).numbers[1] = Size[Head(up).path]
    BY <2>3 DEF DirectoryAssumption
  <2>5. Receiving' => WorkerAt' = After(Head(up))
    <3>1. CASE worker' = "ackError"
      BY <3>1 DEF Receiving
    <3>2. CASE worker' = "data" /\ incoming' = [path |-> Head(up).path, left |-> Head(up).numbers[1]]
      <4>1. incoming'.path = Head(up).path /\ Size[Head(up).path] - incoming'.left = 0
        BY <2>4, <3>2
      <4>2. WorkerAt' = At(Head(up).path, 0)
        BY <3>2, <4>1 DEF WorkerAt
      <4> QED
        BY <2>2, <4>2 DEF After
    <3> QED
      BY <2>1, <3>1, <3>2
  <2> QED
    BY <1>2, <2>1, <2>5
<1>8. CASE RecvUnit
  <2>1. /\ Took("data") /\ worker = "data" /\ incoming.left > 0 /\ down' = down
        /\ \/ worker' = "data" /\ incoming' = [incoming EXCEPT !.left = @ - 1]
           \/ worker' = "ackError"
    BY <1>8 DEF RecvUnit, DiskError, Reject
  <2>2. Head(up).type = "data" /\ Follows(WorkerAt, Head(up))
    BY <2>1, TookFirst DEF Receiving
  <2>3. PICK n \in 1 .. Size[Head(up).path] : WorkerAt = At(Head(up).path, n - 1) /\ Head(up).numbers = <<n>>
    BY <2>2 DEF Follows, Plain
  <2>4. incoming.path = Head(up).path /\ Size[incoming.path] - incoming.left = n - 1
    BY <2>1, <2>3 DEF WorkerAt, At
  <2>5. incoming.path \in Files /\ incoming.left \in Nat /\ Size[incoming.path] \in Nat
    BY <2>1 DEF TaskFiles, TypeOK, DirectoryAssumption
  <2>6. Receiving' => WorkerAt' = After(Head(up))
    <3>1. CASE worker' = "ackError"
      BY <3>1 DEF Receiving
    <3>2. CASE worker' = "data" /\ incoming' = [incoming EXCEPT !.left = @ - 1]
      <4>1. incoming'.path = incoming.path /\ incoming'.left = incoming.left - 1
        BY <3>2 DEF TypeOK
      <4>2. Size[incoming.path] - incoming'.left = n
        BY <2>4, <2>5, <4>1
      <4>3. WorkerAt' = At(Head(up).path, n)
        BY <2>4, <3>2, <4>1, <4>2 DEF WorkerAt
      <4>4. After(Head(up)) = At(Head(up).path, n)
        BY <2>2, <2>3 DEF After
      <4> QED
        BY <4>3, <4>4
    <3> QED
      BY <2>1, <3>1, <3>2
  <2> QED
    BY <1>2, <2>1, <2>6
<1>9. CASE RecvLast
  <2>1. worker = "data" /\ incoming.left = 0 /\ down' = down /\ worker' \in {"frames", "ackError"}
    BY <1>9 DEF RecvLast, Commit, DiskError, Reject
  <2>2. CASE Checksum
    <3>1. Took("digest")
      BY <1>9, <2>2 DEF RecvLast
    <3>2. Head(up).type = "digest"
      BY <3>1 DEF Took
    <3>3. Receiving' => WorkerAt' = After(Head(up))
      BY <2>1, <3>2 DEF Receiving, WorkerAt, After
    <3> QED
      BY <1>2, <2>1, <3>1, <3>3
  <2>3. CASE ~Checksum
    <3>1. up' = up
      BY <1>9, <2>3 DEF RecvLast
    <3>2. PICK p : p = incoming.path
      OBVIOUS
    <3>3. p \in Files /\ Size[p] \in Nat /\ WorkerAt = At(p, Size[p])
      BY <2>1, <3>2 DEF TaskFiles, WorkerAt, DirectoryAssumption
    <3>4. Linked(At(p, Size[p]), up) /\ (conn = "up" => SenderAt(LastOf(At(p, Size[p]), up)))
      BY <2>1, <3>3 DEF Wire, Receiving
    <3>5. Linked(Between, up) /\ (up # <<>> => LastOf(Between, up) = LastOf(At(p, Size[p]), up))
      BY <1>1, <2>3, <3>3, <3>4, LinkedBetween
    <3>6. ASSUME conn = "up" PROVE SenderAt(LastOf(Between, up))
      <4>1. CASE up # <<>>
        BY <3>4, <3>5, <3>6, <4>1
      <4>2. CASE up = <<>>
        <5>1. SenderAt(At(p, Size[p])) /\ LastOf(Between, up) = Between
          BY <3>4, <3>6, <4>2 DEF LastOf
        <5>2. sender = "file" => current.left = 0
          <6>1. sender = "file" => /\ current.path \in Files /\ current.left \in Nat
                                   /\ Size[current.path] \in Nat
            BY DEF TaskFiles, TypeOK, DirectoryAssumption
          <6>2. sender = "file" => \/ p = current.path /\ Size[p] = Size[current.path] - current.left
                                   \/ current.left = 0
            BY <5>1 DEF SenderAt, At
          <6> QED
            BY <3>3, <6>1, <6>2
        <5> QED
          BY <2>3, <5>1, <5>2, Resting DEF SenderAt
      <4> QED
        BY <4>1, <4>2
    <3>7. PICK pos : pos = Between
      OBVIOUS
    <3>8. Receiving' => pos = WorkerAt' /\ Linked(pos, up')
      BY <2>1, <3>1, <3>5, <3>7 DEF Receiving, WorkerAt
    <3>9. (Receiving /\ conn = "up")' => SenderAt(LastOf(pos, up'))
      BY <1>1, <3>1, <3>6, <3>7
    <3>10. /\ down' \in Seq({"ok", "error", "body"}) /\ up' \in Seq(Frames)
           /\ UNCHANGED <<sender, current>>
      BY <1>1, <2>1, <3>1
    <3> QED
      BY <3>8, <3>9, <3>10, WireKept
  <2> QED
    BY <2>2, <2>3
<1>10. CASE RecvEnd
  <2>1. Took("end") /\ down' = down /\ worker' \in {"ackOk", "ackError"}
    BY <1>10 DEF RecvEnd
  <2>2. up' \in Seq(Frames)
    BY <2>1, TookFirst
  <2> QED
    BY <1>1, <1>3, <2>1, <2>2 DEF Receiving
<1>11. CASE RecvCut
  <2>1. up' = up /\ down' = down /\ worker' = "ackError"
    BY <1>11 DEF RecvCut, Reject
  <2> QED
    BY <1>1, <1>3, <2>1 DEF Receiving
<1>12. CASE WriteAck
  <2>1. /\ worker' \in {"bodyOk", "bodyError", "shutdown", "ended"} /\ up' = up
        /\ \/ \E x \in {"ok", "error", "body"} : down' = Append(down, x)
           \/ down' = down
    BY <1>12 DEF WriteAck
  <2>2. down' \in Seq({"ok", "error", "body"})
    <3>1. ASSUME NEW x \in {"ok", "error", "body"} PROVE Append(down, x) \in Seq({"ok", "error", "body"})
      BY <1>1, OneMore
    <3> QED
      BY <1>1, <2>1, <3>1
  <2> QED
    BY <1>1, <1>3, <2>1, <2>2 DEF Receiving
<1>13. CASE WriteAckFails
  <2>1. up' = up /\ down' = down /\ worker' = "ended"
    BY <1>13 DEF WriteAckFails
  <2> QED
    BY <1>1, <1>3, <2>1 DEF Receiving
<1> QED
  BY <1>4, <1>5, <1>6, <1>7, <1>8, <1>9, <1>10, <1>11, <1>12, <1>13 DEF Receives

\* The CLI takes what was acknowledged.
LEMMA WireAwaits == ASSUME Wire, Awaits PROVE Wire'
<1>1. UNCHANGED <<sender, current, up, conn, worker, incoming>>
  BY AwaitsKeep DEF senderVars, workerVars
<1>2. down' = down \/ (down # <<>> /\ down' = Tail(down))
  BY DEF Awaits, AckTag, AckBody, AckCut, SentFirst, AckedFirst
<1>3. down' \in Seq({"ok", "error", "body"})
  <2>1. down \in Seq({"ok", "error", "body"})
    BY DEF Wire
  <2> QED
    BY <1>2, <2>1, FirstAndRest
<1> QED
  BY <1>1, <1>3, WireSame

\* What arrives of a lost connection is what was written first.
LEMMA WireLose == ASSUME Wire, Lose PROVE Wire'
<1>1. /\ conn' = "lost" /\ UNCHANGED <<worker, incoming>>
      /\ \E n \in 0 .. Len(up) : up' = SubSeq(up, 1, n)
      /\ \E n \in 0 .. Len(down) : down' = SubSeq(down, 1, n)
  BY DEF Lose, workerVars
<1>2. PICK n \in 0 .. Len(up) : up' = SubSeq(up, 1, n)
  BY <1>1
<1>3. PICK m \in 0 .. Len(down) : down' = SubSeq(down, 1, m)
  BY <1>1
<1>4. up \in Seq(Frames) /\ down \in Seq({"ok", "error", "body"})
  BY DEF Wire
<1>5. up' \in Seq(Frames) /\ down' \in Seq({"ok", "error", "body"})
  BY <1>2, <1>3, <1>4, Prefix
<1>6. Receiving => Linked(WorkerAt, SubSeq(up, 1, n))
  BY <1>4, LinkedPrefix DEF Wire
<1>7. Receiving' => Linked(WorkerAt, up)'
  BY <1>1, <1>2, <1>6 DEF Receiving, WorkerAt
<1> QED
  BY <1>1, <1>5, <1>7 DEF Wire

-----------------------------------------------------------------------------
\* Types

\* The levels stay levels.
LEMMA Levels ==
    ASSUME TypeOK, stack # <<>>
    PROVE  /\ Top \in SUBSET Entries /\ Below \in Seq(SUBSET Entries)
           /\ \A p : Append(Below, Top \ {p}) \in Seq(SUBSET Entries)
           /\ \A p : Append(Append(Below, Top \ {p}), Children(p)) \in Seq(SUBSET Entries)
<1>1. stack \in Seq(SUBSET Entries)
  BY DEF TypeOK, Entries
<1>2. Len(stack) \in Nat /\ Len(stack) > 0 /\ \A i \in 1 .. Len(stack) : stack[i] \in SUBSET Entries
  BY <1>1, Elements
<1>3. Len(stack) - 1 \in 0 .. Len(stack) /\ Len(stack) \in 1 .. Len(stack)
  BY <1>2
<1>4. Top \in SUBSET Entries /\ Below \in Seq(SUBSET Entries)
  BY <1>1, <1>2, <1>3, Prefix DEF Top, Below
<1>5. ASSUME NEW p PROVE Append(Below, Top \ {p}) \in Seq(SUBSET Entries)
  <2>1. Top \ {p} \in SUBSET Entries
    BY <1>4
  <2> QED
    BY <1>4, <2>1, OneMore
<1>6. ASSUME NEW p PROVE Append(Append(Below, Top \ {p}), Children(p)) \in Seq(SUBSET Entries)
  <2>1. Children(p) \in SUBSET Entries
    BY DEF Children, Entries
  <2> QED
    BY <1>5, <2>1, OneMore
<1> QED
  BY <1>4, <1>5, <1>6

\* Totals that count one more.
LEMMA Counted ==
    ASSUME NEW t \in [files: Nat, dirs: Nat, bytes: Nat], NEW n \in Nat
    PROVE  LET u == [t EXCEPT !.dirs = @ + 1]  v == [t EXCEPT !.files = @ + 1, !.bytes = @ + n] IN
           /\ u \in [files: Nat, dirs: Nat, bytes: Nat] /\ v \in [files: Nat, dirs: Nat, bytes: Nat]
           /\ u.files = t.files /\ v.files = t.files + 1
<1>1. t.files \in Nat /\ t.dirs \in Nat /\ t.bytes \in Nat
  OBVIOUS
<1>2. [t EXCEPT !.dirs = @ + 1] = [files |-> t.files, dirs |-> t.dirs + 1, bytes |-> t.bytes]
  OBVIOUS
<1>3. PICK m \in Nat, b \in Nat : m = t.files + 1 /\ b = t.bytes + n
  BY <1>1
<1>4. /\ [t EXCEPT !.files = m, !.bytes = b] \in [files: Nat, dirs: Nat, bytes: Nat]
      /\ [t EXCEPT !.files = m, !.bytes = b].files = m
  OBVIOUS
<1>5. [files |-> t.files, dirs |-> t.dirs + 1, bytes |-> t.bytes] \in [files: Nat, dirs: Nat, bytes: Nat]
  BY <1>1
<1>6. [t EXCEPT !.files = @ + 1, !.bytes = @ + n] = [t EXCEPT !.files = m, !.bytes = b]
  BY <1>3, Zenon
<1> QED
  BY <1>2, <1>3, <1>4, <1>5, <1>6

\* A unit behind a file.
LEMMA Longer ==
    ASSUME NEW data, NEW unit
    PROVE  [File(data) EXCEPT !.data = Append(@, unit)] = File(Append(data, unit))
BY DEF File

\* The sender's state.
LEMMA TypeSends ==
    ASSUME DirectoryAssumption, TypeOK, TaskFiles, Sends
    PROVE  TypeOK'
<1>1. UNCHANGED <<conn, worker, incoming, totals, dest, cli, ack, outcome>>
  BY SendsKeep DEF workerVars, cliVars
<1>2. fin' \subseteq {"cli", "worker"}
  BY DEF Sends, SendStart, LeaveDirectory, NextEntry, SendUnit, FinishFile, SendTotals, SendFails,
         SendShutdown, TypeOK
<1>3. ASSUME sender' \in {"start", "walk", "file", "ended", "failed", "done", "error"},
             stack' \in Seq(SUBSET Entries), current' \in [path: Files \cup {Root}, left: Nat],
             pack' \in Nat, sent' \in [files: Nat, dirs: Nat, bytes: Nat]
      PROVE  TypeOK'
  BY <1>1, <1>2, <1>3 DEF TypeOK, Entries
<1>4. /\ stack \in Seq(SUBSET Entries) /\ current \in [path: Files \cup {Root}, left: Nat]
      /\ pack \in Nat /\ sent \in [files: Nat, dirs: Nat, bytes: Nat]
      /\ sender \in {"start", "walk", "file", "ended", "failed", "done", "error"}
  BY DEF TypeOK, Entries
<1>5. CASE SendStart
  <2>1. /\ sender' = "walk" /\ stack' = <<Children(Root)>> /\ current' = current /\ pack' = pack
        /\ sent' = sent
    BY <1>5 DEF SendStart
  <2>2. Children(Root) \in SUBSET Entries
    BY DEF Children, Entries
  <2>3. stack' \in Seq(SUBSET Entries)
    BY <2>1, <2>2
  <2> QED
    BY <1>3, <1>4, <2>1, <2>3
<1>6. CASE LeaveDirectory
  <2>1. /\ stack # <<>> /\ stack' = Below /\ sender' = sender /\ current' = current /\ pack' = pack
        /\ sent' = sent
    BY <1>6 DEF LeaveDirectory
  <2> QED
    BY <1>3, <1>4, <2>1, Levels
<1>7. CASE NextEntry
  <2>1. PICK p \in Top : SkipLink(p) \/ EnterDirectory(p) \/ StartFile(p)
    BY <1>7 DEF NextEntry
  <2>2. stack # <<>>
    BY <1>7 DEF NextEntry
  <2>3. CASE SkipLink(p)
    <3>1. stack' = Append(Below, Top \ {p}) /\ UNCHANGED <<sender, current, pack, sent>>
      BY <2>3 DEF SkipLink
    <3> QED
      BY <1>3, <1>4, <2>2, <3>1, Levels
  <2>4. CASE EnterDirectory(p)
    <3>1. /\ stack' = Append(Append(Below, Top \ {p}), Children(p)) /\ UNCHANGED <<sender, current, pack>>
          /\ sent' = [sent EXCEPT !.dirs = @ + 1]
      BY <2>4 DEF EnterDirectory
    <3>2. sent' \in [files: Nat, dirs: Nat, bytes: Nat]
      BY <1>4, <3>1, Counted
    <3> QED
      BY <1>3, <1>4, <2>2, <3>1, <3>2, Levels
  <2>5. CASE StartFile(p)
    <3>1. /\ p \in Files /\ pack' = PackBefore(p) /\ stack' = Append(Below, Top \ {p}) /\ sender' = "file"
          /\ current' = [path |-> p, left |-> Size[p]] /\ sent' = sent
      BY <2>5 DEF StartFile
    <3>2. pack' \in Nat /\ current' \in [path: Files \cup {Root}, left: Nat]
      BY <1>4, <3>1 DEF PackBefore, DirectoryAssumption
    <3> QED
      BY <1>3, <1>4, <2>2, <3>1, <3>2, Levels
  <2> QED
    BY <2>1, <2>3, <2>4, <2>5
<1>8. CASE SendUnit
  <2>1. /\ current.left > 0 /\ current' = [current EXCEPT !.left = @ - 1]
        /\ UNCHANGED <<sender, stack, pack, sent>>
    BY <1>8 DEF SendUnit
  <2>2. current' \in [path: Files \cup {Root}, left: Nat]
    BY <1>4, <2>1
  <2> QED
    BY <1>3, <1>4, <2>1, <2>2
<1>9. CASE FinishFile
  <2>1. /\ sender = "file" /\ sender' = "walk" /\ current' = None /\ stack' = stack
        /\ sent' = [sent EXCEPT !.files = @ + 1, !.bytes = @ + Size[current.path]]
        /\ pack' = pack + Size[current.path]
    BY <1>9 DEF FinishFile
  <2>2. Size[current.path] \in Nat
    BY <2>1 DEF TaskFiles, DirectoryAssumption
  <2>3. /\ sent' \in [files: Nat, dirs: Nat, bytes: Nat] /\ pack' \in Nat
        /\ current' \in [path: Files \cup {Root}, left: Nat]
    <3>1. sent' \in [files: Nat, dirs: Nat, bytes: Nat]
      BY <1>4, <2>1, <2>2, Counted
    <3>2. pack' \in Nat /\ current' \in [path: Files \cup {Root}, left: Nat]
      BY <1>4, <2>1, <2>2 DEF None
    <3> QED
      BY <3>1, <3>2
  <2> QED
    BY <1>3, <1>4, <2>1, <2>3
<1>10. CASE SendTotals \/ SendFails \/ SendShutdown
  <2>1. sender' \in {"ended", "failed", "done", "error"} /\ UNCHANGED <<stack, current, pack, sent>>
    BY <1>10 DEF SendTotals, SendFails, SendShutdown
  <2> QED
    BY <1>3, <1>4, <2>1
<1> QED
  BY <1>5, <1>6, <1>7, <1>8, <1>9, <1>10 DEF Sends

\* The destination stays a tree of entries.
Entry(e) == e.kind \in {"absent", "dir", "link", "file"}

\* The worker's state.
LEMMA TypeReceives ==
    ASSUME DirectoryAssumption, TypeOK, Wire, TaskFiles, Receives
    PROVE  TypeOK'
<1>1. UNCHANGED <<sender, stack, current, pack, sent, conn, cli, ack, outcome>>
  BY ReceivesKeep DEF senderVars, cliVars
<1>2. fin' \subseteq {"cli", "worker"}
  BY DEF Receives, RecvStart, RecvPack, RecvDirectory, RecvFile, RecvUnit, RecvLast, RecvEnd,
         RecvCut, WriteAck, WriteAckFails, TypeOK
<1>3. ASSUME worker' \in {"start", "frames", "data", "ackOk", "ackError", "bodyOk", "bodyError",
                          "shutdown", "ended"},
             incoming' \in [path: Files \cup {Root}, left: Nat],
             totals' \in [files: Nat, dirs: Nat, bytes: Nat],
             DOMAIN dest' = Names, \A q \in Names : Entry(dest'[q])
      PROVE  TypeOK'
  BY <1>1, <1>2, <1>3 DEF TypeOK, Entry
<1>4. /\ worker \in {"start", "frames", "data", "ackOk", "ackError", "bodyOk", "bodyError", "shutdown", "ended"}
      /\ incoming \in [path: Files \cup {Root}, left: Nat] /\ totals \in [files: Nat, dirs: Nat, bytes: Nat]
      /\ DOMAIN dest = Names /\ \A q \in Names : Entry(dest[q])
  BY DEF TypeOK, Entry
<1>5. ASSUME UNCHANGED <<incoming, totals, dest>>,
             worker' \in {"frames", "ackOk", "ackError", "bodyOk", "bodyError", "shutdown", "ended"}
      PROVE  TypeOK'
  BY <1>3, <1>4, <1>5
<1>6. Entry(Directory) /\ Entry(Absent) /\ \A data : Entry(File(data))
  BY DEF Entry, Directory, Absent, File
<1>7. CASE RecvDirectory
  <2>1. PICK p : p = Head(up).path
    OBVIOUS
  <2>2. CASE Reject
    BY <1>5, <2>2 DEF Reject
  <2>3. CASE /\ dest' = [dest EXCEPT ![p] = Directory] /\ totals' = [totals EXCEPT !.dirs = @ + 1]
             /\ UNCHANGED <<worker, incoming>>
    <3>1. DOMAIN dest' = Names /\ \A q \in Names : Entry(dest'[q])
      BY <1>4, <1>6, <2>3
    <3>2. totals' \in [files: Nat, dirs: Nat, bytes: Nat]
      BY <1>4, <2>3
    <3> QED
      BY <1>3, <1>4, <2>3, <3>1, <3>2
  <2> QED
    BY <1>7, <2>1, <2>2, <2>3 DEF RecvDirectory, DiskError
<1>8. CASE RecvFile
  <2>1. PICK p : p = Head(up).path
    OBVIOUS
  <2>2. CASE Reject
    BY <1>5, <2>2 DEF Reject
  <2>3. CASE /\ Create(p) /\ incoming' = [path |-> p, left |-> Head(up).numbers[1]]
             /\ worker' = "data" /\ UNCHANGED totals
    <3>1. worker = "frames" /\ Took("file")
      BY <1>8 DEF RecvFile
    <3>2. Head(up).type = "file" /\ Follows(WorkerAt, Head(up))
      BY <3>1, TookFirst DEF Receiving
    <3>3. p \in Files /\ Head(up).numbers = <<Size[p]>>
      BY <2>1, <3>2 DEF Follows, Plain
    <3>4. Size[p] \in Nat /\ Head(up).numbers[1] = Size[p]
      BY <3>3 DEF DirectoryAssumption
    <3>5. incoming' \in [path: Files \cup {Root}, left: Nat]
      BY <2>3, <3>3, <3>4
    <3>6. dest' = [dest EXCEPT ![Staging(p)] = File(<<>>)]
      BY <2>3 DEF Create
    <3>7. DOMAIN dest' = Names /\ \A q \in Names : Entry(dest'[q])
      BY <1>4, <1>6, <3>6
    <3> QED
      BY <1>3, <1>4, <2>3, <3>5, <3>7
  <2> QED
    BY <1>8, <2>1, <2>2, <2>3, Zenon DEF RecvFile, DiskError
<1>9. CASE RecvUnit
  <2>1. PICK s, unit : s = Staging(incoming.path) /\ unit = <<Head(up).path, Head(up).numbers[1]>>
    OBVIOUS
  <2>2. CASE Reject
    BY <1>5, <2>2 DEF Reject
  <2>3. CASE /\ dest' = [dest EXCEPT ![s].data = Append(@, unit)]
             /\ incoming' = [incoming EXCEPT !.left = @ - 1] /\ UNCHANGED <<worker, totals>>
    <3>1. worker = "data" /\ incoming.left > 0
      BY <1>9 DEF RecvUnit
    <3>2. incoming' \in [path: Files \cup {Root}, left: Nat]
      BY <1>4, <2>3, <3>1
    <3>3. PICK data : dest[s] = File(data)
      BY <2>1, <3>1 DEF TaskFiles
    <3>4. PICK e : e = [dest[s] EXCEPT !.data = Append(@, unit)]
      OBVIOUS
    <3>5. dest' = [dest EXCEPT ![s] = e] /\ e = File(Append(data, unit))
      BY <2>3, <3>3, <3>4, Longer
    <3>6. DOMAIN dest' = Names /\ \A q \in Names : Entry(dest'[q])
      BY <1>4, <1>6, <3>5
    <3> QED
      BY <1>3, <1>4, <2>3, <3>2, <3>6
  <2> QED
    BY <1>9, <2>1, <2>2, <2>3, Zenon DEF RecvUnit, DiskError
<1>10. CASE RecvLast
  <2>1. PICK p : p = incoming.path
    OBVIOUS
  <2>2. worker = "data"
    BY <1>10 DEF RecvLast
  <2>3. p \in Files /\ Size[p] \in Nat /\ \E data : dest[Staging(p)] = File(data)
    BY <2>1, <2>2 DEF TaskFiles, DirectoryAssumption
  <2>4. CASE Reject
    BY <1>5, <2>4 DEF Reject
  <2>5. CASE /\ dest' = [dest EXCEPT ![Staging(p)] = Absent] /\ worker' = "ackError"
             /\ UNCHANGED <<incoming, totals>>
    <3>1. DOMAIN dest' = Names /\ \A q \in Names : Entry(dest'[q])
      BY <1>4, <1>6, <2>5
    <3> QED
      BY <1>3, <1>4, <2>5, <3>1
  <2>6. CASE Commit(p)
    <3>1. /\ dest' = Renamed(p) /\ incoming' = None /\ worker' = "frames"
          /\ totals' = [totals EXCEPT !.files = @ + 1, !.bytes = @ + Size[p]]
      BY <2>6 DEF Commit
    <3>2. totals' \in [files: Nat, dirs: Nat, bytes: Nat]
      BY <1>4, <2>3, <3>1, Counted
    <3>3. incoming' \in [path: Files \cup {Root}, left: Nat]
      BY <3>1 DEF None
    <3>4. DOMAIN dest' = Names /\ \A q \in Names : Entry(dest'[q])
      <4>1. CASE Staging(p) = p
        BY <1>4, <3>1, <4>1 DEF Renamed
      <4>2. CASE Staging(p) # p
        <5>1. dest' = [dest EXCEPT ![p] = dest[Staging(p)], ![Staging(p)] = Absent]
          BY <3>1, <4>2 DEF Renamed
        <5>2. Entry(dest[Staging(p)])
          BY <1>6, <2>3
        <5> QED
          BY <1>4, <1>6, <5>1, <5>2
      <4> QED
        BY <4>1, <4>2
    <3> QED
      BY <1>3, <3>1, <3>2, <3>3, <3>4
  <2> QED
    BY <1>10, <2>1, <2>4, <2>5, <2>6, Zenon DEF RecvLast, DiskError
<1>11. CASE RecvStart \/ RecvPack \/ RecvEnd \/ RecvCut \/ WriteAck \/ WriteAckFails
  <2>1. /\ worker' \in {"frames", "ackOk", "ackError", "bodyOk", "bodyError", "shutdown", "ended"}
        /\ UNCHANGED <<incoming, totals, dest>>
    BY <1>11 DEF RecvStart, RecvPack, RecvEnd, RecvCut, WriteAck, WriteAckFails, DiskError, Reject, workerVars
  <2> QED
    BY <1>5, <2>1
<1> QED
  BY <1>7, <1>8, <1>9, <1>10, <1>11 DEF Receives

\* The CLI's state, and the connection's.
LEMMA TypeOthers ==
    ASSUME TypeOK, Awaits \/ Lose
    PROVE  TypeOK'
<1>1. UNCHANGED <<sender, stack, current, pack, sent, worker, incoming, totals, dest>>
  BY AwaitsKeep DEF senderVars, workerVars, Lose
<1>2. fin' = fin /\ (conn' = conn \/ conn' = "lost")
  BY DEF Awaits, AckTag, AckBody, AckCut, SentFirst, AckedFirst, Lose
<1>3. ASSUME cli' \in {"racing", "awaiting", "acked", "completed", "failed"}, ack' \in {"none", "ok", "error"},
             outcome' \in [reason: {"none", "ok", "timeout", "rejected", "invalid", "eof", "sender"},
                           files: Nat, bytes: Nat]
      PROVE  TypeOK'
  BY <1>1, <1>2, <1>3 DEF TypeOK
<1>4. /\ cli \in {"racing", "awaiting", "acked", "completed", "failed"} /\ ack \in {"none", "ok", "error"}
      /\ outcome \in [reason: {"none", "ok", "timeout", "rejected", "invalid", "eof", "sender"},
                      files: Nat, bytes: Nat]
      /\ totals \in [files: Nat, dirs: Nat, bytes: Nat]
  BY DEF TypeOK
<1>5. CASE Lose
  BY <1>3, <1>4, <1>5 DEF Lose, cliVars
<1>6. CASE AckTag
  BY <1>3, <1>4, <1>6 DEF AckTag, Report
<1>7. CASE AckBody
  BY <1>3, <1>4, <1>7 DEF AckBody, Report
<1>8. CASE AckCut
  BY <1>3, <1>4, <1>8 DEF AckCut, Report
<1>9. CASE SentFirst
  BY <1>3, <1>4, <1>9 DEF SentFirst, Report, AwaitAck
<1>10. CASE AckedFirst
  BY <1>3, <1>4, <1>10 DEF AckedFirst, Report
<1> QED
  BY <1>5, <1>6, <1>7, <1>8, <1>9, <1>10 DEF Awaits

-----------------------------------------------------------------------------
\* What was received of a file

\* A unit more.
LEMMA ContentGrows ==
    ASSUME NEW p, NEW n \in Nat
    PROVE  Content(p, 0) = <<>> /\ Append(Content(p, n), <<p, n + 1>>) = Content(p, n + 1)
<1> DEFINE c == Content(p, n)  d == Append(c, <<p, n + 1>>)
<1>1. c \in Seq({p} \X Nat) /\ Len(c) = n /\ \A i \in 1 .. n : c[i] = <<p, i>>
  BY DEF Content
<1>2. <<p, n + 1>> \in {p} \X Nat
  OBVIOUS
<1> HIDE DEF c
<1>3. /\ d \in Seq({p} \X Nat) /\ Len(d) = n + 1 /\ \A i \in 1 .. n : d[i] = <<p, i>>
      /\ d[n + 1] = <<p, n + 1>>
  BY <1>1, <1>2, OneMore
<1> HIDE DEF d
<1>4. d = [i \in 1 .. n + 1 |-> d[i]]
  BY <1>3
<1>5. \A i \in 1 .. n + 1 : d[i] = <<p, i>>
  BY <1>3
<1>6. d = Content(p, n + 1)
  BY <1>4, <1>5 DEF Content
<1>7. Content(p, 0) = <<>>
  BY DEF Content
<1> QED
  BY <1>6, <1>7 DEF c, d

\* What is left of a file behind unit n.
LEMMA UnitsLeft ==
    ASSUME NEW size \in Nat, NEW left \in Nat, left <= size, NEW n \in 1 .. size, size - left = n - 1
    PROVE  n - 1 \in Nat /\ size - (left - 1) = n /\ left - 1 <= size /\ (n - 1) + 1 = n
OBVIOUS

\* The sender's file.
LEMMA TaskSends == ASSUME DirectoryAssumption, TypeOK, TaskFiles, Sends PROVE TaskFiles'
<1>1. UNCHANGED <<worker, incoming, dest>>
  BY SendsKeep DEF workerVars
<1>2. sender' = "file" => current'.path \in Files /\ current'.left <= Size[current'.path]
  <2>1. CASE sender' = "file" /\ UNCHANGED <<sender, current>>
    BY <2>1 DEF TaskFiles
  <2>2. CASE SendUnit
    <3>1. sender = "file" /\ current.left > 0 /\ current' = [current EXCEPT !.left = @ - 1]
      BY <2>2 DEF SendUnit
    <3>2. current'.path = current.path /\ current'.left = current.left - 1 /\ current.left \in Nat
      BY <3>1 DEF TypeOK
    <3>3. Size[current.path] \in Nat /\ current.path \in Files /\ current.left <= Size[current.path]
      BY <3>1 DEF TaskFiles, DirectoryAssumption
    <3> QED
      BY <3>2, <3>3
  <2>3. CASE NextEntry
    <3>1. PICK p \in Top : SkipLink(p) \/ EnterDirectory(p) \/ StartFile(p)
      BY <2>3 DEF NextEntry
    <3>2. CASE StartFile(p)
      <4>1. p \in Files /\ current' = [path |-> p, left |-> Size[p]]
        BY <3>2 DEF StartFile
      <4> QED
        BY <4>1 DEF DirectoryAssumption
    <3>3. CASE SkipLink(p) \/ EnterDirectory(p)
      BY <2>1, <3>3 DEF SkipLink, EnterDirectory
    <3> QED
      BY <3>1, <3>2, <3>3
  <2>4. sender' = "file" => SendUnit \/ NextEntry \/ UNCHANGED <<sender, current>>
    BY DEF Sends, SendStart, LeaveDirectory, FinishFile, SendTotals, SendFails, SendShutdown
  <2> QED
    BY <2>1, <2>2, <2>3, <2>4
<1>3. Size' = Size
  OBVIOUS
<1> QED
  BY <1>1, <1>2 DEF TaskFiles, Staging

\* The worker's file.
LEMMA TaskReceives ==
    ASSUME DirectoryAssumption, TypeOK, Wire, TaskFiles, Receives
    PROVE  TaskFiles'
<1>1. UNCHANGED <<sender, current>>
  BY ReceivesKeep DEF senderVars
<1>2. ASSUME worker' = "data" => /\ incoming'.path \in Files /\ incoming'.left <= Size[incoming'.path]
                                 /\ dest'[Staging(incoming'.path)]
                                       = File(Content(incoming'.path, Size[incoming'.path] - incoming'.left))
      PROVE  TaskFiles'
  BY <1>1, <1>2 DEF TaskFiles, Staging
<1>3. CASE RecvFile /\ worker' = "data"
  <2>1. PICK p : p = Head(up).path
    OBVIOUS
  <2>2. /\ worker = "frames" /\ Took("file") /\ incoming' = [path |-> p, left |-> Head(up).numbers[1]]
        /\ dest' = [dest EXCEPT ![Staging(p)] = File(<<>>)]
    BY <1>3, <2>1 DEF RecvFile, Create, DiskError, Reject
  <2>3. Head(up).type = "file" /\ Follows(WorkerAt, Head(up))
    BY <2>2, TookFirst DEF Receiving
  <2>4. p \in Files /\ Head(up).numbers = <<Size[p]>>
    BY <2>1, <2>3 DEF Follows, Plain
  <2>5. Size[p] \in Nat /\ Head(up).numbers[1] = Size[p] /\ Staging(p) \in Names
    BY <2>4 DEF DirectoryAssumption, Staging
  <2>6. incoming'.path = p /\ incoming'.left = Size[p] /\ Size[p] - Size[p] = 0 /\ Size[p] <= Size[p]
    BY <2>2, <2>5
  <2>7. dest'[Staging(p)] = File(Content(p, 0))
    BY <2>2, <2>5, ContentGrows DEF TypeOK
  <2> QED
    BY <1>2, <2>4, <2>6, <2>7
<1>4. CASE RecvUnit /\ worker' = "data"
  <2>1. PICK p, s, unit, e : /\ p = incoming.path /\ s = Staging(p) /\ unit = <<Head(up).path, Head(up).numbers[1]>>
                             /\ e = [dest[s] EXCEPT !.data = Append(@, unit)]
    OBVIOUS
  <2>2. /\ worker = "data" /\ Took("data") /\ incoming.left > 0
        /\ incoming' = [incoming EXCEPT !.left = @ - 1]
        /\ dest' = [dest EXCEPT ![s] = e]
    BY <1>4, <2>1 DEF RecvUnit, DiskError, Reject
  <2>3. Head(up).type = "data" /\ Follows(WorkerAt, Head(up))
    BY <2>2, TookFirst DEF Receiving
  <2>4. PICK n \in 1 .. Size[Head(up).path] : WorkerAt = At(Head(up).path, n - 1) /\ Head(up).numbers = <<n>>
    BY <2>3 DEF Follows, Plain
  <2>5. Head(up).path = p /\ Size[p] - incoming.left = n - 1
    BY <2>1, <2>2, <2>4 DEF WorkerAt, At
  <2>6. p \in Files /\ Size[p] \in Nat /\ s \in Names /\ incoming.left \in Nat
    BY <2>1, <2>2 DEF TaskFiles, TypeOK, DirectoryAssumption, Staging
  <2>7. incoming'.path = p /\ incoming'.left = incoming.left - 1
    BY <2>1, <2>2 DEF TypeOK
  <2>8. n - 1 \in Nat /\ Size[p] - incoming'.left = n /\ incoming'.left <= Size[p] /\ (n - 1) + 1 = n
    <3>1. n \in 1 .. Size[p] /\ Size[p] - incoming.left = n - 1 /\ incoming.left <= Size[p]
      BY <2>1, <2>2, <2>4, <2>5 DEF TaskFiles
    <3>2. PICK size, left : size = Size[p] /\ left = incoming.left
      OBVIOUS
    <3>3. size \in Nat /\ left \in Nat /\ left <= size /\ n \in 1 .. size /\ size - left = n - 1
      BY <2>6, <3>1, <3>2
    <3>4. n - 1 \in Nat /\ size - (left - 1) = n /\ left - 1 <= size /\ (n - 1) + 1 = n
      BY <3>3, UnitsLeft
    <3> QED
      BY <2>7, <3>2, <3>4, Zenon
  <2>9. dest[s] = File(Content(p, n - 1))
    BY <2>1, <2>2, <2>5 DEF TaskFiles
  <2>10. unit = <<p, n>>
    BY <2>1, <2>4, <2>5
  <2>11. e = File(Content(p, n))
    <3>1. e = File(Append(Content(p, n - 1), <<p, n>>))
      BY <2>1, <2>9, <2>10, Longer
    <3>2. Append(Content(p, n - 1), <<p, n>>) = Content(p, n)
      BY <2>8, ContentGrows
    <3> QED
      BY <3>1, <3>2
  <2>12. dest'[s] = File(Content(p, n))
    BY <2>2, <2>6, <2>11 DEF TypeOK
  <2> QED
    BY <1>2, <2>1, <2>6, <2>7, <2>8, <2>12
<1>5. RecvFile \/ RecvUnit \/ worker' # "data"
  BY DEF Receives, RecvStart, RecvPack, RecvDirectory, RecvLast, Commit, RecvEnd, RecvCut, WriteAck,
         WriteAckFails, DiskError, Reject, workerVars
<1> QED
  BY <1>2, <1>3, <1>4, <1>5

-----------------------------------------------------------------------------
\* The end of the stream

\* Behind the end the sender only shuts its stream down.
LEMMA AfterEnd ==
    ASSUME Sends, sender \in {"ended", "done"}
    PROVE  sender' = "done" /\ UNCHANGED <<up, sent, stack, current>>
BY DEF Sends, SendStart, LeaveDirectory, NextEntry, SendUnit, FinishFile, SendTotals, SendFails,
       SendShutdown

\* The end is the last that is written.
LEMMA EndSends ==
    ASSUME DirectoryAssumption, TypeOK, Wire, TaskFiles, EndSent, Sends
    PROVE  EndSent'
<1>1. CASE sender \in {"ended", "done"}
  <2>1. sender' = "done" /\ up' = up /\ sent' = sent
    BY <1>1, AfterEnd
  <2> QED
    BY <2>1 DEF EndSent
<1>2. CASE sender \notin {"ended", "done"}
  <2>1. PICK fs : Sent(fs)
    BY SendsWrite
  <2>2. /\ fs \in Seq(Frames) /\ up' = IF conn = "up" THEN up \o fs ELSE up
        /\ \A i \in 1 .. Len(fs) : fs[i].type = "end" =>
              /\ i = Len(fs) /\ sender' = "ended" /\ sent' = sent
              /\ fs[i].numbers = <<sent.files, sent.dirs, sent.bytes>>
    BY <2>1, Zenon DEF Sent, Put
  <2>3. \A i \in 1 .. Len(up) : up[i].type # "end"
    BY <1>2 DEF EndSent
  <2>4. CASE up' = up
    BY <2>3, <2>4 DEF EndSent
  <2>5. CASE up' = up \o fs
    <3>1. /\ Len(up \o fs) = Len(up) + Len(fs) /\ \A i \in 1 .. Len(up) : (up \o fs)[i] = up[i]
          /\ \A i \in 1 .. Len(fs) : (up \o fs)[Len(up) + i] = fs[i]
      BY <2>2, Joined DEF Wire
    <3>2. Len(up) \in Nat /\ Len(fs) \in Nat
      BY <2>2, Elements DEF Wire
    <3>3. ASSUME NEW i \in 1 .. Len(up'), up'[i].type = "end"
          PROVE  /\ i = Len(up') /\ sender' = "ended" /\ sent' = sent
                 /\ up'[i].numbers = <<sent.files, sent.dirs, sent.bytes>>
      <4>1. i \notin 1 .. Len(up)
        BY <2>3, <2>5, <3>1, <3>3
      <4>2. i - Len(up) \in 1 .. Len(fs) /\ Len(up) + (i - Len(up)) = i
        BY <2>5, <3>1, <3>2, <4>1
      <4>3. PICK j \in 1 .. Len(fs) : i = Len(up) + j
        BY <4>2
      <4>4. up'[i] = fs[j]
        BY <2>5, <3>1, <4>3
      <4>5. /\ j = Len(fs) /\ sender' = "ended" /\ sent' = sent
            /\ fs[j].numbers = <<sent.files, sent.dirs, sent.bytes>>
        BY <2>2, <3>3, <4>4
      <4>6. i = Len(up')
        BY <2>5, <3>1, <4>3, <4>5
      <4> QED
        BY <4>4, <4>5, <4>6
    <3> QED
      BY <3>3 DEF EndSent
  <2> QED
    BY <2>2, <2>4, <2>5
<1> QED
  BY <1>1, <1>2

\* It comes closer to the worker.
LEMMA EndReceives ==
    ASSUME Wire, EndSent, Receives
    PROVE  EndSent'
<1>1. UNCHANGED <<sender, sent>>
  BY ReceivesKeep DEF senderVars
<1>2. up' = up \/ (up # <<>> /\ up' = Tail(up))
  BY DEF Receives, RecvStart, RecvPack, RecvDirectory, RecvFile, RecvUnit, RecvLast, RecvEnd,
         RecvCut, WriteAck, WriteAckFails, Took
<1>3. CASE up' = up
  BY <1>1, <1>3 DEF EndSent
<1>4. CASE up # <<>> /\ up' = Tail(up)
  <2>1. /\ Len(up') = Len(up) - 1 /\ Len(up) \in Nat
        /\ \A i \in 1 .. Len(up) - 1 : up'[i] = up[i + 1]
    BY <1>4, FirstAndRest, Elements DEF Wire
  <2>2. ASSUME NEW i \in 1 .. Len(up'), up'[i].type = "end"
        PROVE  /\ i = Len(up') /\ sender \in {"ended", "done"}
               /\ up'[i].numbers = <<sent.files, sent.dirs, sent.bytes>>
    <3>1. i + 1 \in 1 .. Len(up) /\ up'[i] = up[i + 1]
      BY <2>1
    <3>2. /\ i + 1 = Len(up) /\ sender \in {"ended", "done"}
          /\ up[i + 1].numbers = <<sent.files, sent.dirs, sent.bytes>>
      BY <2>2, <3>1 DEF EndSent
    <3> QED
      BY <2>1, <3>1, <3>2
  <2> QED
    BY <1>1, <2>2 DEF EndSent
<1> QED
  BY <1>2, <1>3, <1>4

\* If it is there after a loss, nothing on its way was lost.
LEMMA EndLose ==
    ASSUME Wire, EndSent, Lose
    PROVE  EndSent' /\ (HasEnd' => up' = up)
<1>1. PICK n \in 0 .. Len(up) : up' = SubSeq(up, 1, n)
  BY DEF Lose
<1>2. UNCHANGED <<sender, sent>>
  BY DEF Lose, senderVars
<1>3. /\ Len(up') = n /\ Len(up) \in Nat /\ \A i \in 1 .. n : up'[i] = up[i]
      /\ n = Len(up) => up' = up
  BY <1>1, Prefix, Elements DEF Wire
<1>4. ASSUME NEW i \in 1 .. Len(up'), up'[i].type = "end"
      PROVE  up' = up
  <2>1. i \in 1 .. Len(up) /\ up[i].type = "end"
    BY <1>3, <1>4
  <2>2. i = Len(up)
    BY <2>1 DEF EndSent
  <2> QED
    BY <1>3, <2>2
<1>5. HasEnd' => up' = up
  BY <1>4 DEF HasEnd
<1>6. EndSent'
  <2>1. CASE up' = up
    BY <1>2, <2>1 DEF EndSent
  <2>2. CASE up' # up
    BY <1>4, <2>2 DEF EndSent
  <2> QED
    BY <2>1, <2>2
<1> QED
  BY <1>5, <1>6

-----------------------------------------------------------------------------
\* The walk

\* One entry more was seen.
LEMMA OneSeen ==
    ASSUME DirectoryAssumption, NEW seen \in SUBSET Entries, NEW p, p \notin seen
    PROVE  /\ Cardinality(seen \cap Files) \in Nat
           /\ p \in Files => Cardinality((seen \cup {p}) \cap Files) = Cardinality(seen \cap Files) + 1
           /\ p \notin Files => Cardinality((seen \cup {p}) \cap Files) = Cardinality(seen \cap Files)
<1>1. IsFiniteSet(seen \cap Files)
  <2>1. IsFiniteSet(Files) /\ seen \cap Files \subseteq Files
    BY DEF DirectoryAssumption
  <2> QED
    BY <2>1, FS_Subset
<1>2. Cardinality(seen \cap Files) \in Nat
  BY <1>1, FS_CardinalityType
<1>3. ASSUME p \in Files PROVE Cardinality((seen \cup {p}) \cap Files) = Cardinality(seen \cap Files) + 1
  <2>1. (seen \cup {p}) \cap Files = (seen \cap Files) \cup {p} /\ p \notin seen \cap Files
    BY <1>3
  <2> QED
    BY <1>1, <2>1, FS_AddElement
<1>4. ASSUME p \notin Files PROVE (seen \cup {p}) \cap Files = seen \cap Files
  BY <1>4
<1> QED
  BY <1>2, <1>3, <1>4

\* The next entry of the innermost directory, and what is left then.
LEMMA WalkOn ==
    ASSUME DirectoryAssumption, TypeOK, NEW seen \in SUBSET Entries, Walk(seen), sender = "walk",
           stack # <<>>, NEW p \in Top
    PROVE  LET rest == Append(Below, Top \ {p}) IN
           /\ p \in Entries /\ p \notin seen
           /\ Disjoint(rest) /\ \A q : In(q, rest) <=> In(q, stack) /\ q # p
           /\ Disjoint(Append(rest, Children(p)))
           /\ \A q : In(q, Append(rest, Children(p))) <=> (In(q, stack) /\ q # p) \/ q \in Children(p)
           /\ \A q \in Children(p) : q \in Entries /\ q \notin seen /\ q # p
           /\ \A q \in Entries : q \in Children(p) <=> Parent[q] = p
           /\ \A q \in Entries : Parent[q] \in Dirs \cup {Root} /\ p # Root
           /\ \A q \in Entries : Parent[q] \in seen \cup {Root} <=> (q \in seen \/ In(q, stack))
<1>1. stack \in Seq(SUBSET Entries) /\ Disjoint(stack)
  BY DEF TypeOK, Walk, Entries
<1>2. /\ Top \in SUBSET Entries /\ Below \in Seq(SUBSET Entries) /\ Disjoint(Below)
      /\ \A q : In(q, stack) <=> In(q, Below) \/ q \in Top
      /\ \A q : ~(In(q, Below) /\ q \in Top)
  BY <1>1, Popped DEF Top, Below
<1>3. p \in Entries /\ In(p, stack) /\ p \notin seen
  <2>1. p \in Entries /\ In(p, stack)
    BY <1>2
  <2> QED
    BY <2>1 DEF Walk
<1> DEFINE rest == Append(Below, Top \ {p})  more == Append(rest, Children(p))
<1>4. /\ rest \in Seq(SUBSET Entries) /\ Disjoint(rest)
      /\ \A q : In(q, rest) <=> In(q, Below) \/ q \in Top \ {p}
  <2>1. Top \ {p} \in SUBSET Entries /\ \A q \in Top \ {p} : ~In(q, Below)
    BY <1>2
  <2> QED
    BY <1>2, <2>1, Pushed
<1> HIDE DEF rest
<1>5. \A q : In(q, rest) <=> In(q, stack) /\ q # p
  BY <1>2, <1>4
<1>6. \A q \in Entries : Parent[q] \in seen \cup {Root} <=> (q \in seen \/ In(q, stack))
  BY DEF Walk, Walks
<1>7. p # Root /\ \A q \in Entries : Parent[q] \in Dirs \cup {Root}
  BY <1>3 DEF DirectoryAssumption, Entries
<1>8. \A q \in Entries : q \in Children(p) <=> Parent[q] = p
  BY DEF Children, Entries
<1>9. ASSUME NEW q \in Children(p) PROVE q \in Entries /\ q \notin seen /\ ~In(q, stack) /\ q # p
  <2>1. q \in Entries /\ Parent[q] = p
    BY DEF Children, Entries
  <2>2. Parent[q] \notin seen \cup {Root}
    BY <1>3, <1>7, <2>1
  <2> QED
    BY <1>3, <1>6, <2>1, <2>2
<1>10. Disjoint(more) /\ \A q : In(q, more) <=> In(q, rest) \/ q \in Children(p)
  <2>1. Children(p) \in SUBSET Entries /\ \A q \in Children(p) : ~In(q, rest)
    BY <1>5, <1>9
  <2> QED
    BY <1>4, <2>1, Pushed
<1> HIDE DEF more
<1>11. \A q : In(q, more) <=> (In(q, stack) /\ q # p) \/ q \in Children(p)
  BY <1>5, <1>10
<1> QED
  BY <1>3, <1>4, <1>5, <1>6, <1>7, <1>8, <1>9, <1>10, <1>11 DEF rest, more

\* What was written is on its way while the connection is up.
LEMMA PutIn ==
    ASSUME Wire, NEW fs \in Seq(Frames), Put(fs)
    PROVE  /\ \A type, p : InUp(type, p) => InUp(type, p)'
           /\ conn = "up" => \A j \in 1 .. Len(fs) : InUp(fs[j].type, fs[j].path)'
<1>1. /\ Len(up \o fs) = Len(up) + Len(fs) /\ \A i \in 1 .. Len(up) : (up \o fs)[i] = up[i]
      /\ \A i \in 1 .. Len(fs) : (up \o fs)[Len(up) + i] = fs[i]
      /\ Len(up) \in Nat /\ Len(fs) \in Nat
  BY Joined, Elements DEF Wire
<1>2. up' = IF conn = "up" THEN up \o fs ELSE up
  BY DEF Put
<1>3. CASE conn # "up"
  BY <1>2, <1>3 DEF InUp
<1>4. CASE conn = "up"
  <2>1. up' = up \o fs
    BY <1>2, <1>4
  <2>2. ASSUME NEW type, NEW p, InUp(type, p) PROVE InUp(type, p)'
    <3>1. PICK i \in 1 .. Len(up) : up[i].type = type /\ up[i].path = p
      BY <2>2 DEF InUp
    <3>2. i \in 1 .. Len(up') /\ up'[i] = up[i]
      BY <1>1, <2>1
    <3> QED
      BY <3>1, <3>2 DEF InUp
  <2>3. ASSUME NEW j \in 1 .. Len(fs) PROVE InUp(fs[j].type, fs[j].path)'
    <3>1. Len(up) + j \in 1 .. Len(up') /\ up'[Len(up) + j] = fs[j]
      BY <1>1, <2>1
    <3> QED
      BY <3>1 DEF InUp
  <2> QED
    BY <2>2, <2>3
<1> QED
  BY <1>3, <1>4

\* The walk goes on, and what it sees is written.
LEMMA WalkSends ==
    ASSUME DirectoryAssumption, TypeOK, Wire, TaskFiles, Sends, NEW seen \in SUBSET Entries, Walk(seen)
    PROVE  \E more \in SUBSET Entries :
              /\ Walk(more)' /\ seen \subseteq more
              /\ sender \in {"ended", "done"} => more = seen
              /\ conn = "up" => \A p \in more \ seen : /\ p \in Dirs => InUp("dir", p)'
                                                       /\ p \in Files => InUp("file", p)'
<1>1. /\ \A p \in Entries : In(p, stack) => p \notin seen
      /\ Disjoint(stack)
      /\ Walks => \A p \in Entries : Parent[p] \in seen \cup {Root} <=> (p \in seen \/ In(p, stack))
      /\ Walks => sent.files + (IF sender = "file" THEN 1 ELSE 0) = Cardinality(seen \cap Files)
      /\ sender = "start" => seen = {} /\ stack = <<>> /\ sent = Zero
      /\ sender = "file" => current.path \in seen
      /\ sender \in {"ended", "done"} => stack = <<>>
  BY DEF Walk
<1>2. sent.files \in Nat
  BY DEF TypeOK
<1>3. ASSUME NEW more \in SUBSET Entries,
             \A p \in Entries : In(p, stack') => p \notin more,
             Disjoint(stack'),
             Walks' => \A p \in Entries : Parent[p] \in more \cup {Root} <=> (p \in more \/ In(p, stack')),
             Walks' => sent'.files + (IF sender' = "file" THEN 1 ELSE 0) = Cardinality(more \cap Files),
             sender' # "start",
             sender' = "file" => current'.path \in more,
             sender' \in {"ended", "done"} => stack' = <<>>
      PROVE  Walk(more)'
  BY <1>3 DEF Walk
<1>4. CASE SendStart
  <2>1. sender = "start" /\ sender' = "walk" /\ stack' = <<Children(Root)>> /\ sent' = sent
    BY <1>4, Zenon DEF SendStart
  <2>2. Cardinality(seen \cap Files) = 0 /\ sent'.files = 0 /\ 0 + 0 = 0
    <3>1. seen \cap Files = {} /\ sent' = Zero
      BY <1>1, <2>1
    <3>2. Cardinality({}) = 0
      BY FS_EmptySet, Zenon
    <3>3. Zero.files = 0
      BY DEF Zero
    <3>4. Cardinality(seen \cap Files) = 0 /\ sent'.files = 0
      BY <3>1, <3>2, <3>3, Zenon
    <3> QED
      BY <3>4
  <2>3. Len(stack') = 1 /\ stack'[1] = Children(Root)
    BY <2>1
  <2>4. \A p : In(p, stack') <=> p \in Children(Root)
    BY <2>3 DEF In
  <2>5. Disjoint(stack')
    BY <2>3 DEF Disjoint
  <2>6. \A p \in Entries : Parent[p] \in seen \cup {Root} <=> (p \in seen \/ In(p, stack'))
    BY <1>1, <2>1, <2>4 DEF Children, Entries
  <2>7. Walk(seen)'
    <3>1. \A p \in Entries : In(p, stack') => p \notin seen
      BY <1>1, <2>1
    <3>2. /\ sent'.files + (IF sender' = "file" THEN 1 ELSE 0) = Cardinality(seen \cap Files)
          /\ sender' \notin {"start", "file", "ended", "done"}
      BY <2>1, <2>2
    <3> QED
      BY <1>3, <2>5, <2>6, <3>1, <3>2
  <2> QED
    BY <2>1, <2>7
<1>5. CASE LeaveDirectory
  <2>1. sender = "walk" /\ stack # <<>> /\ Top = {} /\ stack' = Below /\ UNCHANGED <<sender, current, sent>>
    BY <1>5 DEF LeaveDirectory
  <2>2. stack \in Seq(SUBSET Entries)
    BY DEF TypeOK, Entries
  <2>3. Disjoint(Below) /\ \A p : In(p, stack) <=> In(p, Below)
    BY <1>1, <2>1, <2>2, Popped DEF Top, Below
  <2>4. \A p : In(p, stack') <=> In(p, stack)
    BY <2>1, <2>3
  <2>5. /\ \A p \in Entries : Parent[p] \in seen \cup {Root} <=> (p \in seen \/ In(p, stack'))
        /\ sent'.files + (IF sender' = "file" THEN 1 ELSE 0) = Cardinality(seen \cap Files)
        /\ \A p \in Entries : In(p, stack') => p \notin seen
    BY <1>1, <2>1, <2>4 DEF Walks
  <2>6. Walk(seen)'
    BY <1>3, <2>1, <2>3, <2>5
  <2> QED
    BY <2>1, <2>6
<1>6. CASE NextEntry
  <2>1. PICK p \in Top : SkipLink(p) \/ EnterDirectory(p) \/ StartFile(p)
    BY <1>6 DEF NextEntry
  <2>2. sender = "walk" /\ stack # <<>>
    BY <1>6 DEF NextEntry
  <2> DEFINE rest == Append(Below, Top \ {p})  more == seen \cup {p}
  <2>3. /\ p \in Entries /\ p \notin seen
        /\ Disjoint(rest) /\ \A q : In(q, rest) <=> In(q, stack) /\ q # p
        /\ Disjoint(Append(rest, Children(p)))
        /\ \A q : In(q, Append(rest, Children(p))) <=> (In(q, stack) /\ q # p) \/ q \in Children(p)
        /\ \A q \in Children(p) : q \in Entries /\ q \notin seen /\ q # p
        /\ \A q \in Entries : q \in Children(p) <=> Parent[q] = p
        /\ \A q \in Entries : Parent[q] \in Dirs \cup {Root} /\ p # Root
        /\ \A q \in Entries : Parent[q] \in seen \cup {Root} <=> (q \in seen \/ In(q, stack))
    BY <2>2, WalkOn
  <2> HIDE DEF rest
  <2>4. /\ Cardinality(seen \cap Files) \in Nat
        /\ p \in Files => Cardinality(more \cap Files) = Cardinality(seen \cap Files) + 1
        /\ p \notin Files => Cardinality(more \cap Files) = Cardinality(seen \cap Files)
    BY <2>3, OneSeen
  <2>5. sent.files = Cardinality(seen \cap Files)
    BY <1>1, <1>2, <2>2 DEF Walks
  <2>6. more \in SUBSET Entries /\ seen \subseteq more /\ more \ seen = {p}
    BY <2>3
  <2>7. In(p, stack) /\ \A q \in Entries : In(q, stack) => q \notin seen
    <3>1. stack \in Seq(SUBSET Entries)
      BY DEF TypeOK, Entries
    <3> QED
      BY <1>1, <2>2, <3>1, Popped DEF Top
  <2>8. ASSUME p \notin Dirs
        PROVE  \A q \in Entries : Parent[q] \in more \cup {Root} <=> (q \in more \/ In(q, rest))
    BY <2>3, <2>7, <2>8
  <2>9. \A q \in Entries : In(q, rest) => q \notin more
    BY <2>3, <2>7
  <2>10. CASE SkipLink(p)
    <3>1. p \in Links /\ stack' = rest /\ UNCHANGED <<sender, current, sent>>
      BY <2>10 DEF SkipLink, rest
    <3>2. p \notin Dirs /\ p \notin Files
      BY <3>1 DEF DirectoryAssumption
    <3>3. Walk(more)'
      BY <1>3, <2>2, <2>3, <2>4, <2>5, <2>6, <2>8, <2>9, <3>1, <3>2
    <3> QED
      BY <2>2, <2>6, <3>2, <3>3
  <2>11. CASE EnterDirectory(p)
    <3> DEFINE f == Frame("dir", p, <<>>)
    <3>1. /\ p \in Dirs /\ Put(<<f>>) /\ stack' = Append(rest, Children(p))
          /\ sent' = [sent EXCEPT !.dirs = @ + 1] /\ UNCHANGED <<sender, current>>
      BY <2>11 DEF EnterDirectory, rest
    <3>2. p \notin Files
      BY <3>1 DEF DirectoryAssumption
    <3>3. sent'.files = sent.files
      BY <3>1, Counted DEF TypeOK
    <3>4. \A q \in Entries : Parent[q] \in more \cup {Root} <=> (q \in more \/ In(q, stack'))
      BY <2>3, <2>7, <3>1
    <3>5. \A q \in Entries : In(q, stack') => q \notin more
      BY <2>3, <2>7, <3>1
    <3>6. Walk(more)'
      <4>1. /\ sent'.files + (IF sender' = "file" THEN 1 ELSE 0) = Cardinality(more \cap Files)
            /\ sender' \notin {"start", "file", "ended", "done"}
        BY <2>2, <2>4, <2>5, <3>1, <3>2, <3>3
      <4>2. Disjoint(stack')
        BY <2>3, <3>1
      <4> HIDE DEF more, f
      <4> QED
        BY <1>3, <2>6, <3>4, <3>5, <4>1, <4>2
    <3>7. conn = "up" => InUp("dir", p)'
      <4>1. f \in Frames /\ f.type = "dir" /\ f.path = p
        BY <3>1, DirFrame
      <4> HIDE DEF f
      <4>2. PICK fs : fs = <<f>>
        OBVIOUS
      <4>3. fs \in Seq(Frames) /\ 1 \in 1 .. Len(fs) /\ fs[1] = f
        <5> HIDE DEF Frames
        <5> QED
          BY <4>1, <4>2
      <4>4. Put(fs)
        BY <3>1, <4>2
      <4>5. conn = "up" => InUp(fs[1].type, fs[1].path)'
        BY <4>3, <4>4, PutIn
      <4> QED
        BY <4>1, <4>3, <4>5
    <3> QED
      BY <2>2, <2>6, <3>2, <3>6, <3>7
  <2>12. CASE StartFile(p)
    <3> DEFINE h == Frame("file", p, <<Size[p]>>)
    <3>0. PICK fs : fs = IF NewPack(p) THEN <<Frame("packEnd", Root, <<>>), Frame("pack", Root, <<>>)>> ELSE <<>>
      OBVIOUS
    <3>1. /\ p \in Files /\ Put(fs \o <<h>>) /\ stack' = rest /\ sender' = "file"
          /\ current' = [path |-> p, left |-> Size[p]] /\ sent' = sent
      BY <2>12, <3>0 DEF StartFile, rest
    <3>2. p \notin Dirs
      BY <3>1 DEF DirectoryAssumption
    <3>3. sent'.files + 1 = Cardinality(more \cap Files)
      BY <2>4, <2>5, <3>1
    <3>4. Walk(more)'
      BY <1>3, <2>3, <2>6, <2>8, <2>9, <3>1, <3>2, <3>3
    <3>5. conn = "up" => InUp("file", p)'
      <4>1. h \in Frames /\ h.type = "file" /\ h.path = p
        BY <3>1, FileFrame
      <4>2. fs \in Seq(Frames)
        <5>1. /\ Frame("packEnd", Root, <<>>) \in Frames
              /\ Frame("pack", Root, <<>>) \in Frames
          BY EmptyFrame
        <5>2. PICK g, k : g = Frame("packEnd", Root, <<>>) /\ k = Frame("pack", Root, <<>>)
          OBVIOUS
        <5>3. <<g, k>> \in Seq(Frames) /\ <<>> \in Seq(Frames)
          <6> HIDE DEF Frames
          <6> QED
            BY <5>1, <5>2
        <5> QED
          BY <3>0, <5>2, <5>3
      <4> HIDE DEF h
      <4>3. PICK t, all : t = <<h>> /\ all = fs \o t
        OBVIOUS
      <4>4. t \in Seq(Frames) /\ Len(t) = 1 /\ t[1] = h
        <5> HIDE DEF Frames
        <5> QED
          BY <4>1, <4>3
      <4>5. all \in Seq(Frames) /\ Len(all) = Len(fs) + 1 /\ all[Len(fs) + 1] = h /\ Len(fs) \in Nat
        BY <4>2, <4>3, <4>4, Joined, Elements
      <4>6. Put(all)
        BY <3>1, <4>3
      <4>7. Len(fs) + 1 \in 1 .. Len(all)
        BY <4>5
      <4>8. conn = "up" => InUp(all[Len(fs) + 1].type, all[Len(fs) + 1].path)'
        BY <4>5, <4>6, <4>7, PutIn
      <4> QED
        BY <4>1, <4>5, <4>8
    <3> QED
      BY <2>2, <2>6, <3>2, <3>4, <3>5
  <2> QED
    BY <2>1, <2>10, <2>11, <2>12
<1>7. CASE SendUnit
  <2>1. /\ sender = "file" /\ UNCHANGED <<sender, stack, sent>>
        /\ current' = [current EXCEPT !.left = @ - 1]
    BY <1>7 DEF SendUnit
  <2>2. current'.path = current.path
    BY <2>1 DEF TypeOK
  <2>3. Walk(seen)'
    BY <1>1, <1>3, <2>1, <2>2 DEF Walks
  <2> QED
    BY <2>1, <2>3
<1>8. CASE FinishFile
  <2>1. /\ sender = "file" /\ sender' = "walk" /\ stack' = stack
        /\ sent' = [sent EXCEPT !.files = @ + 1, !.bytes = @ + Size[current.path]]
    BY <1>8 DEF FinishFile
  <2>2. Size[current.path] \in Nat /\ sent \in [files: Nat, dirs: Nat, bytes: Nat]
    BY <2>1 DEF TaskFiles, TypeOK, DirectoryAssumption
  <2>3. sent'.files = sent.files + 1
    BY <2>1, <2>2, Counted
  <2>4. sent'.files + 0 = Cardinality(seen \cap Files)
    BY <1>1, <1>2, <2>1, <2>3 DEF Walks
  <2>5. Walk(seen)'
    BY <1>1, <1>3, <2>1, <2>4 DEF Walks
  <2> QED
    BY <2>1, <2>5
<1>9. CASE SendTotals \/ SendFails \/ SendShutdown
  <2>1. /\ UNCHANGED <<stack, sent, current>>
        /\ \/ sender = "walk" /\ sender' = "ended" /\ stack = <<>>
           \/ sender' \in {"failed", "error"} /\ sender \in {"start", "walk", "file", "failed"}
           \/ sender = "ended" /\ sender' = "done"
    BY <1>9 DEF SendTotals, SendFails, SendShutdown
  <2>2. Walk(seen)'
    BY <1>1, <1>3, <2>1 DEF Walks
  <2> QED
    BY <2>2
<1> QED
  BY <1>4, <1>5, <1>6, <1>7, <1>8, <1>9 DEF Sends

-----------------------------------------------------------------------------
\* What was seen is on its way or there

\* The sender adds to what is on its way.
LEMMA ProgressSends ==
    ASSUME DirectoryAssumption, TypeOK, Wire, TaskFiles, EndSent, Progress, Sends
    PROVE  Progress'
<1>1. PICK seen \in SUBSET Entries : Walk(seen) /\ Covered(seen)
  BY DEF Progress
<1>2. PICK more \in SUBSET Entries :
              /\ Walk(more)' /\ seen \subseteq more
              /\ sender \in {"ended", "done"} => more = seen
              /\ conn = "up" => \A p \in more \ seen : /\ p \in Dirs => InUp("dir", p)'
                                                       /\ p \in Files => InUp("file", p)'
  BY <1>1, WalkSends
<1>3. PICK fs : fs \in Seq(Frames) /\ Put(fs)
  BY SendsWrite, Zenon DEF Sent
<1>4. \A type, p : InUp(type, p) => InUp(type, p)'
  BY <1>3, PutIn
<1>5. UNCHANGED <<conn, worker, incoming, dest>>
  BY SendsKeep DEF workerVars
<1>6. ASSUME NoClash, Receiving', (conn = "up" \/ HasEnd)'
      PROVE  /\ \A d \in more \cap Dirs : dest'[d] = Directory \/ InUp("dir", d)'
             /\ \A p \in more \cap Files : Arrived(p)' \/ (worker' = "data" /\ incoming'.path = p) \/ InUp("file", p)'
  <2>1. conn # "up" => HasEnd /\ more = seen
    <3>1. conn # "up" => up' = up
      BY <1>3 DEF Put
    <3>2. conn # "up" => HasEnd
      BY <1>5, <1>6, <3>1 DEF HasEnd
    <3>3. HasEnd => sender \in {"ended", "done"}
      BY DEF HasEnd, EndSent
    <3> QED
      BY <1>2, <3>2, <3>3
  <2>2. Receiving /\ (conn = "up" \/ HasEnd)
    BY <1>5, <1>6, <2>1 DEF Receiving
  <2>3. /\ \A d \in seen \cap Dirs : dest[d] = Directory \/ InUp("dir", d)
        /\ \A p \in seen \cap Files : Arrived(p) \/ (worker = "data" /\ incoming.path = p) \/ InUp("file", p)
    BY <1>1, <1>6, <2>2 DEF Covered
  <2>4. \A p : Arrived(p) => Arrived(p)'
    BY <1>5 DEF Arrived, Whole, Tidy
  <2>5. ASSUME NEW d \in more \cap Dirs PROVE dest'[d] = Directory \/ InUp("dir", d)'
    <3>1. CASE d \in seen
      BY <1>4, <1>5, <2>3, <3>1
    <3>2. CASE d \notin seen
      BY <1>2, <2>1, <3>2
    <3> QED
      BY <3>1, <3>2
  <2>6. ASSUME NEW p \in more \cap Files
        PROVE  Arrived(p)' \/ (worker' = "data" /\ incoming'.path = p) \/ InUp("file", p)'
    <3>1. CASE p \in seen
      BY <1>4, <1>5, <2>3, <2>4, <3>1
    <3>2. CASE p \notin seen
      BY <1>2, <2>1, <3>2
    <3> QED
      BY <3>1, <3>2
  <2> QED
    BY <2>5, <2>6
<1>7. Covered(more)'
  BY <1>6 DEF Covered, NoClash
<1> QED
  BY <1>2, <1>7 DEF Progress

\* The frame that was taken is the only one that is not on its way any more.
LEMMA TookIn ==
    ASSUME Wire, NEW type, Took(type)
    PROVE  /\ \A t, p : InUp(t, p) => InUp(t, p)' \/ (t = type /\ p = Head(up).path)
           /\ HasEnd' => HasEnd
<1>1. /\ up' = Tail(up) /\ Head(up).type = type /\ Head(up) = up[1]
      /\ Len(up') = Len(up) - 1 /\ Len(up) \in Nat
      /\ \A i \in 1 .. Len(up) - 1 : up'[i] = up[i + 1]
  BY FirstAndRest, Elements DEF Wire, Took
<1>2. ASSUME NEW t, NEW p, InUp(t, p) PROVE InUp(t, p)' \/ (t = type /\ p = Head(up).path)
  <2>1. PICK i \in 1 .. Len(up) : up[i].type = t /\ up[i].path = p
    BY <1>2 DEF InUp
  <2>2. CASE i = 1
    BY <1>1, <2>1, <2>2
  <2>3. CASE i # 1
    <3>1. i - 1 \in 1 .. Len(up') /\ up'[i - 1] = up[i]
      BY <1>1, <2>3
    <3> QED
      BY <2>1, <3>1 DEF InUp
  <2> QED
    BY <2>2, <2>3
<1>3. ASSUME NEW i \in 1 .. Len(up'), up'[i].type = "end" PROVE HasEnd
  <2>1. i + 1 \in 1 .. Len(up) /\ up[i + 1].type = "end"
    BY <1>1, <1>3
  <2> QED
    BY <2>1 DEF HasEnd
<1> QED
  BY <1>2, <1>3 DEF HasEnd

\* What left the wire is at the destination, or is being received.
LEMMA CoveredReceives ==
    ASSUME DirectoryAssumption, TypeOK, Wire, TaskFiles, NEW seen \in SUBSET Entries, Covered(seen), Receives
    PROVE  Covered(seen)'
<1> DEFINE There == \A d \in seen \cap Dirs : dest[d] = Directory \/ InUp("dir", d)
           Got   == \A p \in seen \cap Files : Arrived(p) \/ (worker = "data" /\ incoming.path = p) \/ InUp("file", p)
<1>1. conn' = conn
  BY ReceivesKeep
<1>2. CASE ~Receiving'
  BY <1>2 DEF Covered
<1> SUFFICES ASSUME NoClash, Receiving', (conn = "up" \/ HasEnd)' PROVE There' /\ Got'
  BY <1>2 DEF Covered, NoClash
<1>3. ASSUME Receiving, HasEnd' => HasEnd PROVE There /\ Got
  BY <1>1, <1>3 DEF Covered
<1>4. ASSUME NEW type, Took(type), type \notin {"dir", "file"}
      PROVE  (HasEnd' => HasEnd) /\ \A p : /\ InUp("dir", p) => InUp("dir", p)'
                                           /\ InUp("file", p) => InUp("file", p)'
  BY <1>4, TookIn
<1>5. CASE RecvStart \/ RecvPack
  <2>1. PICK type : Took(type) /\ type \notin {"dir", "file"}
    BY <1>5 DEF RecvStart, RecvPack
  <2>2. worker \in {"start", "frames"} /\ worker' = "frames" /\ dest' = dest
    BY <1>5 DEF RecvStart, RecvPack, DiskError, Reject, workerVars, Receiving
  <2>3. There /\ Got
    BY <1>3, <1>4, <2>1, <2>2 DEF Receiving
  <2>4. \A p : Arrived(p) => Arrived(p)'
    BY <2>2 DEF Arrived, Whole, Tidy
  <2> HIDE DEF Arrived, InUp
  <2> QED
    BY <1>4, <2>1, <2>2, <2>3, <2>4
<1>6. CASE RecvDirectory
  <2>1. PICK e : e = Head(up).path
    OBVIOUS
  <2>2. /\ worker = "frames" /\ worker' = "frames" /\ Took("dir")
        /\ dest' = [dest EXCEPT ![e] = Directory]
    BY <1>6, <2>1 DEF RecvDirectory, DiskError, Reject, Receiving
  <2>3. e \in Dirs
    <3>1. Head(up).type = "dir" /\ Follows(WorkerAt, Head(up))
      BY <2>2, TookFirst DEF Receiving
    <3> QED
      BY <2>1, <3>1 DEF Follows, Plain
  <2>4. /\ \A p : InUp("dir", p) => InUp("dir", p)' \/ p = e
        /\ \A p : InUp("file", p) => InUp("file", p)'
        /\ HasEnd' => HasEnd
    BY <2>1, <2>2, TookIn
  <2>5. There /\ Got
    BY <1>3, <2>2, <2>4 DEF Receiving
  <2>6. DOMAIN dest = Names /\ e \in Names /\ e \notin Files
    BY <2>3 DEF TypeOK, DirectoryAssumption
  <2>7. dest'[e] = Directory /\ \A q \in Names : q # e => dest'[q] = dest[q]
    BY <2>2, <2>6
  <2>8. ASSUME NEW p \in Files, Arrived(p) PROVE Arrived(p)'
    <3>1. p \in Names /\ p # e /\ Partial[p] \in Names
      BY <2>6 DEF DirectoryAssumption
    <3>2. Whole(p) /\ Tidy(p)
      BY <2>2, <2>8 DEF Arrived
    <3>3. Whole(p)' /\ Tidy(p)'
      BY <2>3, <2>7, <3>1, <3>2 DEF Whole, Tidy
    <3> QED
      BY <3>3 DEF Arrived
  <2>9. There'
    <3>1. \A d \in Dirs : d \in Names
      BY DEF DirectoryAssumption
    <3> QED
      BY <2>4, <2>5, <2>7, <3>1
  <2>10. Got'
    BY <2>2, <2>4, <2>5, <2>8
  <2> QED
    BY <2>9, <2>10
<1>7. CASE RecvFile
  <2>1. PICK f : f = Head(up).path
    OBVIOUS
  <2>2. /\ worker = "frames" /\ worker' = "data" /\ Took("file") /\ Creatable(f)
        /\ dest' = [dest EXCEPT ![Partial[f]] = File(<<>>)] /\ incoming'.path = f
    BY <1>7, <2>1 DEF RecvFile, DiskError, Reject, Receiving, Create, Staging
  <2>3. f \in Files
    <3>1. Head(up).type = "file" /\ Follows(WorkerAt, Head(up))
      BY <2>2, TookFirst DEF Receiving
    <3> QED
      BY <2>1, <3>1 DEF Follows, Plain
  <2>4. /\ \A p : InUp("file", p) => InUp("file", p)' \/ p = f
        /\ \A p : InUp("dir", p) => InUp("dir", p)'
        /\ HasEnd' => HasEnd
    BY <2>1, <2>2, TookIn
  <2>5. There /\ Got
    BY <1>3, <2>2, <2>4 DEF Receiving
  <2>6. /\ DOMAIN dest = Names /\ Partial[f] \in Names /\ Partial[f] \notin Files
        /\ dest[Partial[f]] # Directory
    BY <2>2, <2>3 DEF TypeOK, DirectoryAssumption, NoClash, Creatable, Staging, Directory
  <2>7. \A q \in Names : q # Partial[f] => dest'[q] = dest[q]
    BY <2>2, <2>6
  <2>8. ASSUME NEW p \in Files, Arrived(p) PROVE Arrived(p)'
    <3>1. p \in Names /\ p # Partial[f] /\ Partial[p] \in Names
      BY <2>6 DEF DirectoryAssumption
    <3>2. Whole(p) /\ Tidy(p)
      BY <2>2, <2>8 DEF Arrived
    <3>3. Whole(p)'
      BY <2>7, <3>1, <3>2 DEF Whole
    <3>4. Tidy(p)' \/ Partial[incoming'.path] = Partial[p]
      BY <2>2, <2>7, <3>1, <3>2 DEF Tidy
    <3> QED
      BY <2>2, <3>3, <3>4 DEF Arrived
  <2>9. There'
    <3>1. \A d \in Dirs : d \in Names /\ (dest[d] = Directory => d # Partial[f])
      BY <2>6 DEF DirectoryAssumption
    <3> QED
      BY <2>4, <2>5, <2>7, <3>1
  <2>10. Got'
    BY <2>2, <2>4, <2>5, <2>8
  <2> QED
    BY <2>9, <2>10
<1>8. CASE RecvUnit
  <2>1. PICK f, e : f = incoming.path /\ e = [dest[Partial[f]] EXCEPT !.data
                                                = Append(@, <<Head(up).path, Head(up).numbers[1]>>)]
    OBVIOUS
  <2>2. /\ worker = "data" /\ worker' = "data" /\ Took("data") /\ incoming' = [incoming EXCEPT !.left = @ - 1]
        /\ dest' = [dest EXCEPT ![Partial[f]] = e]
    BY <1>8, <2>1 DEF RecvUnit, DiskError, Reject, Receiving, Staging
  <2>3. f \in Files /\ incoming'.path = f /\ \E data : dest[Partial[f]] = File(data)
    BY <2>1, <2>2 DEF TaskFiles, TypeOK, Staging
  <2>4. /\ \A p : InUp("file", p) => InUp("file", p)'
        /\ \A p : InUp("dir", p) => InUp("dir", p)'
        /\ HasEnd' => HasEnd
    BY <1>4, <2>2
  <2>5. There /\ Got
    BY <1>3, <2>2, <2>4 DEF Receiving
  <2>6. /\ DOMAIN dest = Names /\ Partial[f] \in Names /\ Partial[f] \notin Files
        /\ dest[Partial[f]] # Directory
    BY <2>3 DEF TypeOK, DirectoryAssumption, NoClash, Directory, File
  <2>7. \A q \in Names : q # Partial[f] => dest'[q] = dest[q]
    BY <2>2, <2>6
  <2>8. ASSUME NEW p \in Files, Arrived(p) PROVE Arrived(p)'
    <3>1. p \in Names /\ p # Partial[f] /\ Partial[p] \in Names
      BY <2>6 DEF DirectoryAssumption
    <3>2. Whole(p) /\ (Tidy(p) \/ Partial[f] = Partial[p])
      BY <2>1, <2>8 DEF Arrived
    <3>3. Whole(p)'
      BY <2>7, <3>1, <3>2 DEF Whole
    <3>4. Tidy(p)' \/ Partial[f] = Partial[p]
      BY <2>7, <3>1, <3>2 DEF Tidy
    <3> QED
      BY <2>2, <2>3, <3>3, <3>4 DEF Arrived
  <2>9. There'
    <3>1. \A d \in Dirs : d \in Names /\ (dest[d] = Directory => d # Partial[f])
      BY <2>6 DEF DirectoryAssumption
    <3> QED
      BY <2>4, <2>5, <2>7, <3>1
  <2>10. Got'
    BY <2>1, <2>2, <2>3, <2>4, <2>5, <2>8
  <2> QED
    BY <2>9, <2>10
<1>9. CASE RecvLast
  <2>1. PICK f : f = incoming.path
    OBVIOUS
  <2>2. worker = "data" /\ incoming.left = 0 /\ Commit(f) /\ (Took("digest") \/ up' = up)
    BY <1>9, <2>1 DEF RecvLast, DiskError, Reject, Receiving
  <2>3. f \in Files /\ Size[f] - 0 = Size[f] /\ dest[Partial[f]] = File(Content(f, Size[f]))
    <3>1. f \in Files /\ Size[f] \in Nat /\ dest[Partial[f]] = File(Content(f, Size[f] - incoming.left))
      BY <2>1, <2>2 DEF TaskFiles, DirectoryAssumption, Staging
    <3>2. Size[f] - incoming.left = Size[f]
      BY <2>2, <3>1
    <3> QED
      BY <3>1, <3>2
  <2>4. /\ \A p : InUp("file", p) => InUp("file", p)'
        /\ \A p : InUp("dir", p) => InUp("dir", p)'
        /\ HasEnd' => HasEnd
    <3>1. up' = up => \A t, p : (InUp(t, p) => InUp(t, p)') /\ (HasEnd' => HasEnd)
      BY DEF InUp, HasEnd
    <3> QED
      BY <1>4, <2>2, <3>1
  <2>5. There /\ Got
    BY <1>3, <2>2, <2>4 DEF Receiving
  <2>6. /\ DOMAIN dest = Names /\ Partial[f] \in Names /\ Partial[f] \notin Files
        /\ dest[Partial[f]] # Directory /\ f \in Names /\ Partial[f] # f
    BY <2>3 DEF TypeOK, DirectoryAssumption, NoClash, Directory, File
  <2>7. worker' = "frames" /\ dest' = [dest EXCEPT ![f] = dest[Partial[f]], ![Partial[f]] = Absent]
    BY <2>2, <2>6 DEF Commit, Renamed, Staging
  <2>8. /\ dest'[f] = File(Content(f, Size[f])) /\ dest'[Partial[f]] = Absent
        /\ \A q \in Names : q # f /\ q # Partial[f] => dest'[q] = dest[q]
    BY <2>3, <2>6, <2>7
  <2>9. ASSUME NEW p \in Files, p = f \/ Arrived(p) PROVE Arrived(p)'
    <3>1. p \in Names /\ p # Partial[f] /\ Partial[p] \in Names
      BY <2>6 DEF DirectoryAssumption
    <3>2. p = f \/ (Whole(p) /\ (Tidy(p) \/ Partial[f] = Partial[p]))
      BY <2>1, <2>9 DEF Arrived
    <3>3. Whole(p)'
      BY <2>8, <3>1, <3>2 DEF Whole
    <3>4. Tidy(p)'
      BY <2>3, <2>8, <3>1, <3>2 DEF Tidy
    <3> QED
      BY <3>3, <3>4 DEF Arrived
  <2>10. There'
    <3>1. \A d \in Dirs : d \in Names /\ d # f /\ (dest[d] = Directory => d # Partial[f])
      BY <2>3, <2>6 DEF DirectoryAssumption
    <3> QED
      BY <2>4, <2>5, <2>8, <3>1
  <2>11. Got'
    BY <2>1, <2>2, <2>4, <2>5, <2>9
  <2> QED
    BY <2>10, <2>11
<1>10. ~(RecvEnd \/ RecvCut \/ WriteAck \/ WriteAckFails)
  BY DEF RecvEnd, RecvCut, WriteAck, WriteAckFails, Reject, Receiving
<1> QED
  BY <1>5, <1>6, <1>7, <1>8, <1>9, <1>10 DEF Receives

\* The walk is the sender's alone.
LEMMA WalkStays ==
    ASSUME UNCHANGED <<sender, stack, current, sent>>, NEW seen, Walk(seen)
    PROVE  Walk(seen)'
BY DEF Walk, Walks

\* The worker's steps.
LEMMA ProgressReceives ==
    ASSUME DirectoryAssumption, TypeOK, Wire, TaskFiles, Progress, Receives
    PROVE  Progress'
<1>1. PICK seen \in SUBSET Entries : Walk(seen) /\ Covered(seen)
  BY DEF Progress
<1>2. Walk(seen)'
  BY <1>1, ReceivesKeep, WalkStays DEF senderVars
<1>3. Covered(seen)'
  BY <1>1, CoveredReceives
<1> QED
  BY <1>2, <1>3 DEF Progress

\* The CLI's, and a loss.
LEMMA ProgressOthers ==
    ASSUME Wire, EndSent, Progress, Awaits \/ Lose
    PROVE  Progress'
<1>1. PICK seen \in SUBSET Entries : Walk(seen) /\ Covered(seen)
  BY DEF Progress
<1>2. UNCHANGED <<sender, stack, current, sent, worker, incoming, dest>>
  BY AwaitsKeep DEF Lose, senderVars, workerVars
<1>3. Walk(seen)'
  BY <1>1, <1>2, WalkStays
<1>4. (conn = "up" \/ HasEnd)' => up' = up /\ (conn = "up" \/ HasEnd)
  <2>1. CASE Awaits
    BY <2>1, AwaitsKeep DEF HasEnd
  <2>2. CASE Lose
    <3>1. conn' = "lost" /\ conn = "up"
      BY <2>2 DEF Lose
    <3> QED
      BY <2>2, <3>1, EndLose
  <2> QED
    BY <2>1, <2>2
<1>5. Covered(seen)'
  BY <1>1, <1>2, <1>4 DEF Covered, NoClash, Receiving, Arrived, Whole, Tidy, InUp
<1> QED
  BY <1>3, <1>5 DEF Progress

-----------------------------------------------------------------------------
\* A complete transfer

\* At the end of the walk the whole tree was seen: of the directories that were
\* not, one would be in a directory that was.
LEMMA AllSeen ==
    ASSUME DirectoryAssumption, TypeOK, NEW seen \in SUBSET Entries, Walk(seen), sender \in {"ended", "done"}
    PROVE  seen = Entries /\ sent.files = Cardinality(Files)
<1>1. stack = <<>> /\ \A p : ~In(p, stack)
  BY DEF Walk, In
<1>2. \A p \in Entries : Parent[p] \in seen \cup {Root} <=> p \in seen
  BY <1>1 DEF Walk, Walks
<1>3. \A p \in Entries : Parent[p] \in Dirs \cup {Root}
  BY DEF DirectoryAssumption, Entries
<1>4. Dirs \subseteq seen
  <2> SUFFICES ASSUME Dirs \ seen # {} PROVE FALSE
    OBVIOUS
  <2>1. PICK d \in Dirs \ seen : Parent[d] \notin Dirs \ seen
    BY DEF DirectoryAssumption
  <2>2. d \in Entries /\ Parent[d] \in seen \cup {Root}
    BY <1>3, <2>1 DEF Entries
  <2> QED
    BY <1>2, <2>1, <2>2
<1>5. seen = Entries
  BY <1>2, <1>3, <1>4
<1>6. sent.files = Cardinality(seen \cap Files)
  <2>1. sent.files + 0 = Cardinality(seen \cap Files) /\ sent.files \in Nat
    BY DEF Walk, Walks, TypeOK
  <2> QED
    BY <2>1
<1>7. seen \cap Files = Files
  BY <1>5 DEF Entries
<1> QED
  BY <1>5, <1>6, <1>7

\* Totals that agree in each number.
LEMMA SameTotals ==
    ASSUME NEW t \in [files: Nat, dirs: Nat, bytes: Nat], NEW u \in [files: Nat, dirs: Nat, bytes: Nat],
           t.files = u.files, t.dirs = u.dirs, t.bytes = u.bytes
    PROVE  t = u
OBVIOUS

\* The totals agree, and nothing is on its way.
LEMMA EndFinishes ==
    ASSUME DirectoryAssumption, TypeOK, Wire, EndSent, Progress, RecvEnd, worker' = "ackOk"
    PROVE  Finished'
<1>1. /\ worker = "frames" /\ Took("end") /\ TotalsMatch(Head(up).numbers)
      /\ UNCHANGED <<sender, sent, totals, dest>>
  BY DEF RecvEnd, senderVars
<1>2. up # <<>> /\ up[1] = Head(up) /\ Len(up) \in Nat /\ Len(up) > 0 /\ up[1].type = "end"
  BY <1>1, FirstAndRest, Elements DEF Took, Wire
<1>3. /\ Len(up) = 1 /\ sender \in {"ended", "done"}
      /\ up[1].numbers = <<sent.files, sent.dirs, sent.bytes>>
  <2>1. 1 \in 1 .. Len(up)
    BY <1>2
  <2>2. /\ 1 = Len(up) /\ sender \in {"ended", "done"}
        /\ up[1].numbers = <<sent.files, sent.dirs, sent.bytes>>
    BY <1>2, <2>1, Zenon DEF EndSent
  <2> QED
    BY <2>2
<1>4. totals = sent
  <2>1. <<sent.files, sent.dirs, sent.bytes>> = <<totals.files, totals.dirs, totals.bytes>>
    BY <1>1, <1>2, <1>3 DEF TotalsMatch
  <2>2. sent.files = totals.files /\ sent.dirs = totals.dirs /\ sent.bytes = totals.bytes
    BY <2>1
  <2>3. totals \in [files: Nat, dirs: Nat, bytes: Nat] /\ sent \in [files: Nat, dirs: Nat, bytes: Nat]
    BY DEF TypeOK
  <2> QED
    BY <2>2, <2>3, SameTotals
<1>5. PICK seen \in SUBSET Entries : Walk(seen) /\ Covered(seen)
  BY DEF Progress
<1>6. seen = Entries /\ sent.files = Cardinality(Files)
  BY <1>3, <1>5, AllSeen
<1>7. ASSUME NoClash PROVE (\A d \in Dirs : dest[d] = Directory) /\ (\A p \in Files : Whole(p) /\ Tidy(p))
  <2>1. \A type, p : InUp(type, p) => type = "end"
    BY <1>2, <1>3 DEF InUp
  <2>2. HasEnd /\ Receiving
    BY <1>1, <1>2, <1>3 DEF HasEnd, Receiving
  <2>3. /\ \A d \in seen \cap Dirs : dest[d] = Directory \/ InUp("dir", d)
        /\ \A p \in seen \cap Files : Arrived(p) \/ (worker = "data" /\ incoming.path = p) \/ InUp("file", p)
    BY <1>5, <1>7, <2>2 DEF Covered
  <2>4. (\A d \in Dirs : dest[d] = Directory) /\ (\A p \in Files : Arrived(p))
    BY <1>1, <1>6, <2>1, <2>3 DEF Entries
  <2> QED
    BY <1>1, <2>4 DEF Arrived
<1> QED
  BY <1>1, <1>3, <1>4, <1>6, <1>7 DEF Finished, NoClash, Whole, Tidy

\* What an acknowledged transfer was, it stays.
LEMMA FinishedStays ==
    ASSUME TypeOK, Finished, Next
    PROVE  Finished' /\ totals' = totals
<1>1. worker \in {"ackOk", "bodyOk", "shutdown", "ended"} /\ sender \in {"ended", "done"}
  BY DEF Finished
<1>2. ASSUME UNCHANGED <<sent, totals, dest>>, worker' \in {"ackOk", "bodyOk", "shutdown", "ended"},
             sender' \in {"ended", "done"}
      PROVE  Finished' /\ totals' = totals
  BY <1>2 DEF Finished, NoClash, Whole, Tidy
<1>3. CASE Sends
  BY <1>1, <1>2, <1>3, AfterEnd, SendsKeep DEF workerVars
<1>4. CASE Receives
  <2>1. UNCHANGED <<sender, sent>>
    BY <1>4, ReceivesKeep DEF senderVars
  <2>2. WriteAck \/ WriteAckFails
    BY <1>1, <1>4 DEF Receives, RecvStart, RecvPack, RecvDirectory, RecvFile, RecvUnit, RecvLast, RecvEnd,
                      RecvCut
  <2>3. UNCHANGED <<totals, dest>> /\ worker' \in {"bodyOk", "shutdown", "ended"}
    BY <1>1, <2>2 DEF WriteAck, WriteAckFails
  <2> QED
    BY <1>1, <1>2, <2>1, <2>3
<1>5. CASE Awaits
  BY <1>1, <1>2, <1>5, AwaitsKeep DEF senderVars, workerVars
<1>6. CASE Lose \/ Done
  BY <1>1, <1>2, <1>6 DEF Lose, Done, vars, senderVars, workerVars
<1> QED
  BY <1>3, <1>4, <1>5, <1>6 DEF Next

\* All is well only after the totals were compared.
LEMMA OkStep ==
    ASSUME DirectoryAssumption, TypeOK, Wire, EndSent, Progress, Ok => Finished, Next
    PROVE  Ok' => Finished'
<1>1. CASE Ok
  BY <1>1, FinishedStays
<1> SUFFICES ASSUME ~Ok, Ok' PROVE Finished'
  BY <1>1
<1>2. /\ worker \notin {"ackOk", "bodyOk"} /\ \A i \in 1 .. Len(down) : down[i] # "ok"
      /\ ack # "ok" /\ cli \notin {"acked", "completed"}
  BY DEF Ok
<1>3. down \in Seq({"ok", "error", "body"})
  BY DEF Wire
<1>4. ASSUME worker' \notin {"ackOk", "bodyOk"}, \A i \in 1 .. Len(down') : down'[i] # "ok",
             ack' # "ok", cli' \notin {"acked", "completed"}
      PROVE  FALSE
  BY <1>4 DEF Ok
<1>5. CASE Sends
  BY <1>2, <1>4, <1>5, SendsKeep DEF workerVars, cliVars
<1>6. CASE Receives
  <2>1. UNCHANGED <<cli, ack>>
    BY <1>6, ReceivesKeep DEF cliVars
  <2>2. CASE RecvEnd
    <3>1. down' = down /\ worker' \in {"ackOk", "ackError"}
      BY <2>2 DEF RecvEnd
    <3> QED
      BY <1>2, <1>4, <2>1, <2>2, <3>1, EndFinishes
  <2>3. CASE WriteAck
    <3>1. /\ worker' \notin {"ackOk", "bodyOk"}
          /\ down' = down \/ (\E x \in {"error", "body"} : down' = Append(down, x))
      BY <1>2, <2>3 DEF WriteAck
    <3>2. \A i \in 1 .. Len(down') : down'[i] # "ok"
      <4>1. CASE down' = down
        BY <1>2, <4>1
      <4>2. ASSUME NEW x \in {"error", "body"}, down' = Append(down, x)
            PROVE  \A i \in 1 .. Len(down') : down'[i] # "ok"
        <5>1. /\ Len(down') = Len(down) + 1 /\ \A i \in 1 .. Len(down) : down'[i] = down[i]
              /\ down'[Len(down) + 1] = x /\ Len(down) \in Nat
          BY <1>3, <4>2, OneMore, Elements
        <5>2. \A i \in 1 .. Len(down') : i \in 1 .. Len(down) \/ i = Len(down) + 1
          BY <5>1
        <5> QED
          BY <1>2, <5>1, <5>2
      <4> QED
        BY <3>1, <4>1, <4>2
    <3> QED
      BY <1>2, <1>4, <2>1, <3>1, <3>2
  <2>4. CASE ~RecvEnd /\ ~WriteAck
    <3>1. down' = down /\ worker' \notin {"ackOk", "bodyOk"}
      BY <1>2, <1>6, <2>4 DEF Receives, RecvStart, RecvPack, RecvDirectory, RecvFile, RecvUnit, RecvLast,
         RecvCut, WriteAckFails, DiskError, Reject, Commit, workerVars
    <3> QED
      BY <1>2, <1>4, <2>1, <3>1
  <2> QED
    BY <2>2, <2>3, <2>4
<1>7. CASE Awaits
  <2>1. worker' = worker
    BY <1>7, AwaitsKeep DEF workerVars
  <2>2. /\ cli' \notin {"acked", "completed"}
        /\ \/ down' = down /\ ack' \in {ack, "none"}
           \/ down # <<>> /\ down' = Tail(down) /\ ack' \in {ack, Head(down), "none"}
    BY <1>2, <1>7 DEF Awaits, AckTag, AckBody, AckCut, SentFirst, AckedFirst, Report, AwaitAck
  <2>3. down # <<>> => /\ Head(down) = down[1] /\ Len(down) > 0 /\ Len(down) \in Nat
                       /\ Len(Tail(down)) = Len(down) - 1
                       /\ \A i \in 1 .. Len(down) - 1 : Tail(down)[i] = down[i + 1]
    BY <1>3, FirstAndRest, Elements
  <2>4. down # <<>> => /\ Head(down) # "ok"
                       /\ \A i \in 1 .. Len(Tail(down)) : Tail(down)[i] # "ok"
    BY <1>2, <2>3
  <2> QED
    BY <1>2, <1>4, <2>1, <2>2, <2>4
<1>8. CASE Lose
  <2>1. UNCHANGED <<worker, ack, cli>> /\ \E n \in 0 .. Len(down) : down' = SubSeq(down, 1, n)
    BY <1>8 DEF Lose, workerVars, cliVars
  <2>2. PICK n \in 0 .. Len(down) : down' = SubSeq(down, 1, n)
    BY <2>1
  <2>3. Len(down') = n /\ Len(down) \in Nat /\ \A i \in 1 .. n : down'[i] = down[i]
    BY <1>3, <2>2, Prefix, Elements
  <2>4. \A i \in 1 .. Len(down') : down'[i] # "ok"
    BY <1>2, <2>3
  <2> QED
    BY <1>2, <1>4, <2>1, <2>4
<1>9. CASE Done
  BY <1>2, <1>4, <1>9 DEF Done, vars, workerVars, cliVars
<1> QED
  BY <1>5, <1>6, <1>7, <1>8, <1>9 DEF Next

\* The CLI reports the totals of the worker.
LEMMA ReceiptStep ==
    ASSUME TypeOK, Ok => Finished, Receipt, Next
    PROVE  Receipt'
<1> SUFFICES ASSUME cli' \in {"acked", "completed"}
             PROVE  outcome'.files = totals'.files /\ outcome'.bytes = totals'.bytes
  BY DEF Receipt
<1>1. CASE UNCHANGED <<cli, outcome>>
  <2>1. Ok
    BY <1>1 DEF Ok
  <2> QED
    BY <1>1, <2>1, FinishedStays DEF Receipt
<1>2. CASE Awaits
  <2>1. totals' = totals
    BY <1>2, AwaitsKeep DEF workerVars
  <2>2. CASE AckBody
    <3>1. outcome' = [reason |-> "ok", files |-> totals.files, bytes |-> totals.bytes]
      BY <2>2 DEF AckBody, Report
    <3> QED
      BY <2>1, <3>1
  <2>3. CASE AckedFirst
    <3>1. cli = "acked" /\ \E why : outcome' = [outcome EXCEPT !.reason = why]
      BY <2>3 DEF AckedFirst, Report
    <3> QED
      BY <2>1, <3>1 DEF Receipt, TypeOK
  <2>4. CASE AckTag \/ AckCut \/ SentFirst
    BY <1>1, <2>4 DEF AckTag, AckCut, SentFirst, Report, AwaitAck
  <2> QED
    BY <1>2, <2>2, <2>3, <2>4 DEF Awaits
<1>3. CASE Sends \/ Receives \/ Lose \/ Done
  <2>1. UNCHANGED <<cli, outcome>>
    BY <1>3, SendsKeep, ReceivesKeep DEF cliVars, Lose, Done, vars
  <2> QED
    BY <1>1, <2>1
<1> QED
  BY <1>2, <1>3 DEF Next

-----------------------------------------------------------------------------
\* Theorems

\* The initial states.
LEMMA InitInv == ASSUME DirectoryAssumption, Init PROVE IInv
<1>1. TypeOK
  <2>1. stack \in Seq(SUBSET (Dirs \cup Files \cup Links))
    BY DEF Init
  <2>2. /\ {current, incoming} \subseteq [path: Files \cup {Root}, left: Nat]
        /\ {sent, totals} \subseteq [files: Nat, dirs: Nat, bytes: Nat]
    BY DEF Init, None, Zero
  <2>3. DOMAIN dest = Names /\ \A p \in Names : dest[p].kind \in {"absent", "dir", "link", "file"}
    BY DEF Init, DirectoryAssumption
  <2> QED
    BY <2>1, <2>2, <2>3 DEF Init, TypeOK
<1>2. Wire
  <2>1. up = <<>> /\ down = <<>> /\ WorkerAt = Between /\ sender = "start"
    BY DEF Init, WorkerAt
  <2>2. up \in Seq(Frames) /\ down \in Seq({"ok", "error", "body"})
    <3> HIDE DEF Frames
    <3> QED
      BY <2>1
  <2>3. Linked(WorkerAt, up) /\ SenderAt(LastOf(WorkerAt, up))
    BY <2>1, NoFrame, Resting DEF SenderAt
  <2> QED
    BY <2>2, <2>3 DEF Wire
<1>3. TaskFiles /\ EndSent
  BY DEF Init, TaskFiles, EndSent
<1>4. Progress
  <2>1. Len(stack) = 0 /\ stack = <<>> /\ sent = Zero /\ sender = "start"
    BY DEF Init
  <2>2. Walk({})
    BY <2>1 DEF Walk, Walks, In, Disjoint
  <2>3. Covered({})
    BY DEF Covered
  <2> QED
    BY <2>2, <2>3 DEF Progress
<1>5. ~Ok /\ Receipt
  BY DEF Init, Ok, Receipt
<1> QED
  BY <1>1, <1>2, <1>3, <1>4, <1>5 DEF IInv

\* A step that changes nothing.
LEMMA StutterInv == ASSUME IInv, UNCHANGED vars PROVE IInv'
<1>1. /\ UNCHANGED <<sender, stack, current, pack, sent, up, down, fin, conn>>
      /\ UNCHANGED <<worker, incoming, totals, dest, cli, ack, outcome>>
  BY DEF vars, senderVars, workerVars, cliVars
<1>2. TypeOK' /\ TaskFiles' /\ EndSent'
  BY <1>1 DEF IInv, TypeOK, TaskFiles, EndSent, Staging
<1>3. Wire'
  <2>1. Wire /\ down' \in Seq({"ok", "error", "body"}) /\ (conn' = conn \/ conn' = "lost")
    BY <1>1 DEF IInv, Wire
  <2> QED
    BY <1>1, <2>1, WireSame
<1>4. Progress'
  <2>1. PICK seen \in SUBSET Entries : Walk(seen) /\ Covered(seen)
    BY DEF IInv, Progress
  <2>2. Walk(seen)'
    BY <1>1, <2>1, WalkStays
  <2>3. Covered(seen)'
    BY <1>1, <2>1 DEF Covered, NoClash, Receiving, HasEnd, InUp, Arrived, Whole, Tidy
  <2> QED
    BY <2>2, <2>3 DEF Progress
<1>5. (Ok' => Finished') /\ Receipt'
  BY <1>1 DEF IInv, Ok, Finished, NoClash, Whole, Tidy, Receipt
<1> QED
  BY <1>2, <1>3, <1>4, <1>5 DEF IInv

\* The invariant is inductive.
LEMMA StepInv == ASSUME DirectoryAssumption, IInv, [Next]_vars PROVE IInv'
<1>1. TypeOK /\ Wire /\ TaskFiles /\ EndSent /\ Progress /\ (Ok => Finished) /\ Receipt
  BY DEF IInv
<1>2. CASE UNCHANGED vars
  BY <1>2, StutterInv
<1>3. ASSUME Next, TypeOK', Wire', TaskFiles', EndSent', Progress' PROVE IInv'
  <2>1. (Ok' => Finished') /\ Receipt'
    BY <1>1, <1>3, OkStep, ReceiptStep
  <2> QED
    BY <1>3, <2>1 DEF IInv
<1>4. CASE Sends
  <2>1. Next
    BY <1>4 DEF Next
  <2> QED
    BY <1>1, <1>3, <1>4, <2>1, TypeSends, WireSends, TaskSends, EndSends, ProgressSends
<1>5. CASE Receives
  <2>1. Next
    BY <1>5 DEF Next
  <2> QED
    BY <1>1, <1>3, <1>5, <2>1, TypeReceives, WireReceives, TaskReceives, EndReceives, ProgressReceives
<1>6. CASE Awaits
  <2>1. Next
    BY <1>6 DEF Next
  <2>2. TaskFiles' /\ EndSent'
    BY <1>1, <1>6, AwaitsKeep DEF senderVars, workerVars, TaskFiles, EndSent, Staging
  <2> QED
    BY <1>1, <1>3, <1>6, <2>1, <2>2, TypeOthers, WireAwaits, ProgressOthers
<1>7. CASE Lose
  <2>1. Next
    BY <1>7 DEF Next
  <2>2. TaskFiles'
    BY <1>1, <1>7 DEF Lose, senderVars, workerVars, TaskFiles, Staging
  <2> QED
    BY <1>1, <1>3, <1>7, <2>1, <2>2, TypeOthers, WireLose, EndLose, ProgressOthers
<1>8. CASE Done
  BY <1>8, StutterInv DEF Done
<1> QED
  BY <1>2, <1>4, <1>5, <1>6, <1>7, <1>8 DEF Next

\* The invariant holds in every reachable state, whatever fails.
THEOREM InvariantHolds == Spec => []IInv
<1>1. Init => IInv
  BY DirectoryAssumption, InitInv
<1>2. IInv /\ [Next]_vars => IInv'
  BY DirectoryAssumption, StepInv
<1> QED
  BY <1>1, <1>2, PTL DEF Spec

\* Every variable has its type: a frame is one the worker understands where it
\* reads it.
THEOREM TypeCorrect == Spec => []TypeOK
<1>1. IInv => TypeOK
  BY DEF IInv
<1> QED
  BY <1>1, InvariantHolds, PTL

\* A transfer reported complete delivered the tree, if no file of the source
\* has the staging name of one.
THEOREM TreeCorrect == ASSUME NoClash PROVE Spec => []SameTree
<1>1. IInv => SameTree
  BY DEF IInv, Ok, Finished, Whole, Tidy, SameTree
<1> QED
  BY <1>1, InvariantHolds, PTL

\* The receipt of a complete transfer is what was sent and what was counted.
THEOREM ReceiptCorrect == Spec => []ReceiptAgrees
<1>1. IInv => ReceiptAgrees
  BY DEF IInv, Ok, Finished, Receipt, ReceiptAgrees
<1> QED
  BY <1>1, InvariantHolds, PTL

\* A file of the destination changes when its staging file, which is complete
\* then, takes its name.
LEMMA WholeStep ==
    ASSUME DirectoryAssumption, IInv, [Next]_vars,
           NEW p \in Files \ {Partial[q] : q \in Files}, dest'[p] # dest[p]
    PROVE  dest'[p] = File(Content(p, Size[p]))
<1>1. TypeOK /\ Wire /\ TaskFiles
  BY DEF IInv
<1>2. Receives
  BY SendsKeep, AwaitsKeep DEF Next, Lose, Done, vars, workerVars
<1>3. DOMAIN dest = Names /\ p \in Names /\ \A q \in Files : p # Partial[q]
  BY <1>1 DEF TypeOK, DirectoryAssumption
<1>4. CASE RecvDirectory
  <2>1. PICK e : e = Head(up).path
    OBVIOUS
  <2>2. worker = "frames" /\ Took("dir") /\ (dest' = dest \/ dest' = [dest EXCEPT ![e] = Directory])
    BY <1>4, <2>1 DEF RecvDirectory, DiskError, Reject
  <2>3. Head(up).type = "dir" /\ Follows(WorkerAt, Head(up))
    BY <1>1, <2>2, TookFirst DEF Receiving
  <2>4. e \in Dirs /\ e # p
    BY <2>1, <2>3 DEF Follows, Plain, DirectoryAssumption
  <2> QED
    BY <1>3, <2>2, <2>4
<1>5. CASE RecvFile
  <2>1. PICK f : f = Head(up).path
    OBVIOUS
  <2>2. worker = "frames" /\ Took("file") /\ (dest' = dest \/ dest' = [dest EXCEPT ![Partial[f]] = File(<<>>)])
    BY <1>5, <2>1 DEF RecvFile, Create, Staging, DiskError, Reject
  <2>3. Head(up).type = "file" /\ Follows(WorkerAt, Head(up))
    BY <1>1, <2>2, TookFirst DEF Receiving
  <2>4. f \in Files
    BY <2>1, <2>3 DEF Follows, Plain
  <2> QED
    BY <1>3, <2>2, <2>4
<1>6. CASE RecvUnit
  <2>1. worker = "data" /\ (dest' = dest \/ \E e : dest' = [dest EXCEPT ![Partial[incoming.path]] = e])
    BY <1>6 DEF RecvUnit, Staging, DiskError, Reject
  <2>2. incoming.path \in Files
    BY <1>1, <2>1 DEF TaskFiles
  <2> QED
    BY <1>3, <2>1, <2>2
<1>7. CASE RecvLast
  <2>1. PICK f : f = incoming.path
    OBVIOUS
  <2>2. /\ worker = "data" /\ incoming.left = 0
        /\ \/ dest' = dest \/ dest' = [dest EXCEPT ![Partial[f]] = Absent]
           \/ dest' = [dest EXCEPT ![f] = dest[Partial[f]], ![Partial[f]] = Absent]
    BY <1>7, <2>1 DEF RecvLast, Commit, Renamed, Staging, DiskError, Reject
  <2>3. f \in Files /\ Size[f] \in Nat /\ dest[Partial[f]] = File(Content(f, Size[f] - incoming.left))
    BY <1>1, <2>1, <2>2 DEF TaskFiles, DirectoryAssumption, Staging
  <2>4. Size[f] - incoming.left = Size[f]
    BY <2>2, <2>3
  <2>5. dest[Partial[f]] = File(Content(f, Size[f]))
    BY <2>3, <2>4
  <2> QED
    BY <1>3, <2>2, <2>3, <2>5
<1>8. CASE RecvStart \/ RecvPack \/ RecvEnd \/ RecvCut \/ WriteAck \/ WriteAckFails
  BY <1>8 DEF RecvStart, RecvPack, RecvEnd, RecvCut, WriteAck, WriteAckFails, DiskError, Reject, workerVars
<1> QED
  BY <1>2, <1>4, <1>5, <1>6, <1>7, <1>8 DEF Receives

\* A file appears whole or not at all, also when the sender, the disk or the
\* connection fails in between, and whatever names the source has.
THEOREM FilesWholeCorrect == Spec => FilesAppearWhole
<1>1. IInv /\ [Next]_vars =>
         [\A p \in Files \ {Partial[q] : q \in Files} :
             dest'[p] # dest[p] => dest'[p] = File(Content(p, Size[p]))]_vars
  BY DirectoryAssumption, WholeStep
<1> QED
  BY <1>1, InvariantHolds, PTL DEF Spec, FilesAppearWhole
=============================================================================
