------------------------ MODULE DaemonServiceProofs ------------------------
(***************************************************************************)
(* Theorems about DaemonService, for any number of sessions, any files and *)
(* any threshold.                                                          *)
(*                                                                         *)
(* A session that has had the files to itself knows what it opened, where  *)
(* that is, and what it has put there; the sessions that are not Busy      *)
(* leave the directory alone.                                              *)
(***************************************************************************)
EXTENDS DaemonService, TLAPS

\* The destination and the part file are never one inode.
Apart == Exists("dest") => dir["part"] # dir["dest"]

\* What a session has decided, whatever others do.
Decided(s) ==
    /\ client[s] = "off" => state[s] = "none" /\ pos[s] = 0 /\ plan[s].offset = 0
    /\ refuse /\ ~wresume /\ Busy(s) => ~asked[s] \/ resume[s]
    /\ state[s] = "resuming" => resume[s]
    /\ state[s] \in {"triggered", "receiving", "hashing", "renaming"} /\ ~resume[s] =>
          plan[s].offset = 0 /\ plan[s].usePart = UsePart(s)

Single == \A s, o \in Sessions : s # o /\ Busy(s) /\ Busy(o) => ~alone[s]

\* What the session s is writing, seen under its name.
Written(s) == Content(Target(plan[s]))

Owns(s) ==
    /\ state[s] \in {"receiving", "hashing"} =>
          /\ Exists(Target(plan[s])) /\ fd[s] = dir[Target(plan[s])]
          /\ plan[s].offset = 0 =>
                /\ Len(Written(s)) = pos[s]
                /\ \A i \in 1 .. pos[s] : Written(s)[i] = file[s][i]
    /\ state[s] = "hashing" => pos[s] = Len(file[s])
    /\ state[s] = "renaming" =>
          Exists(Target(plan[s])) /\ (s \notin unread => Written(s) = file[s])

IInv ==
    /\ TypeOK
    /\ Apart
    /\ \A s \in Sessions : Decided(s)
    /\ Single
    /\ \A s \in Sessions : alone[s] => Owns(s)

-----------------------------------------------------------------------------
\* Types

\* A hole is a unit of content.
LEMMA HoleIsUnit == Hole \in Unit
BY DEF Unit

\* One content changes, at most.
LEMMA ReplaceType ==
    ASSUME NEW contents \in Seq(Seq(Unit)), NEW n, NEW new \in Seq(Unit)
    PROVE  /\ [contents EXCEPT ![n] = new] \in Seq(Seq(Unit))
           /\ Len([contents EXCEPT ![n] = new]) = Len(contents)
<1> DEFINE changed == [contents EXCEPT ![n] = new]
<1>1. changed = [i \in 1 .. Len(contents) |-> IF i = n THEN new ELSE contents[i]]
  OBVIOUS
<1>2. \A i \in 1 .. Len(contents) : (IF i = n THEN new ELSE contents[i]) \in Seq(Unit)
  OBVIOUS
<1>3. Len(contents) \in Nat
  OBVIOUS
<1> HIDE DEF changed
<1>4. changed \in Seq(Seq(Unit)) /\ Len(changed) = Len(contents)
  BY <1>1, <1>2, <1>3
<1> QED
  BY <1>4 DEF changed

\* No content changes where there is none.
LEMMA ReplaceNothing ==
    ASSUME NEW contents \in Seq(Seq(Unit)), NEW n, n \notin 1 .. Len(contents), NEW new
    PROVE  [contents EXCEPT ![n] = new] = contents
OBVIOUS

\* A write puts one unit at its place and lengthens the content up to there.
LEMMA PutType ==
    ASSUME NEW content \in Seq(Unit), NEW i \in Nat \ {0}, NEW unit \in Unit
    PROVE  /\ Put(content, i, unit) \in Seq(Unit)
           /\ Len(Put(content, i, unit)) = IF i > Len(content) THEN i ELSE Len(content)
           /\ \A k \in 1 .. Len(Put(content, i, unit)) :
                 Put(content, i, unit)[k] =
                    IF k = i THEN unit ELSE IF k <= Len(content) THEN content[k] ELSE Hole
<1> DEFINE n == IF i > Len(content) THEN i ELSE Len(content)
<1>1. n \in Nat
  OBVIOUS
<1>2. \A k \in 1 .. n : (IF k = i THEN unit ELSE IF k <= Len(content) THEN content[k] ELSE Hole) \in Unit
  BY HoleIsUnit
<1>3. Put(content, i, unit) = [k \in 1 .. n |->
        IF k = i THEN unit ELSE IF k <= Len(content) THEN content[k] ELSE Hole]
  BY DEF Put
<1> QED
  BY <1>1, <1>2, <1>3

\* What begins like a file does so with the file's next unit put behind it.
LEMMA PutExtends ==
    ASSUME NEW f \in Seq(Unit), NEW content \in Seq(Unit), NEW n \in Nat, n < Len(f),
           Len(content) = n, \A i \in 1 .. n : content[i] = f[i]
    PROVE  /\ Len(Put(content, n + 1, f[n + 1])) = n + 1
           /\ \A i \in 1 .. n + 1 : Put(content, n + 1, f[n + 1])[i] = f[i]
<1>1. f[n + 1] \in Unit /\ n + 1 \in Nat \ {0} /\ n + 1 > Len(content)
  OBVIOUS
<1> DEFINE unit(k) == IF k = n + 1 THEN f[n + 1] ELSE IF k <= Len(content) THEN content[k] ELSE Hole
<1>2. Put(content, n + 1, f[n + 1]) = [k \in 1 .. n + 1 |-> unit(k)]
  BY <1>1 DEF Put
<1>3. \A k \in 1 .. n + 1 : unit(k) = f[k] /\ unit(k) \in Unit
  OBVIOUS
<1> HIDE DEF unit
<1>4. [k \in 1 .. n + 1 |-> unit(k)] \in Seq(Unit) /\ Len([k \in 1 .. n + 1 |-> unit(k)]) = n + 1
  BY <1>1, <1>3
<1> QED
  BY <1>2, <1>3, <1>4

\* What can be resumed is never longer than the file.
LEMMA ResumeFromType ==
    ASSUME TypeOK, NEW s \in Sessions
    PROVE  /\ ResumeFrom(s) \in [offset : Nat, usePart : BOOLEAN, same : BOOLEAN]
           /\ ResumeFrom(s).offset <= Len(file[s])
<1>1. Len(file[s]) \in Nat
  BY DaemonAssumption DEF TypeOK
<1>2. Exists("part") => Len(Content("part")) \in Nat
  BY DEF TypeOK, Exists, Content
<1> QED
  BY <1>1, <1>2 DEF ResumeFrom, From

\* What a daemon finds at its start is of its type.
LEMMA InitType == Init => TypeOK
<1> SUFFICES ASSUME Init PROVE TypeOK
  OBVIOUS
<1>1. PICK before \in Before :
        /\ inodes = IF before = None THEN <<>> ELSE <<before>>
        /\ dir = [n \in {"part", "dest"} |-> IF n = "dest" /\ before # None THEN 1 ELSE 0]
  BY DEF Init
<1>2. inodes \in Seq(Seq(Unit)) /\ dir \in [{"part", "dest"} -> 0 .. Len(inodes)]
  <2>1. CASE before = None
    BY <1>1, <2>1
  <2>2. CASE before # None
    BY <1>1, <2>2, DaemonAssumption
  <2> QED
    BY <2>1, <2>2
<1>3. (CHOOSE f \in Files : TRUE) \in Files
  BY DaemonAssumption
<1>4. file \in [Sessions -> Files] /\ \A s \in Sessions : Len(file[s]) \in Nat
  BY <1>3, DaemonAssumption DEF Init
<1>5. \A s \in Sessions : pos[s] = 0 /\ plan[s] = From(0, FALSE) /\ fd[s] = 0
  BY DEF Init
<1>6. plan \in [Sessions -> [offset : Nat, usePart : BOOLEAN, same : BOOLEAN]]
  BY DEF Init, From
<1>7. \A s \in Sessions : pos[s] <= Len(file[s]) /\ plan[s].offset <= Len(file[s])
  <2>1. From(0, FALSE).offset = 0
    BY DEF From
  <2>2. \A s \in Sessions : pos[s] = 0 /\ plan[s].offset = 0 /\ Len(file[s]) \in Nat
    BY <1>4, <1>5, <2>1
  <2>3. \A n \in Nat : 0 <= n
    OBVIOUS
  <2> QED
    BY <2>2, <2>3, Zenon
<1>8. /\ refuse \in BOOLEAN /\ wresume \in BOOLEAN /\ unread = {} /\ client = [s \in Sessions |-> "off"]
      /\ resume = [s \in Sessions |-> FALSE] /\ up = [s \in Sessions |-> FALSE]
      /\ state = [s \in Sessions |-> "none"]
      /\ fd = [s \in Sessions |-> 0] /\ pos = [s \in Sessions |-> 0]
      /\ outcome = [s \in Sessions |-> "none"]
      /\ alone = [s \in Sessions |-> TRUE] /\ asked = [s \in Sessions |-> FALSE]
  BY DEF Init
<1>9. fd \in [Sessions -> 0 .. Len(inodes)] /\ pos \in [Sessions -> Nat]
  BY <1>2, <1>8
<1> QED
  BY <1>2, <1>4, <1>6, <1>7, <1>8, <1>9 DEF TypeOK, Outcomes

\* Opening creates at most one empty file, or empties one.
LEMMA OpenFileType ==
    ASSUME TypeOK, NEW s \in Sessions, NEW n \in {"part", "dest"}, NEW truncate \in BOOLEAN,
           OpenFile(s, n, truncate)
    PROVE  /\ inodes' \in Seq(Seq(Unit)) /\ dir' \in [{"part", "dest"} -> 0 .. Len(inodes')]
           /\ fd' \in [Sessions -> 0 .. Len(inodes')]
           /\ dir'[n] # 0 /\ fd'[s] = dir'[n]
           /\ truncate => inodes'[dir'[n]] = <<>>
           /\ Apart => Apart'
<1>1. /\ inodes \in Seq(Seq(Unit)) /\ dir \in [{"part", "dest"} -> 0 .. Len(inodes)]
      /\ fd \in [Sessions -> 0 .. Len(inodes)] /\ Len(inodes) \in Nat
  BY DEF TypeOK
<1>2. CASE Exists(n)
  <2>1. /\ inodes' = IF truncate THEN [inodes EXCEPT ![dir[n]] = <<>>] ELSE inodes
        /\ fd' = [fd EXCEPT ![s] = dir[n]] /\ dir' = dir /\ dir[n] \in 1 .. Len(inodes)
    BY <1>1, <1>2 DEF OpenFile, Exists
  <2>2. inodes' \in Seq(Seq(Unit)) /\ Len(inodes') = Len(inodes)
        /\ (truncate => inodes'[dir[n]] = <<>>)
    BY <1>1, <2>1
  <2>3. dir' \in [{"part", "dest"} -> 0 .. Len(inodes')] /\ fd' \in [Sessions -> 0 .. Len(inodes')]
    BY <1>1, <2>1, <2>2
  <2>4. fd'[s] = dir'[n] /\ dir'[n] # 0
    BY <1>1, <2>1
  <2>5. (truncate => inodes'[dir'[n]] = <<>>) /\ (Apart => Apart')
    BY <2>1, <2>2, <2>4 DEF Exists, Apart
  <2> QED
    BY <2>2, <2>3, <2>4, <2>5
<1>3. CASE ~Exists(n)
  <2>1. inodes' = Append(inodes, <<>>) /\ dir' = [dir EXCEPT ![n] = Len(inodes) + 1]
        /\ fd' = [fd EXCEPT ![s] = Len(inodes) + 1]
    BY <1>3 DEF OpenFile
  <2>2. inodes' \in Seq(Seq(Unit)) /\ Len(inodes') = Len(inodes) + 1
        /\ inodes'[Len(inodes) + 1] = <<>>
    BY <1>1, <2>1
  <2>3. dir' \in [{"part", "dest"} -> 0 .. Len(inodes')] /\ fd' \in [Sessions -> 0 .. Len(inodes')]
    BY <1>1, <2>1, <2>2
  <2>4. fd'[s] = dir'[n] /\ dir'[n] = Len(inodes) + 1 /\ dir'[n] # 0
    BY <1>1, <2>1
  <2>5. (truncate => inodes'[dir'[n]] = <<>>)
    BY <2>2, <2>4
  <2>6. Apart => Apart'
    BY <1>1, <2>1 DEF Apart, Exists
  <2> QED
    BY <2>2, <2>3, <2>4, <2>5, <2>6
<1> QED
  BY <1>2, <1>3

\* RESTART_FROM_ZERO empties the part file, or creates it; nothing else changes.
LEMMA ResumeDiskType ==
    ASSUME TypeOK, NEW s \in Sessions, Resume(s)
    PROVE  /\ inodes' \in Seq(Seq(Unit)) /\ dir' \in [{"part", "dest"} -> 0 .. Len(inodes')]
           /\ fd \in [Sessions -> 0 .. Len(inodes')]
           /\ Apart => Apart'
<1>1. /\ inodes \in Seq(Seq(Unit)) /\ dir \in [{"part", "dest"} -> 0 .. Len(inodes)]
      /\ fd \in [Sessions -> 0 .. Len(inodes)] /\ Len(inodes) \in Nat
  BY DEF TypeOK
<1>2. CASE UNCHANGED disk
  BY <1>1, <1>2 DEF disk, Apart, Exists
<1>3. CASE inodes' = [inodes EXCEPT ![dir["part"]] = <<>>] /\ UNCHANGED dir
  <2>1. inodes' \in Seq(Seq(Unit)) /\ Len(inodes') = Len(inodes)
    BY <1>1, <1>3, ReplaceType, <<>> \in Seq(Unit)
  <2> QED
    BY <1>1, <1>3, <2>1 DEF Apart, Exists
<1>4. CASE inodes' = Append(inodes, <<>>) /\ dir' = [dir EXCEPT !["part"] = Len(inodes) + 1]
  <2>1. inodes' \in Seq(Seq(Unit)) /\ Len(inodes') = Len(inodes) + 1
    BY <1>1, <1>4
  <2>2. Apart'
    BY <1>1, <1>4 DEF Apart, Exists
  <2>3. dir' \in [{"part", "dest"} -> 0 .. Len(inodes')] /\ fd \in [Sessions -> 0 .. Len(inodes')]
    BY <1>1, <1>4, <2>1
  <2> QED
    BY <2>1, <2>2, <2>3
<1> QED
  BY <1>2, <1>3, <1>4 DEF Resume, EmptyPart

\* Every step of a session keeps the types.
LEMMA TypeStep == IInv /\ [Next]_vars => TypeOK'
<1> SUFFICES ASSUME IInv, [Next]_vars PROVE TypeOK'
  OBVIOUS
<1> TypeOK
  BY DEF IInv
<1> USE DEF options
<1>1. CASE UNCHANGED vars
  BY <1>1 DEF TypeOK, vars, disk, request, writer, history
<1>2. ASSUME NEW s \in Sessions, Connect(s) PROVE TypeOK'
  <2>1. client[s] = "off" /\ pos[s] = 0 /\ plan[s].offset = 0
    BY <1>2 DEF IInv, Decided, Connect
  <2>2. PICK f \in Files : file' = [file EXCEPT ![s] = f]
    BY <1>2 DEF Connect
  <2>3. Len(f) \in Nat
    BY DaemonAssumption
  <2>4. \A t \in Sessions : pos[t] <= Len(file'[t]) /\ plan[t].offset <= Len(file'[t])
    BY <2>1, <2>2, <2>3 DEF TypeOK
  <2> QED
    BY <1>2, <2>2, <2>4 DEF Connect, Becomes, TypeOK, disk, writer, history
<1>3. ASSUME NEW s \in Sessions, HandshakeFails(s) \/ ClientNext(s) PROVE TypeOK'
  BY <1>3 DEF HandshakeFails, ClientNext, OfferFile, HearReport, GiveUp, Becomes, TypeOK, Outcomes,
              disk, request, writer, history
<1>4. ASSUME NEW s \in Sessions, TakeStreams(s) \/ StreamsEnd(s) \/ Interrupted(s) \/ Received(s)
                              \/ Verify(s) \/ HashLost(s) \/ End(s) PROVE TypeOK'
  BY <1>4 DEF TakeStreams, StreamsEnd, Interrupted, Received, Verify, HashLost, End, Reports,
              Becomes, TypeOK, Outcomes, disk, request, writer, history
<1>5. ASSUME NEW s \in Sessions, Decide(s) PROVE TypeOK'
  <2>1. /\ state' = [state EXCEPT ![s] = "reported"] \/ state' = [state EXCEPT ![s] = "accepted"]
        /\ outcome' = [outcome EXCEPT ![s] = "RejectedUnwanted"] \/ outcome' = outcome
    BY <1>5 DEF Decide, Becomes
  <2>2. asked' \in [Sessions -> BOOLEAN]
    BY <1>5 DEF Decide, Exists, TypeOK
  <2>3. alone' \in [Sessions -> BOOLEAN]
    BY <1>5 DEF Decide, TypeOK
  <2>4. UNCHANGED <<refuse, wresume, inodes, dir, client, file, resume, up, plan, fd, pos, unread>>
    BY <1>5 DEF Decide, disk, request, writer
  <2> QED
    BY <2>1, <2>2, <2>3, <2>4 DEF TypeOK, Outcomes
<1>6. ASSUME NEW s \in Sessions, Accept(s) PROVE TypeOK'
  <2> DEFINE from == ResumeFrom(s)
             resumed(b) == [from EXCEPT !.same = b]
  <2>1. from \in [offset : Nat, usePart : BOOLEAN, same : BOOLEAN] /\ from.offset <= Len(file[s])
    BY ResumeFromType
  <2>2. \A b \in BOOLEAN :
          /\ resumed(b) \in [offset : Nat, usePart : BOOLEAN, same : BOOLEAN]
          /\ resumed(b).offset = from.offset
    BY <2>1
  <2>3. /\ From(0, UsePart(s)) \in [offset : Nat, usePart : BOOLEAN, same : BOOLEAN]
        /\ From(0, UsePart(s)).offset = 0
    BY DEF From, UsePart
  <2>4. Len(file[s]) \in Nat
    BY DaemonAssumption DEF TypeOK
  <2>5. \/ \E b \in BOOLEAN : plan' = [plan EXCEPT ![s] = resumed(b)]
        \/ plan' = [plan EXCEPT ![s] = From(0, UsePart(s))]
    BY <1>6 DEF Accept
  <2> HIDE DEF from, resumed
  <2>6. PICK p \in [offset : Nat, usePart : BOOLEAN, same : BOOLEAN] :
          plan' = [plan EXCEPT ![s] = p] /\ p.offset <= Len(file[s])
    BY <2>1, <2>2, <2>3, <2>4, <2>5
  <2>7. /\ plan' \in [Sessions -> [offset : Nat, usePart : BOOLEAN, same : BOOLEAN]]
        /\ \A t \in Sessions : plan'[t].offset <= Len(file[t])
    BY <2>6 DEF TypeOK
  <2> QED
    BY <1>6, <2>7 DEF Accept, Becomes, TypeOK, disk, request, history
<1>7. ASSUME NEW s \in Sessions, Resume(s) PROVE TypeOK'
  <2>1. /\ plan' \in [Sessions -> [offset : Nat, usePart : BOOLEAN, same : BOOLEAN]]
        /\ \A t \in Sessions : plan'[t].offset <= Len(file[t])
    <3>1. Len(file[s]) \in Nat
      BY DaemonAssumption DEF TypeOK
    <3>2. plan' = plan \/ plan' = [plan EXCEPT ![s].offset = 0]
      BY <1>7 DEF Resume
    <3>3. CASE plan' = plan
      BY <3>3 DEF TypeOK
    <3>4. CASE plan' = [plan EXCEPT ![s].offset = 0]
      <4>1. plan[s] \in [offset : Nat, usePart : BOOLEAN, same : BOOLEAN]
        BY DEF TypeOK
      <4>2. /\ [plan[s] EXCEPT !.offset = 0] \in [offset : Nat, usePart : BOOLEAN, same : BOOLEAN]
            /\ [plan[s] EXCEPT !.offset = 0].offset = 0
        BY <4>1
      <4>3. plan' = [plan EXCEPT ![s] = [plan[s] EXCEPT !.offset = 0]]
        BY <3>4 DEF TypeOK
      <4> QED
        BY <3>1, <4>2, <4>3 DEF TypeOK
    <3> QED
      BY <3>2, <3>3, <3>4
  <2>2. /\ inodes' \in Seq(Seq(Unit)) /\ dir' \in [{"part", "dest"} -> 0 .. Len(inodes')]
        /\ fd \in [Sessions -> 0 .. Len(inodes')]
    BY <1>7, ResumeDiskType
  <2> QED
    BY <1>7, <2>1, <2>2 DEF Resume, Becomes, TypeOK, request, history
<1>8. ASSUME NEW s \in Sessions, Open(s) PROVE TypeOK'
  <2>1. CASE OpenFile(s, Target(plan[s]), plan[s].offset = 0) /\ Becomes(s, "receiving")
             /\ pos' = [pos EXCEPT ![s] = plan[s].offset] /\ UNCHANGED outcome
    <3>1. /\ inodes' \in Seq(Seq(Unit)) /\ dir' \in [{"part", "dest"} -> 0 .. Len(inodes')]
          /\ fd' \in [Sessions -> 0 .. Len(inodes')]
      BY <2>1, OpenFileType, Target(plan[s]) \in {"part", "dest"}, (plan[s].offset = 0) \in BOOLEAN
         DEF Target
    <3>2. pos' \in [Sessions -> Nat] /\ \A t \in Sessions : pos'[t] <= Len(file[t])
      BY <2>1 DEF TypeOK
    <3> QED
      BY <1>8, <2>1, <3>1, <3>2 DEF Open, Becomes, TypeOK, request, history
  <2>2. CASE Reports(s, "Etc") /\ UNCHANGED <<disk, fd, pos>>
    BY <1>8, <2>2 DEF Open, Reports, Becomes, TypeOK, Outcomes, disk, request, history
  <2> QED
    BY <1>8, <2>1, <2>2 DEF Open
<1>9. ASSUME NEW s \in Sessions, Receive(s) PROVE TypeOK'
  <2>1. file[s] \in Seq(Unit) /\ pos[s] \in Nat /\ pos[s] < Len(file[s])
    BY <1>9, DaemonAssumption DEF Receive, TypeOK
  <2>2. file[s][pos[s] + 1] \in Unit /\ pos[s] + 1 \in Nat \ {0}
    BY <2>1
  <2>3. inodes' \in Seq(Seq(Unit)) /\ Len(inodes') = Len(inodes)
    <3> DEFINE new == Put(inodes[fd[s]], pos[s] + 1, file[s][pos[s] + 1])
    <3>1. inodes' = [inodes EXCEPT ![fd[s]] = new]
      BY <1>9 DEF Receive
    <3>2. CASE fd[s] \in 1 .. Len(inodes)
      <4> inodes[fd[s]] \in Seq(Unit)
        BY <3>2 DEF TypeOK
      <4>1. new \in Seq(Unit)
        BY <2>2, PutType
      <4>2. inodes \in Seq(Seq(Unit))
        BY DEF TypeOK
      <4> HIDE DEF new
      <4> QED
        BY <3>1, <4>1, <4>2, ReplaceType
    <3>3. CASE fd[s] \notin 1 .. Len(inodes)
      BY <3>1, <3>3, ReplaceNothing DEF TypeOK
    <3> QED
      BY <3>2, <3>3
  <2>4. pos' \in [Sessions -> Nat] /\ \A t \in Sessions : pos'[t] <= Len(file[t])
    BY <1>9, <2>1 DEF Receive, TypeOK
  <2> QED
    BY <1>9, <2>3, <2>4 DEF Receive, TypeOK, request, history
<1>10. ASSUME NEW s \in Sessions, Finish(s) PROVE TypeOK'
  <2>1. dir' \in [{"part", "dest"} -> 0 .. Len(inodes)]
    BY <1>10 DEF Finish, TypeOK
  <2>2. /\ state' = [state EXCEPT ![s] = "reported"]
        /\ outcome' = [outcome EXCEPT ![s] = "Completed"] \/ outcome' = [outcome EXCEPT ![s] = "HashFailed"]
    BY <1>10 DEF Finish, Reports, Becomes
  <2>3. UNCHANGED <<refuse, wresume, inodes, client, file, resume, up, plan, fd, pos, alone, asked, unread>>
    BY <1>10 DEF Finish, request, writer, history
  <2> QED
    BY <2>1, <2>2, <2>3 DEF TypeOK, Outcomes
<1> QED
  BY <1>1, <1>2, <1>3, <1>4, <1>5, <1>6, <1>7, <1>8, <1>9, <1>10
     DEF Next, SessionNext, Listening

-----------------------------------------------------------------------------
\* The other parts of the invariant

\* Only a rename gives the destination the part file's inode, and takes it
\* from the part file.
LEMMA ApartStep == IInv /\ [Next]_vars => Apart'
<1> SUFFICES ASSUME IInv, [Next]_vars PROVE Apart'
  OBVIOUS
<1>1. TypeOK /\ Apart
  BY DEF IInv
<1>2. CASE UNCHANGED dir
  BY <1>1, <1>2 DEF Apart, Exists
<1>3. ASSUME NEW s \in Sessions, Resume(s) PROVE Apart'
  BY <1>1, <1>3, ResumeDiskType
<1>4. ASSUME NEW s \in Sessions, OpenFile(s, Target(plan[s]), plan[s].offset = 0) PROVE Apart'
  BY <1>1, <1>4, OpenFileType, Target(plan[s]) \in {"part", "dest"}, (plan[s].offset = 0) \in BOOLEAN
     DEF Target
<1>5. ASSUME NEW s \in Sessions, Finish(s), dir' = [dir EXCEPT !["dest"] = dir["part"], !["part"] = 0]
      PROVE Apart'
  BY <1>1, <1>5 DEF Apart, Exists, TypeOK
<1>6. UNCHANGED dir \/ \E s \in Sessions :
        \/ Resume(s) \/ OpenFile(s, Target(plan[s]), plan[s].offset = 0)
        \/ (Finish(s) /\ dir' = [dir EXCEPT !["dest"] = dir["part"], !["part"] = 0])
  <2>1. CASE UNCHANGED vars
    BY <2>1 DEF vars
  <2>2. ASSUME NEW s \in Sessions,
               Connect(s) \/ HandshakeFails(s) \/ ClientNext(s) \/ StreamsEnd(s) \/ TakeStreams(s)
               \/ Decide(s) \/ Accept(s) \/ Receive(s) \/ Interrupted(s) \/ Received(s) \/ Verify(s)
               \/ HashLost(s) \/ End(s)
        PROVE UNCHANGED dir
    BY <2>2 DEF Connect, HandshakeFails, ClientNext, OfferFile, HearReport, GiveUp, StreamsEnd,
                TakeStreams, Decide, Accept, Receive, Interrupted, Received, Verify, HashLost, End, disk
  <2>3. ASSUME NEW s \in Sessions, Finish(s)
        PROVE UNCHANGED dir \/ dir' = [dir EXCEPT !["dest"] = dir["part"], !["part"] = 0]
    BY <2>3 DEF Finish
  <2>4. ASSUME NEW s \in Sessions, Open(s)
        PROVE UNCHANGED dir \/ OpenFile(s, Target(plan[s]), plan[s].offset = 0)
    BY <2>4 DEF Open, disk
  <2> QED
    BY <2>1, <2>2, <2>3, <2>4 DEF Next, SessionNext, Listening
<1> QED
  BY <1>2, <1>3, <1>4, <1>5, <1>6

\* A step is one session's: what belongs to the others stays, but that a Decide
\* takes the files from those that had them.
LEMMA OthersKeep ==
    ASSUME TypeOK, NEW s \in Sessions,
           Connect(s) \/ HandshakeFails(s) \/ ClientNext(s) \/ StreamsEnd(s) \/ SessionNext(s),
           NEW t \in Sessions, t # s
    PROVE  /\ client'[t] = client[t] /\ file'[t] = file[t] /\ resume'[t] = resume[t]
           /\ state'[t] = state[t] /\ plan'[t] = plan[t] /\ pos'[t] = pos[t] /\ fd'[t] = fd[t]
           /\ asked'[t] = asked[t] /\ outcome'[t] = outcome[t] /\ (t \in unread' <=> t \in unread)
           /\ UNCHANGED <<refuse, wresume>>
<1> USE DEF options, TypeOK, Becomes, disk, request, writer, history
<1>1. CASE Connect(s)
  BY <1>1 DEF Connect
<1>2. CASE HandshakeFails(s)
  BY <1>2 DEF HandshakeFails
<1>3. CASE ClientNext(s)
  BY <1>3 DEF ClientNext, OfferFile, HearReport, GiveUp
<1>4. CASE StreamsEnd(s) \/ TakeStreams(s) \/ Accept(s) \/ End(s)
  BY <1>4 DEF StreamsEnd, TakeStreams, Accept, End
<1>5. CASE Decide(s)
  BY <1>5 DEF Decide
<1>6. CASE Resume(s)
  BY <1>6 DEF Resume
<1>7. CASE Open(s)
  BY <1>7 DEF Open, OpenFile, Reports
<1>8. CASE Receive(s)
  BY <1>8 DEF Receive
<1>9. CASE Interrupted(s) \/ Received(s) \/ Verify(s) \/ HashLost(s) \/ Finish(s)
  BY <1>9 DEF Interrupted, Received, Verify, HashLost, Finish, Reports
<1> QED
  BY <1>1, <1>2, <1>3, <1>4, <1>5, <1>6, <1>7, <1>8, <1>9 DEF SessionNext

\* A session keeps to what it decided: nobody but itself changes it.
LEMMA DecidedStep == IInv /\ [Next]_vars => \A s \in Sessions : Decided(s)'
<1> SUFFICES ASSUME IInv, [Next]_vars, NEW t \in Sessions PROVE Decided(t)'
  OBVIOUS
<1> USE DEF options
<1>1. TypeOK /\ Decided(t)
  BY DEF IInv
<1>2. CASE UNCHANGED vars
  BY <1>1, <1>2 DEF vars, Decided, Busy, UsePart, disk, request, writer, history
<1>3. ASSUME NEW s \in Sessions, s # t,
             Connect(s) \/ HandshakeFails(s) \/ ClientNext(s) \/ StreamsEnd(s) \/ SessionNext(s)
      PROVE Decided(t)'
  BY <1>1, <1>3, OthersKeep DEF Decided, Busy, UsePart
<1>4. ASSUME Connect(t) \/ HandshakeFails(t) PROVE Decided(t)'
  BY <1>1, <1>4 DEF Connect, HandshakeFails, Decided, Busy, Becomes, TypeOK
<1>5. ASSUME ClientNext(t) PROVE Decided(t)'
  <2>1. client[t] # "off" /\ UNCHANGED <<refuse, wresume, file, resume, state, plan, pos, asked>>
    BY <1>5 DEF ClientNext, OfferFile, HearReport, GiveUp, request, writer, history
  <2>2. client'[t] # "off"
    BY <1>1, <1>5 DEF ClientNext, OfferFile, HearReport, GiveUp, TypeOK, Outcomes
  <2> QED
    BY <1>1, <2>1, <2>2 DEF Decided, Busy, UsePart
<1>6. ASSUME StreamsEnd(t) \/ TakeStreams(t) \/ End(t) PROVE Decided(t)'
  BY <1>1, <1>6 DEF StreamsEnd, TakeStreams, End, Ending, Decided, Busy, UsePart, Becomes, TypeOK,
                    request, writer, history
<1>7. ASSUME Decide(t) PROVE Decided(t)'
  BY <1>1, <1>7 DEF Decide, Refused, Exists, Decided, Busy, UsePart, Becomes, TypeOK, request, writer
<1>8. ASSUME Accept(t) PROVE Decided(t)'
  <2>1. CASE UsePart(t) /\ resume[t] /\ ResumeFrom(t).offset > 0
    BY <1>1, <1>8, <2>1 DEF Accept, Decided, Busy, Becomes, TypeOK, request, history
  <2>2. CASE ~(UsePart(t) /\ resume[t] /\ ResumeFrom(t).offset > 0)
    <3>1. plan'[t] = From(0, UsePart(t)) /\ state'[t] = "triggered"
      BY <1>1, <1>8, <2>2 DEF Accept, Becomes, TypeOK
    <3>2. plan'[t].offset = 0 /\ plan'[t].usePart = UsePart(t)
      BY <3>1 DEF From
    <3> QED
      BY <1>1, <1>8, <3>1, <3>2 DEF Accept, Decided, Busy, UsePart, request, history
  <2> QED
    BY <2>1, <2>2
<1>9. ASSUME Resume(t) PROVE Decided(t)'
  BY <1>1, <1>9 DEF Resume, Decided, Busy, Becomes, TypeOK, request, history
<1>10. ASSUME Open(t) \/ Receive(t) PROVE Decided(t)'
  BY <1>1, <1>10 DEF Open, Reports, Receive, Decided, Busy, UsePart, Becomes, TypeOK, request, history
<1>11. ASSUME Interrupted(t) \/ Received(t) \/ Verify(t) \/ HashLost(t) \/ Finish(t) PROVE Decided(t)'
  BY <1>1, <1>11 DEF Interrupted, Received, Verify, HashLost, Finish, Reports, Decided, Busy, UsePart,
                     Becomes, TypeOK, request, writer, history
<1> QED
  BY <1>2, <1>3, <1>4, <1>5, <1>6, <1>7, <1>8, <1>9, <1>10, <1>11 DEF Next, SessionNext, Listening

\* Nobody gets the files but by Decide, and it says who shares them.
LEMMA SingleStep == IInv /\ [Next]_vars => Single'
<1> SUFFICES ASSUME IInv, [Next]_vars PROVE Single'
  OBVIOUS
<1>1. TypeOK /\ Single
  BY DEF IInv
<1>2. CASE UNCHANGED <<state, alone>>
  BY <1>1, <1>2 DEF Single, Busy
<1>3. ASSUME NEW s \in Sessions, state'[s] \in {"none", "accept", "offer", "reported", "done"} \/ Busy(s),
             state' = [state EXCEPT ![s] = state'[s]], UNCHANGED alone
      PROVE Single'
  BY <1>1, <1>3 DEF Single, Busy, TypeOK
<1>4. ASSUME NEW s \in Sessions, Decide(s), ~Refused(s) PROVE Single'
  <2>1. state' = [state EXCEPT ![s] = "accepted"]
    BY <1>4 DEF Decide, Becomes
  <2>2. CASE \E o \in Sessions \ {s} : Busy(o)
    <3>1. alone' = [o \in Sessions |-> alone[o] /\ ~Busy(o) /\ o # s]
      BY <1>4, <2>2 DEF Decide
    <3>2. \A o \in Sessions : Busy(o)' => ~alone'[o]
      BY <1>1, <2>1, <3>1 DEF Busy, TypeOK
    <3> QED
      BY <3>2 DEF Single
  <2>3. CASE ~\E o \in Sessions \ {s} : Busy(o)
    BY <1>1, <2>1, <2>3 DEF Single, Busy, TypeOK
  <2> QED
    BY <2>2, <2>3
<1>5. CASE UNCHANGED vars
  BY <1>2, <1>5 DEF vars, history
<1>6. ASSUME NEW s \in Sessions, Connect(s) \/ HandshakeFails(s) \/ StreamsEnd(s) \/ TakeStreams(s)
                              \/ (Decide(s) /\ Refused(s)) \/ End(s)
      PROVE Single'
  BY <1>1, <1>3, <1>6 DEF Connect, HandshakeFails, StreamsEnd, TakeStreams, Decide, End, Becomes,
                          TypeOK, history
<1>7. ASSUME NEW s \in Sessions, ClientNext(s) \/ Receive(s) PROVE Single'
  BY <1>2, <1>7 DEF ClientNext, OfferFile, HearReport, GiveUp, Receive, history
<1>8. ASSUME NEW s \in Sessions, Accept(s) \/ Resume(s) \/ Open(s) \/ Interrupted(s) \/ Received(s)
                              \/ Verify(s) \/ HashLost(s) \/ Finish(s)
      PROVE Single'
  <2>1. Busy(s) /\ UNCHANGED alone
    BY <1>8 DEF Accept, Resume, Open, Interrupted, Received, Verify, HashLost, Finish, Busy, history
  <2>2. state' = [state EXCEPT ![s] = state'[s]]
    BY <1>1, <1>8 DEF Accept, Resume, Open, Interrupted, Received, Verify, HashLost, Finish, Reports,
                      Becomes, TypeOK
  <2> QED
    BY <1>3, <2>1, <2>2
<1> QED
  BY <1>4, <1>5, <1>6, <1>7, <1>8 DEF Next, SessionNext, Listening

\* Whoever changes the directory is Busy.
LEMMA DiskByBusy ==
    ASSUME NEW s \in Sessions,
           Connect(s) \/ HandshakeFails(s) \/ ClientNext(s) \/ StreamsEnd(s) \/ SessionNext(s),
           ~UNCHANGED disk
    PROVE  Busy(s) /\ (Resume(s) \/ Open(s) \/ Receive(s) \/ Finish(s))
<1>1. ASSUME Connect(s) \/ HandshakeFails(s) \/ ClientNext(s) \/ StreamsEnd(s) \/ TakeStreams(s)
             \/ Decide(s) \/ Accept(s) \/ Interrupted(s) \/ Received(s) \/ Verify(s)
             \/ HashLost(s) \/ End(s)
      PROVE UNCHANGED disk
  BY <1>1 DEF Connect, HandshakeFails, ClientNext, OfferFile, HearReport, GiveUp, StreamsEnd,
              TakeStreams, Decide, Accept, Interrupted, Received, Verify, HashLost, End
<1>2. Resume(s) \/ Open(s) \/ Receive(s) \/ Finish(s)
  BY <1>1 DEF SessionNext
<1> QED
  BY <1>2 DEF Resume, Open, Receive, Finish, Busy

\* A session never gets its files back to itself.
LEMMA AloneOnce ==
    ASSUME TypeOK, [Next]_vars, NEW t \in Sessions, alone'[t]
    PROVE  alone[t]
<1>1. CASE UNCHANGED alone
  BY <1>1
<1>2. ASSUME NEW s \in Sessions, Decide(s) PROVE alone[t]
  BY <1>2 DEF Decide
<1>3. CASE UNCHANGED vars
  BY <1>3 DEF vars, history
<1>4. ASSUME NEW s \in Sessions,
             Connect(s) \/ HandshakeFails(s) \/ ClientNext(s) \/ StreamsEnd(s) \/ TakeStreams(s)
             \/ Accept(s) \/ Resume(s) \/ Open(s) \/ Receive(s) \/ Interrupted(s) \/ Received(s)
             \/ Verify(s) \/ HashLost(s) \/ Finish(s) \/ End(s)
      PROVE UNCHANGED alone
  BY <1>4 DEF Connect, HandshakeFails, ClientNext, OfferFile, HearReport, GiveUp, StreamsEnd,
              TakeStreams, Accept, Resume, Open, Receive, Interrupted, Received, Verify, HashLost,
              Finish, End, history
<1> QED
  BY <1>1, <1>2, <1>3, <1>4 DEF Next, SessionNext, Listening

\* While a session has the files to itself, what the others do leaves them alone.
LEMMA OwnsFrame ==
    ASSUME IInv, NEW s \in Sessions,
           Connect(s) \/ HandshakeFails(s) \/ ClientNext(s) \/ StreamsEnd(s) \/ SessionNext(s),
           NEW t \in Sessions, t # s, alone[t], Owns(t)
    PROVE  Owns(t)'
<1>1. /\ file'[t] = file[t] /\ state'[t] = state[t] /\ plan'[t] = plan[t]
      /\ pos'[t] = pos[t] /\ fd'[t] = fd[t] /\ (t \in unread' <=> t \in unread)
  BY OthersKeep DEF IInv
<1>2. CASE UNCHANGED disk
  BY <1>1, <1>2 DEF Owns, Written, Content, Exists, Target, disk
<1>3. CASE ~UNCHANGED disk
  <2>1. Busy(s)
    BY <1>3, DiskByBusy
  <2>2. ~Busy(t)
    BY <2>1 DEF IInv, Single
  <2> QED
    BY <1>1, <2>2 DEF Owns, Busy
<1> QED
  BY <1>2, <1>3

\* The steps that t takes with its files.
LEMMA OwnsOpen ==
    ASSUME IInv, NEW t \in Sessions, Open(t), state'[t] # "reported"
    PROVE  Owns(t)'
<1>0. PICK n \in {"part", "dest"} : n = Target(plan[t])
  BY DEF Target
<1>1. TypeOK /\ (plan[t].offset = 0) \in BOOLEAN
  BY DEF IInv
<1>2. OpenFile(t, n, plan[t].offset = 0) /\ Becomes(t, "receiving") /\ pos' = [pos EXCEPT ![t] = plan[t].offset]
  BY <1>0, <1>1 DEF Open, Reports, Becomes, TypeOK
<1>3. Exists(n)' /\ fd'[t] = dir'[n] /\ (plan[t].offset = 0 => Content(n)' = <<>>)
  BY <1>1, <1>2, OpenFileType DEF Exists, Content
<1>4. state'[t] = "receiving" /\ plan' = plan /\ pos'[t] = plan[t].offset
  BY <1>1, <1>2 DEF Open, Becomes, TypeOK
<1>5. plan[t].offset = 0 => Len(Content(n)') = 0
  BY <1>3
<1>6. Target(plan[t])' = n
  BY <1>0, <1>4 DEF Target
<1>7. Written(t)' = Content(n)'
  BY <1>6 DEF Written, Content
<1> QED
  BY <1>3, <1>4, <1>5, <1>6, <1>7 DEF Owns, Exists

\* A write of a session that is alone extends the prefix it has written.
LEMMA OwnsReceive ==
    ASSUME IInv, NEW t \in Sessions, Receive(t), Owns(t)
    PROVE  Owns(t)'
<1>0. PICK n \in {"part", "dest"} : n = Target(plan[t])
  BY DEF Target
<1>1. /\ inodes \in Seq(Seq(Unit)) /\ file[t] \in Seq(Unit) /\ pos[t] \in Nat /\ pos[t] < Len(file[t])
      /\ state[t] = "receiving" /\ dir[n] \in 0 .. Len(inodes)
  BY DaemonAssumption DEF IInv, TypeOK, Receive
<1>2. Exists(n) /\ fd[t] = dir[n]
  BY <1>0, <1>1 DEF Owns
<1>3. fd[t] \in 1 .. Len(inodes)
  BY <1>1, <1>2 DEF Exists
<1>4. inodes[fd[t]] \in Seq(Unit) /\ file[t][pos[t] + 1] \in Unit /\ pos[t] + 1 \in Nat \ {0}
  BY <1>1, <1>3
<1>5. /\ inodes' = [inodes EXCEPT ![fd[t]] = Put(inodes[fd[t]], pos[t] + 1, file[t][pos[t] + 1])]
      /\ pos'[t] = pos[t] + 1 /\ UNCHANGED <<file, dir, state, plan, fd>>
  BY DEF IInv, TypeOK, Receive, request
<1>6. Content(n)' = Put(Content(n), pos[t] + 1, file[t][pos[t] + 1])
  BY <1>1, <1>2, <1>3, <1>5 DEF Content
<1>7. ASSUME plan[t].offset = 0
      PROVE  Len(Content(n)') = pos'[t] /\ \A i \in 1 .. pos'[t] : Content(n)'[i] = file[t][i]
  <2>1. Len(Content(n)) = pos[t] /\ \A i \in 1 .. pos[t] : Content(n)[i] = file[t][i]
    BY <1>0, <1>1, <1>7 DEF Owns, Written
  <2>2. Content(n) \in Seq(Unit)
    BY <1>2, <1>4 DEF Content
  <2>3. /\ Len(Put(Content(n), pos[t] + 1, file[t][pos[t] + 1])) = pos[t] + 1
        /\ \A i \in 1 .. pos[t] + 1 : Put(Content(n), pos[t] + 1, file[t][pos[t] + 1])[i] = file[t][i]
    BY <1>1, <2>1, <2>2, PutExtends
  <2> QED
    BY <1>5, <1>6, <2>3 DEF Content
<1>8. Target(plan[t])' = n /\ Written(t)' = Content(n)'
  BY <1>0, <1>5 DEF Target, Written, Content
<1> QED
  BY <1>1, <1>2, <1>5, <1>7, <1>8 DEF Owns, Exists

\* The digest of a session that is alone is that of its own file.
LEMMA OwnsVerify ==
    ASSUME IInv, NEW t \in Sessions, Verify(t), Owns(t)
    PROVE  Owns(t)'
<1>0. PICK n \in {"part", "dest"} : n = Target(plan[t])
  BY DEF Target
<1>1. /\ UNCHANGED <<inodes, dir, file, plan, pos, fd>> /\ state[t] = "hashing"
      /\ state'[t] \in {"renaming", "reported"}
  BY DEF IInv, TypeOK, Verify, Reports, Becomes, disk, request, writer
<1>2. ASSUME state'[t] = "renaming", t \notin unread' PROVE Content(n) = file[t]
  <2>1. Hashed(t) = file[t] /\ Exists(n)
    BY <1>0, <1>1, <1>2 DEF IInv, TypeOK, Verify, Reports, Becomes, Owns
  <2>2. CASE plan[t].offset = 0
    <3>1. /\ Len(Content(n)) = Len(file[t])
          /\ \A i \in 1 .. Len(file[t]) : Content(n)[i] = file[t][i]
      BY <1>0, <1>1, <2>2 DEF Owns, Written
    <3>2. file[t] \in Seq(Unit) /\ Content(n) \in Seq(Unit)
      BY <2>1, DaemonAssumption DEF IInv, TypeOK, Content, Exists
    <3> QED
      BY <2>1, <3>1, <3>2
  <2>3. CASE plan[t].offset # 0
    BY <1>0, <2>1, <2>3 DEF Hashed
  <2> QED
    BY <2>2, <2>3
<1>3. Target(plan[t])' = n /\ Written(t)' = Content(n) /\ Exists(n)
  BY <1>0, <1>1 DEF Target, Written, Content, Owns
<1> QED
  BY <1>1, <1>2, <1>3 DEF Owns, Exists

\* A session that is alone owns the inode it writes to, whatever the others do.
LEMMA OwnsStep == IInv /\ [Next]_vars => \A t \in Sessions : alone'[t] => Owns(t)'
<1> SUFFICES ASSUME IInv, [Next]_vars, NEW t \in Sessions, alone'[t] PROVE Owns(t)'
  OBVIOUS
<1>1. TypeOK /\ alone[t] /\ Owns(t)
  BY AloneOnce DEF IInv
<1>2. CASE UNCHANGED vars
  BY <1>1, <1>2 DEF vars, Owns, Written, Content, Exists, Target, disk, request, writer, history
<1>3. ASSUME NEW s \in Sessions, s # t,
             Connect(s) \/ HandshakeFails(s) \/ ClientNext(s) \/ StreamsEnd(s) \/ SessionNext(s)
      PROVE Owns(t)'
  BY <1>1, <1>3, OwnsFrame
<1>4. ASSUME Connect(t) \/ HandshakeFails(t) \/ StreamsEnd(t) \/ TakeStreams(t) \/ Decide(t)
             \/ Accept(t) \/ Resume(t) \/ Interrupted(t) \/ HashLost(t) \/ Finish(t) \/ End(t)
      PROVE Owns(t)'
  <2>1. state'[t] \in {"accept", "offer", "reported", "accepted", "resuming", "triggered", "done"}
    BY <1>1, <1>4 DEF Connect, HandshakeFails, StreamsEnd, TakeStreams, Decide, Accept, Resume,
                      Interrupted, HashLost, Finish, End, Reports, Becomes, TypeOK
  <2> QED
    BY <2>1 DEF Owns
<1>5. ASSUME ClientNext(t) PROVE Owns(t)'
  BY <1>1, <1>5 DEF ClientNext, OfferFile, HearReport, GiveUp, Owns, Written, Content, Exists, Target,
                    disk, request, writer, history
<1>6. ASSUME Received(t) PROVE Owns(t)'
  <2>1. /\ UNCHANGED <<inodes, dir, file, plan, pos, fd>> /\ state[t] = "receiving"
        /\ pos[t] = Len(file[t]) /\ state'[t] = "hashing"
    BY <1>1, <1>6 DEF Received, Becomes, TypeOK, disk, request, writer
  <2> QED
    BY <1>1, <2>1 DEF Owns, Written, Content, Exists, Target
<1>7. ASSUME Open(t) PROVE Owns(t)'
  <2>1. CASE state'[t] = "reported"
    BY <2>1 DEF Owns
  <2>2. CASE state'[t] # "reported"
    BY <1>7, <2>2, OwnsOpen
  <2> QED
    BY <2>1, <2>2
<1> QED
  BY <1>1, <1>2, <1>3, <1>4, <1>5, <1>6, <1>7, OwnsReceive, OwnsVerify
     DEF Next, SessionNext, Listening

-----------------------------------------------------------------------------
\* Theorems

\* Nobody is connected, and there is no part file.
LEMMA InitInvariant == Init => IInv
<1> SUFFICES ASSUME Init PROVE IInv
  OBVIOUS
<1>1. TypeOK
  BY InitType
<1>2. Apart
  BY DEF Init, Apart, Exists
<1>3. \A s \in Sessions : state[s] = "none" /\ pos[s] = 0 /\ plan[s].offset = 0
  BY DEF Init, From
<1>4. Single /\ \A s \in Sessions : Decided(s) /\ Owns(s)
  BY <1>3 DEF Single, Decided, Owns, Busy
<1> QED
  BY <1>1, <1>2, <1>4 DEF IInv

\* The invariant holds of every daemon: what its sessions know of the directory
\* stays true whatever steps the others take in between.
THEOREM InvariantHolds == Spec => []IInv
<1>1. Init => IInv
  BY InitInvariant
<1>2. IInv /\ [Next]_vars => IInv'
  BY TypeStep, ApartStep, DecidedStep, SingleStep, OwnsStep DEF IInv
<1> QED
  BY <1>1, <1>2, PTL DEF Spec

\* Every variable keeps its type, whatever number of sessions there is: nobody
\* writes past the end of its file, nor resumes behind it.
THEOREM TypeCorrect == Spec => []TypeOK
<1>1. IInv => TypeOK
  BY DEF IInv
<1> QED
  BY <1>1, InvariantHolds, PTL

\* What a session reports complete is what its client sent, unless another had
\* the files meanwhile or an end could not read a resumed file again (the
\* verdict of run_peer's file receive task).
THEOREM DeliveredCorrect == Spec => DeliveredWhole
<1>1. ASSUME IInv, [Next]_vars, NEW s \in Sessions
      PROVE  CompletesWhole(s)
  <2> SUFFICES ASSUME outcome[s] # "Completed", outcome'[s] = "Completed", alone[s], s \notin unread
               PROVE  Held("dest")' = file[s]
    BY DEF CompletesWhole
  <2>1. TypeOK /\ Owns(s)
    BY <1>1 DEF IInv
  <2>2. Finish(s)
    <3>1. ASSUME NEW t \in Sessions, t # s,
                 Connect(t) \/ HandshakeFails(t) \/ ClientNext(t) \/ StreamsEnd(t) \/ SessionNext(t)
          PROVE FALSE
      BY <1>1, <2>1, <3>1, OthersKeep
    <3>2. ASSUME Connect(s) \/ HandshakeFails(s) \/ ClientNext(s) \/ StreamsEnd(s) \/ TakeStreams(s)
                 \/ Decide(s) \/ Accept(s) \/ Resume(s) \/ Open(s) \/ Receive(s) \/ Interrupted(s)
                 \/ Received(s) \/ Verify(s) \/ HashLost(s) \/ End(s)
          PROVE FALSE
      BY <1>1, <2>1, <3>2 DEF Connect, HandshakeFails, ClientNext, OfferFile, HearReport, GiveUp,
            StreamsEnd, TakeStreams, Decide, Accept, Resume, Open, Receive, Interrupted, Received,
            Verify, HashLost, End, Reports, TypeOK
    <3>3. ~UNCHANGED vars
      BY DEF vars
    <3> QED
      BY <1>1, <3>1, <3>2, <3>3 DEF Next, SessionNext, Listening
  <2>3. state[s] = "renaming" /\ UNCHANGED inodes
    BY <2>2 DEF Finish
  <2>4. Exists(Target(plan[s])) /\ Content(Target(plan[s])) = file[s]
    BY <2>1, <2>3 DEF Owns, Written
  <2>5. dir'["dest"] = dir[Target(plan[s])]
    <3>1. CASE plan[s].usePart
      <4>1. ~Reports(s, "HashFailed")
        BY <2>1 DEF Reports, TypeOK
      <4>2. dir' = [dir EXCEPT !["dest"] = dir["part"], !["part"] = 0]
        BY <2>2, <3>1, <4>1 DEF Finish
      <4> QED
        BY <2>1, <3>1, <4>2 DEF Target, TypeOK
    <3>2. CASE ~plan[s].usePart
      BY <2>1, <2>2, <3>2 DEF Finish, Target
    <3> QED
      BY <3>1, <3>2
  <2> QED
    BY <2>3, <2>4, <2>5 DEF Held, Exists, Content
<1>2. IInv /\ [Next]_vars => [\A s \in Sessions : CompletesWhole(s)]_vars
  BY <1>1
<1> QED
  BY <1>2, InvariantHolds, PTL DEF Spec, DeliveredWhole

\* What is at the destination changes with its name or its inode.
LEMMA HeldChanges ==
    ASSUME TypeOK, NEW s \in Sessions,
           Connect(s) \/ HandshakeFails(s) \/ ClientNext(s) \/ StreamsEnd(s) \/ SessionNext(s),
           Held("dest")' # Held("dest")
    PROVE  Acts(s) /\ (Resume(s) \/ Open(s) \/ Receive(s) \/ Finish(s))
<1>1. ~UNCHANGED disk
  BY DEF Held, Exists, Content, disk
<1>2. Busy(s) /\ (Resume(s) \/ Open(s) \/ Receive(s) \/ Finish(s))
  BY <1>1, DiskByBusy
<1>3. CASE Receive(s)
  <2>1. pos'[s] = pos[s] + 1 /\ pos[s] \in Nat
    BY <1>3 DEF Receive, TypeOK
  <2> QED
    BY <1>2, <1>3, <2>1 DEF Acts
<1>4. CASE Resume(s) \/ Open(s) \/ Finish(s)
  <2>1. state'[s] # state[s]
    BY <1>4 DEF Resume, Open, Finish, Reports, Becomes, TypeOK
  <2> QED
    BY <1>2, <2>1 DEF Acts
<1> QED
  BY <1>2, <1>3, <1>4

\* Under --on-conflict refuse what is there is changed only by who may, as long
\* as the daemon has no --resume of its own, which lifts the policy
\* (handle_incoming_connection's FileOffered).
THEOREM RefuseCorrect == Spec => RefuseHolds
<1>1. ASSUME IInv, [Next]_vars PROVE ChangesAllowed
  <2> SUFFICES ASSUME refuse, ~wresume, Held("dest")' # Held("dest")
               PROVE  \E s \in Sessions : Acts(s) /\ (~asked[s] \/ resume[s])
    BY DEF ChangesAllowed
  <2>1. ~UNCHANGED vars
    BY DEF vars, disk, Held, Exists, Content
  <2>2. PICK s \in Sessions :
          Connect(s) \/ HandshakeFails(s) \/ ClientNext(s) \/ StreamsEnd(s) \/ SessionNext(s)
    BY <1>1, <2>1 DEF Next, Listening
  <2>3. Acts(s)
    BY <1>1, <2>2, HeldChanges DEF IInv
  <2>4. ~asked[s] \/ resume[s]
    BY <1>1, <2>3 DEF IInv, Decided, Acts
  <2> QED
    BY <2>3, <2>4
<1>2. IInv /\ [Next]_vars => [ChangesAllowed]_vars
  BY <1>1
<1> QED
  BY <1>2, InvariantHolds, PTL DEF Spec, RefuseHolds

\* A staged file is not seen at the destination before it is complete
\* (part_path and the rename of the file receive task).
THEOREM ReplacedCorrect == Spec => ReplacedAtOnce
<1>1. ASSUME IInv, [Next]_vars, NEW s \in Sessions
      PROVE  ReplacesWhole(s)
  <2> SUFFICES ASSUME Exists("dest"), Held("dest")' # Held("dest"), Acts(s),
                      Len(file[s]) >= Threshold, ~resume[s], alone[s]
               PROVE  outcome'[s] = "Completed"
    BY DEF ReplacesWhole
  <2>1. TypeOK /\ Apart /\ Decided(s) /\ Owns(s)
    BY <1>1 DEF IInv
  <2>2. ~UNCHANGED vars
    BY DEF vars, disk, Held, Exists, Content
  <2>3. PICK t \in Sessions :
          Connect(t) \/ HandshakeFails(t) \/ ClientNext(t) \/ StreamsEnd(t) \/ SessionNext(t)
    BY <1>1, <2>2 DEF Next, Listening
  <2>4. t = s
    BY <2>1, <2>3, OthersKeep DEF Acts
  <2>5. Resume(s) \/ Open(s) \/ Receive(s) \/ Finish(s)
    BY <2>1, <2>3, <2>4, HeldChanges
  <2>6. inodes \in Seq(Seq(Unit)) /\ dir["dest"] \in 1 .. Len(inodes) /\ dir["part"] # dir["dest"]
    BY <2>1 DEF TypeOK, Exists, Apart
  <2>7. ~Resume(s)
    BY <2>1 DEF Resume, Decided
  <2>8. Open(s) \/ Receive(s) \/ Finish(s) => Target(plan[s]) = "part"
    BY <2>1 DEF Open, Receive, Finish, Decided, UsePart, Target
  <2>9. ~Open(s)
    <3> SUFFICES ASSUME Open(s) PROVE FALSE
      OBVIOUS
    <3>1. OpenFile(s, "part", plan[s].offset = 0)
      <4>1. ~UNCHANGED disk
        BY DEF disk, Held, Exists, Content
      <4>2. OpenFile(s, Target(plan[s]), plan[s].offset = 0)
        BY <4>1 DEF Open, disk
      <4> QED
        BY <2>8, <4>2
    <3>2. dir'["dest"] = dir["dest"] /\ inodes'[dir["dest"]] = inodes[dir["dest"]]
      <4>1. dir \in [{"part", "dest"} -> 0 .. Len(inodes)]
        BY <2>1 DEF TypeOK
      <4>2. CASE Exists("part")
        BY <2>6, <3>1, <4>2 DEF OpenFile
      <4>3. CASE ~Exists("part")
        BY <2>6, <3>1, <4>1, <4>3 DEF OpenFile
      <4> QED
        BY <4>2, <4>3
    <3> QED
      BY <3>2 DEF Held, Exists, Content
  <2>10. ~Receive(s)
    <3> SUFFICES ASSUME Receive(s) PROVE FALSE
      OBVIOUS
    <3>1. fd[s] = dir["part"]
      BY <2>1, <2>8 DEF Receive, Owns
    <3>2. UNCHANGED dir /\ inodes'[dir["dest"]] = inodes[dir["dest"]]
      BY <2>6, <3>1 DEF Receive
    <3> QED
      BY <3>2 DEF Held, Exists, Content
  <2>11. ASSUME Finish(s) PROVE outcome'[s] = "Completed"
    <3>1. outcome' = [outcome EXCEPT ![s] = "Completed"] \/ UNCHANGED disk
      BY <2>11 DEF Finish, Reports, disk
    <3>2. ~UNCHANGED disk
      BY DEF disk, Held, Exists, Content
    <3> QED
      BY <2>1, <3>1, <3>2 DEF TypeOK
  <2> QED
    BY <2>5, <2>7, <2>9, <2>10, <2>11
<1>2. IInv /\ [Next]_vars => [\A s \in Sessions : ReplacesWhole(s)]_vars
  BY <1>1
<1> QED
  BY <1>2, InvariantHolds, PTL DEF Spec, ReplacedAtOnce
=============================================================================
