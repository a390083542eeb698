------------------------- MODULE IdentityFilesProofs -------------------------
(***************************************************************************)
(* Theorems about IdentityFiles, for any number of starts.                 *)
(*                                                                         *)
(* As long as a directory has not been mixed, whoever has written to it is *)
(* alone in it; and the thumbprint, which is written last, is there only   *)
(* behind a whole certificate and its key.                                 *)
(***************************************************************************)
EXTENDS IdentityFiles, TLAPS

Cert == files["identity"]["cert"]
Key == files["identity"]["key"]
Thumb == files["identity"]["thumbprint"]

\* p has written to its directory and goes on doing so.
Begun(p) == pc[p] = "write" \/ (pc[p] = "open" /\ writing[p] # "cert")

\* Where a start is tells what it has done, mixed or not.
Shape(p) ==
    /\ pc[p] \in {"off", "check"} => writing[p] = "cert"
    /\ pc[p] \in {"off", "check", "open", "write", "read"} =>
          loaded[p]["cert"] = Absent /\ loaded[p]["key"] = Absent
    /\ pc[p] = "ready" => Matches(loaded[p])
    /\ p \in Temporary =>
          /\ pc[p] \notin {"check", "read"} /\ writing[p] # "thumbprint"
          /\ pc[p] # "off" => reported[p] = p

Alone(p) == \A q \in Starts : q # p /\ Home(q) = Home(p) => ~Active(q)

ThumbprintLast == Thumb # Absent => Cert \in Starts /\ Key = Cert /\ Thumb \in {Partial, Cert}

InIdentity(p) ==
    /\ pc[p] = "open" => Thumb = Absent
    /\ Begun(p) => Alone(p)
    /\ pc[p] \in {"open", "write"} /\ writing[p] # "cert" => Cert = p
    /\ pc[p] \in {"open", "write"} /\ writing[p] = "thumbprint" => Key = p
    /\ pc[p] = "write" => Thumb = (IF writing[p] = "thumbprint" THEN Partial ELSE Absent)
    /\ pc[p] = "read" => Thumb # Absent
    /\ pc[p] \in {"load", "ready"} =>
          /\ Thumb \in Starts /\ reported[p] = Thumb
          /\ loaded[p]["cert"] \in {Absent, Thumb} /\ loaded[p]["key"] \in {Absent, Thumb}
    /\ pc[p] = "failed" => Thumb = Partial /\ \A q \in Persistent : ~Creates(q)

InTemporary(p) ==
    /\ Begun(p) => Alone(p)
    /\ pc[p] \in {"open", "write"} /\ writing[p] = "key" => files["temporary"]["cert"] = p
    /\ pc[p] = "load" => files["temporary"]["cert"] = p /\ files["temporary"]["key"] = p
    /\ pc[p] \in {"load", "ready"} =>
          loaded[p]["cert"] \in {Absent, p} /\ loaded[p]["key"] \in {Absent, p}
    /\ pc[p] # "failed"

IInv ==
    /\ TypeOK
    /\ \A p \in Starts : Shape(p)
    /\ "identity" \notin mixed => ThumbprintLast /\ \A p \in Persistent : InIdentity(p)
    /\ "temporary" \notin mixed => \A p \in Temporary : InTemporary(p)

-----------------------------------------------------------------------------

\* Every start has one directory.
LEMMA Homes ==
    /\ \A p \in Persistent : p \in Starts /\ p \notin Temporary /\ Home(p) = "identity"
    /\ \A p \in Temporary : p \in Starts /\ p \notin Persistent /\ Home(p) = "temporary"
    /\ \A p \in Starts : p \in Persistent \/ p \in Temporary
BY StartsAssumption DEF Starts, Home

\* Nothing is there, and nobody has begun.
LEMMA InitInvariant == Init => IInv
<1> SUFFICES ASSUME Init PROVE IInv
  OBVIOUS
<1>1. TypeOK
  BY DEF Init, TypeOK, Content, Directories, Names
<1>2. \A p \in Starts : Shape(p)
  BY Homes DEF Init, Shape
<1>3. ThumbprintLast
  BY DEF Init, ThumbprintLast, Thumb, Directories, Names
<1>4. \A p \in Persistent : InIdentity(p)
  BY Homes DEF Init, InIdentity, Begun
<1>5. \A p \in Temporary : InTemporary(p)
  BY Homes DEF Init, InTemporary, Begun
<1> QED
  BY <1>1, <1>2, <1>3, <1>4, <1>5 DEF IInv

\* What a step of p says of the other starts.
LEMMA TypeStep == TypeOK /\ [Next]_vars => TypeOK'
<1> SUFFICES ASSUME TypeOK, [Next]_vars PROVE TypeOK'
  OBVIOUS
<1> USE StartsAssumption DEF TypeOK
<1>1. ASSUME NEW p \in Starts, Start(p) PROVE TypeOK'
  BY <1>1 DEF Start, Goes, MixedIf, Directories, Home
<1>2. ASSUME NEW p \in Starts, Check(p) PROVE TypeOK'
  BY <1>2 DEF Check, Goes
<1>3. ASSUME NEW p \in Starts, Open(p) PROVE TypeOK'
  BY <1>3 DEF Open, Writes, Goes, MixedIf, Directories, Home, Content
<1>4. ASSUME NEW p \in Starts, Write(p) PROVE TypeOK'
  BY <1>4 DEF Write, Writes, Goes, MixedIf, Directories, Home, Content, Following, Names
<1>5. ASSUME NEW p \in Starts, Read(p) PROVE TypeOK'
  BY <1>5 DEF Read, Goes, IsThumbprint
<1>6. ASSUME NEW p \in Starts, Load(p) PROVE TypeOK'
  BY <1>6 DEF Load, Goes, Directories, Home, Content, Names
<1>7. ASSUME NEW p \in Starts, OperationFails(p) \/ Crash(p) PROVE TypeOK'
  BY <1>7 DEF OperationFails, Crash, Goes
<1>8. CASE UNCHANGED vars
  BY <1>8 DEF vars
<1> QED
  BY <1>1, <1>2, <1>3, <1>4, <1>5, <1>6, <1>7, <1>8 DEF Next, StartNext, Idle

\* Each start keeps the order in which it reads and writes.
LEMMA ShapeStep == IInv /\ [Next]_vars => \A q \in Starts : Shape(q)'
<1> SUFFICES ASSUME IInv, [Next]_vars, NEW q \in Starts PROVE Shape(q)'
  OBVIOUS
<1> USE StartsAssumption, Homes DEF IInv, TypeOK, Shape
<1>1. ASSUME NEW p \in Starts, Start(p) PROVE Shape(q)'
  BY <1>1 DEF Start, Goes, Matches
<1>2. ASSUME NEW p \in Starts, Check(p) PROVE Shape(q)'
  BY <1>2 DEF Check, Goes, Matches
<1>3. ASSUME NEW p \in Starts, Open(p) PROVE Shape(q)'
  BY <1>3 DEF Open, Writes, Goes, Matches
<1>4. ASSUME NEW p \in Starts, Write(p) PROVE Shape(q)'
  BY <1>4 DEF Write, Writes, Goes, Following, NamesIn, Names, Matches
<1>5. ASSUME NEW p \in Starts, Read(p) PROVE Shape(q)'
  BY <1>5 DEF Read, Goes, IsThumbprint, Matches
<1>6. ASSUME NEW p \in Starts, Load(p) PROVE Shape(q)'
  BY <1>6 DEF Load, Goes, Matches
<1>7. ASSUME NEW p \in Starts, OperationFails(p) \/ Crash(p) PROVE Shape(q)'
  BY <1>7 DEF OperationFails, Crash, Active, Goes, Matches
<1>8. CASE UNCHANGED vars
  BY <1>8 DEF vars, Matches
<1> QED
  BY <1>1, <1>2, <1>3, <1>4, <1>5, <1>6, <1>7, <1>8 DEF Next, StartNext, Idle

-----------------------------------------------------------------------------

\* A step of a temporary start, or of nobody, does not touch the identity.
LEMMA IdentityFrame ==
    ASSUME IInv, "identity" \notin mixed',
           UNCHANGED files["identity"], mixed \subseteq mixed',
           \A q \in Persistent : UNCHANGED <<pc[q], writing[q], reported[q], loaded[q]>>
    PROVE  ThumbprintLast' /\ \A q \in Persistent : InIdentity(q)'
<1>1. "identity" \notin mixed /\ UNCHANGED <<Cert, Key, Thumb>>
  BY DEF Cert, Key, Thumb
<1>2. ThumbprintLast'
  BY <1>1 DEF IInv, ThumbprintLast
<1>3. ASSUME NEW q \in Persistent PROVE InIdentity(q)'
  <2>1. InIdentity(q)
    BY <1>1 DEF IInv
  <2>2. Begun(q)' = Begun(q) /\ \A o \in Persistent : Creates(o)' = Creates(o)
    BY DEF Begun, Creates
  <2>3. Begun(q)' => Alone(q)'
    BY <2>1, <2>2, Homes DEF InIdentity, Alone, Active
  <2> QED
    BY <1>1, <2>1, <2>2, <2>3 DEF InIdentity
<1> QED
  BY <1>2, <1>3

\* Who is alone stays so while only others end.
LEMMA StillAlone ==
    ASSUME NEW q, Alone(q), \A o \in Starts : o # q /\ Active(o)' => Active(o)
    PROVE  Alone(q)'
BY DEF Alone, Home

\* Once the thumbprint is there none of the three files is missing.
LEMMA MissingMeansNoThumbprint ==
    ThumbprintLast /\ StartsAssumption => (Missing(files["identity"]) <=> Thumb = Absent)
BY DEF ThumbprintLast, Missing, Names, Cert, Key, Thumb

\* A step of a persistent start keeps what the identity directory promises.
LEMMA IdentityStep ==
    ASSUME IInv, TypeOK', NEW p \in Persistent, StartNext(p), "identity" \notin mixed'
    PROVE  ThumbprintLast' /\ \A q \in Persistent : InIdentity(q)'
<1> USE StartsAssumption, Homes
<1>0. /\ "identity" \notin mixed /\ ThumbprintLast /\ TypeOK
      /\ \A q \in Persistent : InIdentity(q) /\ Shape(q)
  BY DEF StartNext, Start, Check, Open, Write, Read, Load, OperationFails, Crash, Writes, MixedIf, IInv
<1>1. CASE Start(p)
  <2>1. UNCHANGED <<Cert, Key, Thumb>> /\ \A q \in Persistent : ~Begun(q) /\ ~Begun(q)'
    BY <1>0, <1>1 DEF Start, Goes, MixedIf, Others, Creates, Active, Begun, TypeOK, Shape, Cert, Key, Thumb
  <2> QED
    BY <1>0, <1>1, <2>1 DEF Start, Goes, TypeOK, ThumbprintLast, InIdentity, Creates
<1>2. CASE Check(p)
  <2>1. UNCHANGED <<Cert, Key, Thumb>> /\ \A q \in Persistent : Begun(q)' = Begun(q)
    BY <1>0, <1>2 DEF Check, Goes, Begun, TypeOK, Shape, Cert, Key, Thumb
  <2>2. ASSUME NEW q \in Persistent, Begun(q)' PROVE Alone(q)'
    BY <1>0, <1>2, <2>1, <2>2, StillAlone DEF Check, Goes, TypeOK, InIdentity, Active
  <2>3. Missing(files["identity"]) <=> Thumb = Absent
    BY <1>0, MissingMeansNoThumbprint
  <2> QED
    BY <1>0, <1>2, <2>1, <2>2, <2>3 DEF Check, Goes, TypeOK, ThumbprintLast, InIdentity, Creates, Shape
<1>3. CASE Open(p)
  <2>1. Others(p) = {} /\ Thumb = Absent
    BY <1>0, <1>3 DEF Open, Writes, MixedIf, InIdentity
  <2>2. Alone(p)'
    BY <1>0, <1>3, <2>1 DEF Open, Goes, TypeOK, Others, Alone, Active
  <2>3. /\ Cert' = IF writing[p] = "cert" THEN Partial ELSE Cert
        /\ Key' = IF writing[p] = "key" THEN Partial ELSE Key
        /\ Thumb' = IF writing[p] = "thumbprint" THEN Partial ELSE Thumb
    BY <1>0, <1>3 DEF Open, Writes, TypeOK, Directories, Names, Cert, Key, Thumb
  <2>4. InIdentity(p)'
    BY <1>0, <1>3, <2>1, <2>2, <2>3 DEF Open, Goes, TypeOK, Names, InIdentity
  <2>5. ASSUME NEW q \in Persistent, q # p PROVE InIdentity(q)'
    BY <1>0, <1>3, <2>1, <2>5 DEF Open, Goes, TypeOK, InIdentity, Others, Active, Begun
  <2>6. ThumbprintLast'
    BY <1>0, <1>3, <2>1, <2>3 DEF Open, TypeOK, Names, InIdentity, ThumbprintLast
  <2> QED
    BY <2>4, <2>5, <2>6
<1>4. CASE Write(p)
  <2>1. Alone(p) /\ Thumb = IF writing[p] = "thumbprint" THEN Partial ELSE Absent
    BY <1>0, <1>4 DEF Write, InIdentity, Begun
  <2>2. Alone(p)'
    BY <1>0, <1>4, <2>1, StillAlone DEF Write, Goes, TypeOK, Active
  <2>3. /\ Cert' = IF writing[p] = "cert" THEN p ELSE Cert
        /\ Key' = IF writing[p] = "key" THEN p ELSE Key
        /\ Thumb' = IF writing[p] = "thumbprint" THEN p ELSE Thumb
    BY <1>0, <1>4 DEF Write, Writes, TypeOK, Directories, Names, Cert, Key, Thumb
  <2>4. InIdentity(p)'
    BY <1>0, <1>4, <2>1, <2>2, <2>3
    DEF Write, Goes, TypeOK, Names, NamesIn, Following, InIdentity, Begun
  <2>5. ASSUME NEW q \in Persistent, q # p PROVE InIdentity(q)'
    BY <1>0, <1>4, <2>1, <2>5 DEF Write, Goes, TypeOK, InIdentity, Alone, Active, Begun, Creates
  <2>6. ThumbprintLast'
    BY <1>0, <1>4, <2>1, <2>3 DEF Write, TypeOK, Names, InIdentity, ThumbprintLast
  <2> QED
    BY <2>4, <2>5, <2>6
<1>5. CASE Read(p)
  <2>1. UNCHANGED <<Cert, Key, Thumb>> /\ \A q \in Persistent : Begun(q)' = Begun(q)
    BY <1>0, <1>5 DEF Read, Goes, Begun, TypeOK, Cert, Key, Thumb
  <2>2. Thumb # Absent /\ \A q \in Persistent : ~Creates(q) /\ ~Creates(q)'
    <3>1. pc[p] = "read" /\ Active(p) /\ Thumb # Absent
      BY <1>0, <1>5 DEF Read, Active, InIdentity
    <3>2. ASSUME NEW q \in Persistent, Creates(q) PROVE FALSE
      <4>1. q # p /\ Begun(q)
        BY <1>0, <3>1, <3>2 DEF Creates, Begun, InIdentity
      <4> QED
        BY <1>0, <3>1, <4>1 DEF InIdentity, Alone
    <3>3. \A q \in Persistent : Creates(q)' => Creates(q)
      BY <1>0, <1>5 DEF Read, Goes, TypeOK, Creates
    <3> QED
      BY <3>1, <3>2, <3>3
  <2>3. Thumb \in Starts \/ Thumb = Partial
    BY <1>0, <2>2 DEF TypeOK, ThumbprintLast
  <2> QED
    BY <1>0, <1>5, <2>1, <2>2, <2>3
    DEF Read, Goes, IsThumbprint, TypeOK, ThumbprintLast, InIdentity, Begun, Creates, Shape, Thumb
<1>6. CASE Load(p)
  <2>1. UNCHANGED <<Cert, Key, Thumb>> /\ \A q \in Persistent : Begun(q)' = Begun(q)
    BY <1>0, <1>6 DEF Load, Goes, Begun, TypeOK, Cert, Key, Thumb
  <2>2. Thumb \in Starts /\ Cert = Thumb /\ Key = Thumb /\ reported[p] = Thumb
    BY <1>0, <1>6 DEF Load, InIdentity, ThumbprintLast
  <2>3. /\ loaded'[p]["cert"] \in {Absent, Thumb} /\ loaded'[p]["key"] \in {Absent, Thumb}
        /\ pc'[p] \in {"load", "ready"}
    BY <1>0, <1>6, <2>2 DEF Load, Goes, Matches, TypeOK, InIdentity, Cert, Key
  <2>4. ASSUME NEW q \in Persistent, Begun(q)' PROVE Alone(q)'
    BY <1>0, <1>6, <2>1, <2>4, StillAlone DEF Load, Goes, TypeOK, InIdentity, Active
  <2> QED
    BY <1>0, <1>6, <2>1, <2>2, <2>3, <2>4 DEF Load, Goes, TypeOK, ThumbprintLast, InIdentity, Creates
<1>7. CASE OperationFails(p) \/ Crash(p)
  <2>1. UNCHANGED <<Cert, Key, Thumb>> /\ \A q \in Persistent : Begun(q)' => Begun(q)
    BY <1>0, <1>7 DEF OperationFails, Crash, Goes, Begun, TypeOK, Cert, Key, Thumb
  <2>2. ASSUME NEW q \in Persistent, Begun(q)' PROVE Alone(q)'
    BY <1>0, <1>7, <2>1, <2>2, StillAlone DEF OperationFails, Crash, Goes, TypeOK, InIdentity, Active
  <2> QED
    BY <1>0, <1>7, <2>1, <2>2 DEF OperationFails, Crash, Goes, TypeOK, ThumbprintLast, InIdentity, Creates
<1> QED
  BY <1>1, <1>2, <1>3, <1>4, <1>5, <1>6, <1>7 DEF StartNext

-----------------------------------------------------------------------------

\* A step of a persistent start, or of nobody, leaves the temporary directory.
LEMMA TemporaryFrame ==
    ASSUME IInv, "temporary" \notin mixed',
           UNCHANGED files["temporary"], mixed \subseteq mixed',
           \A q \in Temporary : UNCHANGED <<pc[q], writing[q], reported[q], loaded[q]>>
    PROVE  \A q \in Temporary : InTemporary(q)'
<1> SUFFICES ASSUME NEW q \in Temporary PROVE InTemporary(q)'
  OBVIOUS
<1>1. InTemporary(q)
  BY DEF IInv
<1>2. Begun(q)' => Alone(q)'
  BY <1>1, Homes DEF InTemporary, Begun, Alone, Active
<1> QED
  BY <1>1, <1>2 DEF InTemporary

\* A step of a temporary start keeps what the temporary directory promises.
LEMMA TemporaryStep ==
    ASSUME IInv, TypeOK', NEW p \in Temporary, StartNext(p), "temporary" \notin mixed'
    PROVE  \A q \in Temporary : InTemporary(q)'
<1> USE StartsAssumption, Homes
<1>0. "temporary" \notin mixed /\ TypeOK /\ \A q \in Temporary : InTemporary(q) /\ Shape(q)
  BY DEF StartNext, Start, Check, Open, Write, Read, Load, OperationFails, Crash, Writes, MixedIf, IInv
<1> DEFINE TCert == files["temporary"]["cert"]
           TKey == files["temporary"]["key"]
<1>1. CASE Start(p)
  <2>1. UNCHANGED <<TCert, TKey>> /\ \A q \in Temporary : ~Begun(q) /\ ~Begun(q)'
    BY <1>0, <1>1 DEF Start, Goes, MixedIf, Others, Creates, Active, Begun, TypeOK, Shape
  <2> QED
    BY <1>0, <1>1, <2>1 DEF Start, Goes, TypeOK, InTemporary, Shape
<1>2. CASE Open(p)
  <2>1. Others(p) = {}
    BY <1>0, <1>2 DEF Open, Writes, MixedIf
  <2>2. Alone(p)'
    BY <1>0, <1>2, <2>1 DEF Open, Goes, TypeOK, Others, Alone, Active
  <2>3. writing[p] = "key" => TCert' = TCert
    BY <1>0, <1>2 DEF Open, Writes, TypeOK, Directories, Names
  <2>4. InTemporary(p)'
    BY <1>0, <1>2, <2>2, <2>3 DEF Open, Goes, TypeOK, InTemporary
  <2>5. ASSUME NEW q \in Temporary, q # p PROVE InTemporary(q)'
    BY <1>0, <1>2, <2>1, <2>5 DEF Open, Goes, TypeOK, InTemporary, Others, Active, Begun
  <2> QED
    BY <2>4, <2>5
<1>3. CASE Write(p)
  <2>1. Alone(p)
    BY <1>0, <1>3 DEF Write, InTemporary, Begun
  <2>2. Alone(p)'
    BY <1>0, <1>3, <2>1, StillAlone DEF Write, Goes, TypeOK, Active
  <2>3. /\ TCert' = IF writing[p] = "cert" THEN p ELSE TCert
        /\ TKey' = IF writing[p] = "key" THEN p ELSE TKey
    BY <1>0, <1>3 DEF Write, Writes, TypeOK, Directories, Names
  <2>4. InTemporary(p)'
    BY <1>0, <1>3, <2>1, <2>2, <2>3
    DEF Write, Goes, TypeOK, Names, NamesIn, Following, InTemporary, Shape
  <2>5. ASSUME NEW q \in Temporary, q # p PROVE InTemporary(q)'
    BY <1>0, <1>3, <2>1, <2>5 DEF Write, Goes, TypeOK, InTemporary, Alone, Active, Begun
  <2> QED
    BY <2>4, <2>5
<1>4. CASE Load(p)
  <2>1. UNCHANGED <<TCert, TKey>> /\ \A q \in Temporary : Begun(q)' = Begun(q)
    BY <1>0, <1>4 DEF Load, Goes, Begun, TypeOK
  <2>2. TCert = p /\ TKey = p
    BY <1>0, <1>4 DEF Load, InTemporary
  <2>3. /\ loaded'[p]["cert"] \in {Absent, p} /\ loaded'[p]["key"] \in {Absent, p}
        /\ pc'[p] \in {"load", "ready"}
    BY <1>0, <1>4, <2>2 DEF Load, Goes, Matches, TypeOK, InTemporary
  <2>4. ASSUME NEW q \in Temporary, Begun(q)' PROVE Alone(q)'
    BY <1>0, <1>4, <2>1, <2>4, StillAlone DEF Load, Goes, TypeOK, InTemporary, Active
  <2> QED
    BY <1>0, <1>4, <2>1, <2>2, <2>3, <2>4 DEF Load, Goes, TypeOK, InTemporary
<1>5. CASE OperationFails(p) \/ Crash(p)
  <2>1. UNCHANGED <<TCert, TKey>> /\ \A q \in Temporary : Begun(q)' => Begun(q)
    BY <1>0, <1>5 DEF OperationFails, Crash, Goes, Begun, TypeOK
  <2>2. ASSUME NEW q \in Temporary, Begun(q)' PROVE Alone(q)'
    BY <1>0, <1>5, <2>1, <2>2, StillAlone DEF OperationFails, Crash, Goes, TypeOK, InTemporary, Active
  <2> QED
    BY <1>0, <1>5, <2>1, <2>2 DEF OperationFails, Crash, Goes, TypeOK, InTemporary
<1>6. ~Check(p) /\ ~Read(p)
  BY <1>0 DEF Check, Read, Shape
<1> QED
  BY <1>1, <1>2, <1>3, <1>4, <1>5, <1>6 DEF StartNext

-----------------------------------------------------------------------------

\* What a step of one start leaves alone.
LEMMA OthersUntouched ==
    ASSUME TypeOK, NEW p \in Starts, StartNext(p)
    PROVE  /\ mixed \subseteq mixed'
           /\ \A d \in Directories \ {Home(p)} : UNCHANGED files[d]
           /\ \A q \in Starts \ {p} : UNCHANGED <<pc[q], writing[q], reported[q], loaded[q]>>
BY DEF TypeOK, StartNext, Start, Check, Open, Write, Read, Load, OperationFails, Crash, Goes, Writes,
       MixedIf, Directories, Home

\* The parts of the invariant together.
LEMMA InvariantStep == IInv /\ [Next]_vars => IInv'
<1> SUFFICES ASSUME IInv, [Next]_vars PROVE IInv'
  OBVIOUS
<1>1. TypeOK' /\ \A q \in Starts : Shape(q)'
  BY TypeStep, ShapeStep DEF IInv
<1>2. ASSUME NEW p \in Starts, StartNext(p), "identity" \notin mixed'
      PROVE  ThumbprintLast' /\ \A q \in Persistent : InIdentity(q)'
  <2>1. CASE p \in Persistent
    BY <1>1, <1>2, <2>1, IdentityStep
  <2>2. CASE p \in Temporary
    <3>1. /\ UNCHANGED files["identity"] /\ mixed \subseteq mixed'
          /\ \A q \in Persistent : UNCHANGED <<pc[q], writing[q], reported[q], loaded[q]>>
      BY <1>2, <2>2, OthersUntouched, Homes DEF IInv, Directories
    <3> QED
      BY <1>2, <3>1, IdentityFrame
  <2> QED
    BY <2>1, <2>2, Homes
<1>3. ASSUME NEW p \in Starts, StartNext(p), "temporary" \notin mixed'
      PROVE  \A q \in Temporary : InTemporary(q)'
  <2>1. CASE p \in Temporary
    BY <1>1, <1>3, <2>1, TemporaryStep
  <2>2. CASE p \in Persistent
    <3>1. /\ UNCHANGED files["temporary"] /\ mixed \subseteq mixed'
          /\ \A q \in Temporary : UNCHANGED <<pc[q], writing[q], reported[q], loaded[q]>>
      BY <1>3, <2>2, OthersUntouched, Homes DEF IInv, Directories
    <3> QED
      BY <1>3, <3>1, TemporaryFrame
  <2> QED
    BY <2>1, <2>2, Homes
<1>4. ASSUME UNCHANGED vars
      PROVE  /\ "identity" \notin mixed' => ThumbprintLast' /\ \A q \in Persistent : InIdentity(q)'
             /\ "temporary" \notin mixed' => \A q \in Temporary : InTemporary(q)'
  BY <1>4, IdentityFrame, TemporaryFrame DEF vars
<1> QED
  BY <1>1, <1>2, <1>3, <1>4 DEF IInv, Next, Idle

\* What a directory that was not mixed holds is one certificate's, as far as it
\* is written, after any crash or failed operation: build_persistent_quic_config completes what it
\* finds in the order certificate, key, thumbprint.
THEOREM InvariantHolds == Spec => []IInv
<1>1. Init => IInv
  BY InitInvariant
<1>2. IInv /\ [Next]_vars => IInv'
  BY InvariantStep
<1> QED
  BY <1>1, <1>2, PTL DEF Spec

\* Every variable keeps its type, whatever number of starts there is.
THEOREM TypeCorrect == Spec => []TypeOK
<1>1. IInv => TypeOK
  BY DEF IInv
<1> QED
  BY <1>1, InvariantHolds, PTL

\* A node never announces another certificate than the one it uses, whichever
\* starts crashed or failed wherever before it, unless its directory was mixed
\* (build_persistent_quic_config, build_quic_config).
THEOREM CoherentCorrect == Spec => []Coherent
<1>1. IInv => Coherent
  BY StartsAssumption, Homes DEF IInv, Shape, InIdentity, InTemporary, Matches, Coherent
<1> QED
  BY <1>1, InvariantHolds, PTL

\* The identity survives restarts and crashes (README: "Identities are stable
\* across restarts"), unless its directory was mixed.
THEOREM StableCorrect == Spec => []IdentityStable
<1>1. IInv => IdentityStable
  BY DEF IInv, InIdentity, IdentityStable
<1> QED
  BY <1>1, InvariantHolds, PTL

\* The one thing that a crash or a failed write can leave for good is a partial
\* thumbprint: nothing else fails a later start whose own operations succeed
\* (build_persistent_quic_config tests for the files, not for what they hold).
THEOREM FailureCorrect == Spec => []FailureExplained
<1>1. IInv => FailureExplained
  BY Homes DEF IInv, InIdentity, InTemporary, FailureExplained, Thumb
<1> QED
  BY <1>1, InvariantHolds, PTL
=============================================================================
