-------------------------- MODULE PathParserProofs --------------------------
(***************************************************************************)
(* Proofs about PathParser, for paths of any length over any characters    *)
(* and any limit.  get_path_part compares nothing with the size of its     *)
(* buffer; what keeps it inside is the check of the whole path before the  *)
(* first character is copied, since what has been copied and what is left  *)
(* are together never longer than the path without its drive.              *)
(***************************************************************************)
EXTENDS PathParser, NaturalLemmas, SequenceTheorems

Char == Digit \cup Letter \cup {":", "/"}

Typed ==
    /\ path \in Seq(Char)
    /\ pc \in {"call", "part", "done"}
    /\ rest \in Seq(Char)
    /\ part \in Seq(Char)

\* Nothing has been built before the checks.
Untouched == pc = "call" => part = <<>> /\ root = NULL /\ blocks = 0

\* The copied component and what is left lie in a path that is short enough.
Remaining ==
    /\ Len(part) < MAX_PATH_LEN
    /\ pc = "part" => Len(part) + Len(rest) + 3 <= MAX_PATH_LEN

\* The root, two blocks for each part, and the block of the running component.
Taken ==
    /\ root # NULL => /\ root = [drive |-> root.drive, parts |-> root.parts]
                      /\ root.parts \in Seq(Seq(Char))
    /\ pc = "part" => root # NULL /\ blocks = 2 + 2 * Len(root.parts)
    /\ NothingLost

PInv == Typed /\ Untouched /\ Remaining /\ Taken

-----------------------------------------------------------------------------

\* A path that is drawn is a sequence of characters.
LEMMA PathsAreSequences == Paths \subseteq Seq(Char)
<1>1. BoundedSeq(Letter \cup {"/"}, MaxTail) \subseteq Seq(Char)
  <2> SUFFICES ASSUME NEW t \in BoundedSeq(Letter \cup {"/"}, MaxTail)
               PROVE  t \in Seq(Char)
    OBVIOUS
  <2>1. PICK m \in 0..MaxTail : t \in [1..m -> Letter \cup {"/"}]
    BY DEF BoundedSeq, SeqOf
  <2>2. m \in Nat /\ t \in [1..m -> Char]
    BY <2>1, PathAssumption DEF Char
  <2> QED
    BY <2>2
<1>2. Starts \subseteq Seq(Char)
  BY PathAssumption DEF Char
<1>3. ASSUME NEW s \in Seq(Char), NEW t \in Seq(Char)
      PROVE  s \o t \in Seq(Char)
  OBVIOUS
<1> SUFFICES ASSUME NEW p \in Paths
             PROVE  p \in Seq(Char)
  OBVIOUS
<1>4. PICK s \in Starts, t \in BoundedSeq(Letter \cup {"/"}, MaxTail) : p = s \o t
  BY DEF Paths
<1> QED
  BY <1>1, <1>2, <1>3, <1>4, Zenon

\* The record of create_root is not the null pointer.
LEMMA RootNotNull ==
    ASSUME NEW d, NEW ps
    PROVE  [drive |-> d, parts |-> ps] # NULL
<1>1. DOMAIN [drive |-> d, parts |-> ps] = {"drive", "parts"} /\ DOMAIN NULL = {"drive"}
  BY DEF NULL
<1> QED
  BY <1>1

LEMMA InitPInv == Init => PInv
<1> SUFFICES ASSUME Init
             PROVE  PInv
  OBVIOUS
<1>1. path \in Seq(Char)
  BY PathsAreSequences DEF Init
<1> QED
  BY <1>1, PathAssumption
     DEF Init, PInv, Typed, Untouched, Remaining, Taken, NothingLost

LEMMA NextPInv == PInv /\ [Next]_vars => PInv'
<1> SUFFICES ASSUME PInv, [Next]_vars
             PROVE  PInv'
  OBVIOUS
<1> USE DEF PInv
<1>1. CASE Refuse
  BY <1>1 DEF Refuse, Typed, Untouched, Remaining, Taken, NothingLost
<1>2. CASE create_root
  <2>1. Len(path) \in 3..MAX_PATH_LEN
    BY <1>2, PathAssumption DEF create_root, TooLong, validate_path_format, Typed
  <2>2. rest' \in Seq(Char) /\ Len(rest') + 3 = Len(path)
    <3> DEFINE r == SubSeq(path, 4, Len(path))
    <3>1. rest' = r /\ path \in Seq(Char)
      BY <1>2 DEF create_root, Typed
    <3>2. \A i \in 4..Len(path) : path[i] \in Char
      BY <3>1
    <3>3. r \in Seq(Char) /\ Len(r) = IF 4 <= Len(path) THEN Len(path) - 4 + 1 ELSE 0
      BY <2>1, <3>1, <3>2, SubSeqProperties
    <3>4. Len(path) \in Nat /\ Len(path) >= 3
      BY <2>1, <3>1
    <3> HIDE DEF r
    <3>5. PICK k \in Nat : k = Len(path)
      BY <3>4, Zenon
    <3>6. k >= 3 /\ Len(r) = IF 4 <= k THEN k - 4 + 1 ELSE 0
      BY <3>3, <3>4, <3>5, Zenon
    <3>7. k = 3 \/ k >= 4
      BY <3>6
    <3>8. Len(r) + 3 = k
      BY <3>6, <3>7
    <3> QED
      BY <3>1, <3>3, <3>5, <3>8, Zenon
  <2>3. part' = <<>>
    BY <1>2 DEF create_root, Untouched
  <2>4. /\ root' = [drive |-> path[1], parts |-> <<>>] /\ blocks' = 2
        /\ pc' = "part" /\ path' = path
    BY <1>2 DEF create_root
  <2>5. root' # NULL /\ root'.drive = path[1] /\ root'.parts = <<>>
    BY <2>4, RootNotNull
  <2>6. Typed' /\ Untouched' /\ Remaining'
    BY <2>1, <2>2, <2>3, <2>4, PathAssumption DEF Typed, Untouched, Remaining
  <2>7. Taken'
    BY <2>4, <2>5 DEF Taken, NothingLost
  <2> QED
    BY <2>6, <2>7
<1>3. CASE CopyChar
  <2>1. rest # <<>> /\ pc = "part" /\ pc' = "part"
    BY <1>3 DEF CopyChar, AtEnd
  <2>2. /\ part' \in Seq(Char) /\ Len(part') = Len(part) + 1
        /\ rest' \in Seq(Char) /\ Len(rest') = Len(rest) - 1
    BY <1>3, <2>1 DEF CopyChar, Typed
  <2>3. Typed' /\ Untouched'
    BY <1>3, <2>1, <2>2 DEF CopyChar, Typed, Untouched
  <2>4. Remaining'
    BY <2>1, <2>2, PathAssumption DEF Typed, Remaining
  <2>5. Taken'
    BY <1>3 DEF CopyChar, Taken, NothingLost
  <2> QED
    BY <2>3, <2>4, <2>5
<1>4. CASE AddPart
  <2>1. /\ rest' \in Seq(Char) /\ Len(rest') <= Len(rest)
        /\ part' = <<>>
        /\ pc = "part" /\ pc' = "part" /\ path' = path
    BY <1>4 DEF AddPart, SkipSlash, Typed
  <2>2. Typed' /\ Untouched' /\ Remaining'
    BY <2>1, PathAssumption DEF Typed, Untouched, Remaining
  <2>3. /\ root = [drive |-> root.drive, parts |-> root.parts]
        /\ root.parts \in Seq(Seq(Char))
        /\ blocks = 2 + 2 * Len(root.parts)
        /\ part \in Seq(Char)
    BY <2>1 DEF Taken, Typed
  <2>4. root' = [drive |-> root.drive, parts |-> Append(root.parts, part)]
    BY <1>4, <2>3 DEF AddPart
  <2>5. root' # NULL /\ root'.drive = root.drive /\ root'.parts = Append(root.parts, part)
    BY <2>4, RootNotNull
  <2>6. /\ root'.parts \in Seq(Seq(Char)) /\ Len(root'.parts) = Len(root.parts) + 1
    BY <2>3, <2>5
  <2>7. blocks' = 2 + 2 * Len(root'.parts)
    BY <1>4, <2>3, <2>6 DEF AddPart
  <2>8. Taken'
    BY <2>1, <2>4, <2>5, <2>6, <2>7 DEF Taken, NothingLost
  <2> QED
    BY <2>2, <2>8
<1>5. CASE EmptyPart
  <2>1. /\ rest' \in Seq(Char) /\ part' = part /\ root' = root /\ path' = path
        /\ pc = "part" /\ pc' = "done" /\ blocks' = blocks - 1
    BY <1>5 DEF EmptyPart, SkipSlash, Typed
  <2>2. Typed' /\ Untouched' /\ Remaining'
    BY <2>1 DEF Typed, Untouched, Remaining
  <2>3. Taken'
    <3>1. root # NULL /\ blocks = 2 + 2 * Len(root.parts) /\ Len(root.parts) \in Nat
      BY <2>1 DEF Taken
    <3>2. blocks' = 1 + 2 * Len(root'.parts)
      BY <2>1, <3>1
    <3> QED
      BY <2>1, <3>1, <3>2 DEF Taken, NothingLost
  <2> QED
    BY <2>2, <2>3
<1>6. CASE UNCHANGED vars
  BY <1>6 DEF vars, Typed, Untouched, Remaining, Taken, NothingLost
<1> QED
  BY <1>1, <1>2, <1>3, <1>4, <1>5, <1>6 DEF Next

\* What has been copied and what is left never add up to more than the limit, and
\* the blocks taken are those of the parts, at every character of every path.
THEOREM ParserInvariant == Spec => []PInv
  BY InitPInv, NextPInv, PTL DEF Spec

\* No path of any length, and no component of it, makes get_path_part write past
\* the block it takes, the terminating zero included.
THEOREM PartsAlwaysFit == Spec => []PartFits
<1>1. PInv => PartFits
  BY DEF PInv, Remaining, PartFits
<1> QED
  BY <1>1, ParserInvariant, PTL

\* However the parsing ends, what has been taken is what parser_free would give
\* back: no block is lost on the way.
THEOREM NothingIsLost == Spec => []NothingLost
<1>1. PInv => NothingLost
  BY DEF PInv, Taken
<1> QED
  BY <1>1, ParserInvariant, PTL

-----------------------------------------------------------------------------
(* The components.                                                         *)

\* The ends behind a place.
Later(p, place) == {e \in Ends(p) : e > place}

NextEnd(p, place) == IF Later(p, place) = {} THEN place ELSE Min(Later(p, place))

\* The next end lies behind the place, with nothing that ends between them.
LEMMA NextEndLeast ==
    ASSUME NEW p \in Seq(Char), NEW place \in Nat
    PROVE  /\ NextEnd(p, place) \in Nat
           /\ Later(p, place) # {} =>
                 /\ NextEnd(p, place) \in Later(p, place)
                 /\ \A e \in Later(p, place) : NextEnd(p, place) <= e
<1>1. Len(p) \in Nat
  OBVIOUS
<1>2. Later(p, place) \in SUBSET Nat
  BY <1>1 DEF Later, Ends
<1>3. CASE Later(p, place) # {}
  <2>1. \E m \in Later(p, place) : \A k \in Later(p, place) : m <= k
    BY ONLY <1>2, <1>3, LeastElement
  <2>2. /\ Min(Later(p, place)) \in Later(p, place)
        /\ \A k \in Later(p, place) : Min(Later(p, place)) <= k
    BY ONLY <2>1 DEF Min
  <2> QED  BY <1>2, <1>3, <2>2 DEF NextEnd
<1> QED  BY <1>3 DEF NextEnd

\* The ends are defined, one behind the other.
LEMMA EndsDefined ==
    ASSUME NEW p \in Seq(Char)
    PROVE  /\ EndOf(p, 0) = 3
           /\ \A n \in Nat : EndOf(p, n) \in Nat /\ EndOf(p, n + 1) = NextEnd(p, EndOf(p, n))
<1> DEFINE Body(f) == [m \in Nat |-> IF m = 0 THEN 3
                                     ELSE LET before == f[m - 1]
                                              later == {e \in Ends(p) : e > before}
                                          IN  IF later = {} THEN before ELSE Min(later)]
<1>1. \A f : Body(f) = [m \in Nat |-> IF m = 0 THEN 3 ELSE NextEnd(p, f[m - 1])]
  BY DEF NextEnd, Later
<1>2. \E f : f = Body(f)
  <2> DEFINE step == [q \in Nat \X Nat |-> NextEnd(p, q[2])]
  <2>1. step \in [Nat \X Nat -> Nat]
    BY NextEndLeast
  <2>2. \A n \in Nat, v \in Nat : step[<<n, v>>] = NextEnd(p, v)
    OBVIOUS
  <2> HIDE DEF step
  <2>3. PICK f : Recursion(f, Nat, 3, step)
    BY ONLY 3 \in Nat, <2>1, RecursiveFunction
  <2>4. ASSUME NEW n \in Nat
        PROVE  f[n] = IF n = 0 THEN 3 ELSE NextEnd(p, f[n - 1])
    <3>1. CASE n = 0
      BY <2>3, <3>1 DEF Recursion
    <3>2. CASE n # 0
      <4>1. n \in Nat \ {0} /\ n - 1 \in Nat /\ f[n - 1] \in Nat
        BY <2>3, <3>2 DEF Recursion
      <4>2. f[n] = step[<<n, f[n - 1]>>]
        BY <2>3, <4>1 DEF Recursion
      <4> QED  BY ONLY <2>2, <4>1, <4>2
    <3> QED  BY <3>1, <3>2
  <2>5. f = [n \in Nat |-> f[n]] /\ f \in [Nat -> Nat]
    BY <2>3 DEF Recursion
  <2>6. f = Body(f)
    <3>1. [n \in Nat |-> f[n]] = [m \in Nat |-> IF m = 0 THEN 3 ELSE NextEnd(p, f[m - 1])]
      BY ONLY <2>4
    <3> HIDE DEF Body
    <3> QED  BY <1>1, <2>5, <3>1
  <2> HIDE DEF Body
  <2> QED  BY <2>6
<1> DEFINE end == CHOOSE f : f = Body(f)
<1>3. end = Body(end)
  <2> HIDE DEF Body
  <2> QED  BY <1>2
<1>4. \A n : EndOf(p, n) = end[n]
  BY DEF EndOf
<1> HIDE DEF end
<1>5. \A n \in Nat : end[n] = IF n = 0 THEN 3 ELSE NextEnd(p, end[n - 1])
  <2> HIDE DEF Body
  <2>1. end = [m \in Nat |-> IF m = 0 THEN 3 ELSE NextEnd(p, end[m - 1])]
    BY <1>1, <1>3
  <2> QED  BY <2>1
<1>6. \A n \in Nat : end[n + 1] = NextEnd(p, end[n])
  <2> SUFFICES ASSUME NEW n \in Nat
               PROVE  end[n + 1] = NextEnd(p, end[n])
    OBVIOUS
  <2>1. n + 1 \in Nat /\ n + 1 # 0 /\ (n + 1) - 1 = n
    OBVIOUS
  <2> QED  BY <1>5, <2>1
<1>7. \A n \in Nat : end[n] \in Nat
  <2> DEFINE Good == {n \in Nat : end[n] \in Nat}
  <2>1. 0 \in Good
    BY <1>5
  <2>2. ASSUME NEW n \in Good
        PROVE  n + 1 \in Good
    <3>1. n \in Nat /\ n + 1 \in Nat /\ end[n] \in Nat
      OBVIOUS
    <3>2. NextEnd(p, end[n]) \in Nat
      BY ONLY p \in Seq(Char), <3>1, NextEndLeast
    <3> QED  BY <1>6, <3>1, <3>2
  <2>3. Good \in SUBSET Nat
    OBVIOUS
  <2>4. Good = Nat
    <3> HIDE DEF Good
    <3> QED  BY <2>1, <2>2, <2>3, SetInduction
  <2> QED  BY <2>4
<1> QED  BY <1>4, <1>5, <1>6, <1>7

\* What has not been copied of a path is empty at its end, or begins with the next character.
LEMMA RestOfPath ==
    ASSUME NEW p \in Seq(Char), NEW k \in 0..Len(p), NEW r, r = SubSeq(p, k + 1, Len(p))
    PROVE  /\ r = <<>> <=> k = Len(p)
           /\ k < Len(p) => Head(r) = p[k + 1] /\ Tail(r) = SubSeq(p, k + 2, Len(p))
<1>1. Len(p) \in Nat /\ k \in Int /\ k + 1 \in Int
  OBVIOUS
<1>2. CASE k = Len(p)
  <2>1. Len(p) < k + 1
    BY <1>1, <1>2
  <2> QED  BY <1>1, <1>2, <2>1, SubSeqEmpty
<1>3. CASE k < Len(p)
  <2>1. k + 1 \in 1..Len(p) /\ Len(p) \in (k + 1)..Len(p) /\ (k + 1) + 1 = k + 2
    BY <1>1, <1>3
  <2>2. Head(r) = p[k + 1] /\ Tail(r) = SubSeq(p, k + 2, Len(p))
    BY <2>1, HeadTailOfSubSeq
  <2>3. Len(r) = Len(p) - (k + 1) + 1
    <3>1. \A i \in (k + 1)..Len(p) : p[i] \in Char
      BY <2>1
    <3>2. Len(SubSeq(p, k + 1, Len(p))) = IF k + 1 <= Len(p) THEN Len(p) - (k + 1) + 1 ELSE 0
      BY <1>1, <3>1, SubSeqProperties
    <3> QED  BY <2>1, <3>2
  <2>4. r # <<>>
    <3>1. Len(r) # 0
      BY ONLY <1>1, <1>3, <2>3
    <3>2. Len(<<>>) = 0
      OBVIOUS
    <3> QED  BY ONLY <3>1, <3>2
  <2> QED  BY <1>3, <2>2, <2>4
<1> QED  BY <1>1, <1>2, <1>3

\* A piece of a path with one character more.
LEMMA PieceGrows ==
    ASSUME NEW p \in Seq(Char), NEW k \in 0..(Len(p) - 1), NEW a \in 1..(k + 1)
    PROVE  Append(SubSeq(p, a, k), p[k + 1]) = SubSeq(p, a, k + 1)
<1>1. Len(p) \in Nat /\ k \in Int /\ a \in Int
  OBVIOUS
<1>2. a \in 1..Len(p) /\ k + 1 \in a..Len(p) /\ (k + 1) - 1 = k
  BY <1>1
<1>3. SubSeq(p, a, k + 1) = SubSeq(p, a, k) \o <<p[k + 1]>>
  BY <1>2, SubSeqRecursiveSecond
<1>4. SubSeq(p, a, k) \in Seq(Char)
  <2>1. \A i \in a..k : p[i] \in Char
    BY <1>1
  <2> QED  BY <1>1, <2>1, SubSeqProperties
<1>5. Append(SubSeq(p, a, k), p[k + 1]) = SubSeq(p, a, k) \o <<p[k + 1]>>
  BY <1>4
<1> QED  BY <1>3, <1>5

\* A piece that is not empty has a first and a last character.
LEMMA PieceIsEmpty ==
    ASSUME NEW p \in Seq(Char), NEW a \in 1..(Len(p) + 2), NEW k \in 0..Len(p)
    PROVE  SubSeq(p, a, k) = <<>> <=> k < a
<1>1. Len(p) \in Nat /\ k \in Int /\ a \in Int
  OBVIOUS
<1>2. CASE k < a
  BY <1>1, <1>2, SubSeqEmpty
<1>3. CASE ~(k < a)
  <2>1. \A i \in a..k : p[i] \in Char
    BY <1>1
  <2>2. Len(SubSeq(p, a, k)) = IF a <= k THEN k - a + 1 ELSE 0
    BY <1>1, <2>1, SubSeqProperties
  <2> QED  BY <1>1, <1>3, <2>2
<1> QED  BY <1>2, <1>3

\* m components have ended, and of the next one the characters up to `place' are copied.
\* Behind the end of the path there is nothing to copy.
Cut(m, place) ==
    /\ 3 + m <= EndOf(path, m) /\ EndOf(path, m) <= Len(path) + 1
    /\ place \in (EndOf(path, m) - 1)..Len(path)
    /\ place < EndOf(path, m) => EndOf(path, m) = Len(path) + 1
    /\ \A i \in (EndOf(path, m) + 1)..place : path[i] # "/"
    /\ rest = SubSeq(path, place + 1, Len(path))
    /\ part = SubSeq(path, EndOf(path, m) + 1, place)

\* The parts are the first components of the path.
PartsAreFirst ==
    /\ root = [drive |-> path[1], parts |-> root.parts]
    /\ \A n \in 1..Len(root.parts) :
          root.parts[n] = Component(path, n) /\ Component(path, n) # <<>>

Built ==
    /\ pc = "call" => rest = path
    /\ pc = "part" => /\ Proper
                      /\ PartsAreFirst
                      /\ \E place \in Nat : Cut(Len(root.parts), place)
    /\ ParsesComponents

\* What the check of the path asks for.
LEMMA ProperPath ==
    ASSUME path \in Seq(Char)
    PROVE  Proper <=> ~TooLong /\ validate_path_format
<1>1. Len(path) \in Nat /\ MAX_PATH_LEN \in Nat
  BY PathAssumption DEF PathAssumption
<1>2. ASSUME Len(path) >= 3
      PROVE  SubSeq(path, 2, 3) = <<":", "/">> <=> path[2] = ":" /\ path[3] = "/"
  <2>1. \A i \in 2..3 : path[i] \in Char
    BY <1>1, <1>2
  <2>2. /\ SubSeq(path, 2, 3) \in Seq(Char)
        /\ Len(SubSeq(path, 2, 3)) = 2
        /\ \A i \in 1..2 : SubSeq(path, 2, 3)[i] = path[2 + i - 1]
    BY <2>1, SubSeqProperties
  <2>3. SubSeq(path, 2, 3)[1] = path[2] /\ SubSeq(path, 2, 3)[2] = path[3]
    BY <2>2
  <2> DEFINE q == SubSeq(path, 2, 3)
  <2>4. q = <<":", "/">> => q[1] = ":" /\ q[2] = "/"
    <3> HIDE DEF q
    <3> QED  OBVIOUS
  <2>5. q[1] = ":" /\ q[2] = "/" => q = <<":", "/">>
    <3>1. q \in Seq(Char) /\ Len(q) = 2
      BY <2>2
    <3>2. <<":", "/">> \in Seq(Char) /\ Len(<<":", "/">>) = 2
      BY DEF Char
    <3> HIDE DEF q
    <3>3. SUFFICES ASSUME q[1] = ":", q[2] = "/"
                   PROVE  q = <<":", "/">>
      OBVIOUS
    <3>4. \A i \in 1..2 : q[i] = <<":", "/">>[i]
      BY <3>3
    <3> QED  BY ONLY <3>1, <3>2, <3>4, SeqEqual
  <2> QED  BY <2>3, <2>4, <2>5
<1> QED  BY <1>1, <1>2 DEF Proper, TooLong, validate_path_format

\* Before the first character nothing of the path behind its drive is copied.
LEMMA NothingCut ==
    ASSUME PInv, pc = "call", rest = path, create_root
    PROVE  Built'
<1>1. /\ path \in Seq(Char) /\ path' = path /\ pc' = "part" /\ part' = <<>>
      /\ root' = [drive |-> path[1], parts |-> <<>>]
      /\ rest' = SubSeq(path, 4, Len(path)) /\ Proper
  BY ProperPath DEF PInv, Typed, Untouched, create_root
<1>2. root'.parts = <<>> /\ root' = [drive |-> path'[1], parts |-> root'.parts] /\ Len(root'.parts) = 0
  BY <1>1
<1>3. Proper'
  BY <1>1 DEF Proper
<1>4. PartsAreFirst'
  BY <1>2 DEF PartsAreFirst
<1>5. Len(path) \in Nat /\ Len(path) >= 3 /\ EndOf(path, 0) = 3
  BY <1>1, EndsDefined DEF Proper
<1>6. SubSeq(path, 4, 3) = <<>>
  BY SubSeqEmpty
<1>7. Cut(0, 3)'
  BY <1>1, <1>5, <1>6 DEF Cut
<1> QED  BY <1>1, <1>2, <1>3, <1>4, <1>7 DEF Built, ParsesComponents

\* Of a path that is cut, what the next step looks at.
LEMMA CutNumbers ==
    ASSUME PInv, NEW m \in Nat, NEW place \in Nat, Cut(m, place)
    PROVE  /\ path \in Seq(Char) /\ Len(path) \in Nat /\ EndOf(path, m) \in Nat
           /\ 3 <= EndOf(path, m) /\ m <= Len(path)
           /\ place \in 0..Len(path)
           /\ part = <<>> <=> place <= EndOf(path, m)
           /\ AtEnd <=> (place < Len(path) => path[place + 1] = "/")
           /\ rest = <<>> <=> place = Len(path)
           /\ place < Len(path) => /\ Head(rest) = path[place + 1]
                                   /\ Tail(rest) = SubSeq(path, place + 2, Len(path))
<1>1. path \in Seq(Char) /\ Len(path) \in Nat /\ EndOf(path, m) \in Nat
  BY EndsDefined DEF PInv, Typed
<1>2. 3 <= EndOf(path, m) /\ m <= Len(path) /\ place \in 0..Len(path)
  BY <1>1 DEF Cut
<1>3. part = <<>> <=> place < EndOf(path, m) + 1
  <2>1. EndOf(path, m) + 1 \in 1..(Len(path) + 2)
    <3>1. EndOf(path, m) <= Len(path) + 1
      BY DEF Cut
    <3> QED  BY ONLY <1>1, <3>1
  <2>2. part = SubSeq(path, EndOf(path, m) + 1, place)
    BY DEF Cut
  <2> QED  BY ONLY <1>1, <1>2, <2>1, <2>2, PieceIsEmpty
<1>4. rest = SubSeq(path, place + 1, Len(path))
  BY DEF Cut
<1>5. /\ rest = <<>> <=> place = Len(path)
      /\ place < Len(path) => /\ Head(rest) = path[place + 1]
                              /\ Tail(rest) = SubSeq(path, place + 2, Len(path))
  BY ONLY <1>1, <1>2, <1>4, RestOfPath
<1> QED  BY <1>1, <1>2, <1>3, <1>5 DEF AtEnd

\* Where the copied component ends, the next end is.
LEMMA ComponentEnds ==
    ASSUME PInv, NEW m \in Nat, NEW place \in Nat, Cut(m, place), AtEnd
    PROVE  /\ EndOf(path, m + 1) = IF place < EndOf(path, m) THEN EndOf(path, m) ELSE place + 1
           /\ Component(path, m + 1) = part
<1> DEFINE e == EndOf(path, m)
           L == Len(path)
<1>1. /\ path \in Seq(Char) /\ L \in Nat /\ e \in Nat /\ 3 <= e /\ place \in 0..L
      /\ place < L => path[place + 1] = "/"
  BY CutNumbers
<1>2. /\ e <= L + 1 /\ place \in (e - 1)..L /\ (place < e => e = L + 1)
      /\ \A i \in (e + 1)..place : path[i] # "/"
      /\ part = SubSeq(path, e + 1, place)
  BY DEF Cut
<1>3. EndOf(path, m + 1) = NextEnd(path, e)
  BY <1>1, EndsDefined
<1>4. \A f : f \in Later(path, e) <=>
               /\ f \in 4..(L + 1) /\ f > e
               /\ f > L \/ path[f] = "/"
  BY DEF Later, Ends
<1>5. (m + 1) - 1 = m
  OBVIOUS
<1> HIDE DEF e, L
<1>6. CASE place < e
  <2>1. Later(path, e) = {}
    BY <1>1, <1>2, <1>4, <1>6
  <2>2. EndOf(path, m + 1) = e
    BY <1>3, <2>1 DEF NextEnd
  <2>3. Component(path, m + 1) = SubSeq(path, e + 1, e - 1)
    BY <1>5, <2>2 DEF Component, e
  <2>4. place = e - 1
    BY <1>1, <1>2, <1>6
  <2> QED  BY <1>2, <1>6, <2>2, <2>3, <2>4 DEF e
<1>7. CASE ~(place < e)
  <2>1. place + 1 \in Later(path, e)
    BY <1>1, <1>2, <1>4, <1>7
  <2>2. \A f \in Later(path, e) : place + 1 <= f
    <3> SUFFICES ASSUME NEW f \in Later(path, e), f < place + 1
                 PROVE  FALSE
      <4>1. \A f \in Later(path, e) : f \in Int
        BY <1>4
      <4> QED  BY <1>1, <4>1
    <3>1. f \in 4..(L + 1) /\ f > e /\ (f > L \/ path[f] = "/")
      BY <1>4
    <3>2. f \in (e + 1)..place /\ ~(f > L)
      BY <1>1, <3>1
    <3> QED  BY <1>2, <3>1, <3>2
  <2>3. /\ NextEnd(path, e) \in Later(path, e)
        /\ \A f \in Later(path, e) : NextEnd(path, e) <= f
    BY <1>1, <2>1, NextEndLeast
  <2>4. NextEnd(path, e) = place + 1
    <3>1. NextEnd(path, e) <= place + 1 /\ place + 1 <= NextEnd(path, e)
      BY <2>1, <2>2, <2>3
    <3>2. NextEnd(path, e) \in Int
      BY <1>1, <1>4, <2>3
    <3> QED  BY ONLY <1>1, <3>1, <3>2
  <2>5. Component(path, m + 1) = SubSeq(path, e + 1, (place + 1) - 1)
    BY <1>3, <1>5, <2>4 DEF Component, e
  <2>6. (place + 1) - 1 = place
    OBVIOUS
  <2> QED  BY <1>2, <1>3, <1>7, <2>4, <2>5, <2>6 DEF e
<1> QED  BY <1>6, <1>7

\* One character more is copied.
LEMMA CopyCharBuilt ==
    ASSUME PInv, Built, CopyChar
    PROVE  Built'
<1>1. /\ pc = "part" /\ pc' = "part" /\ path' = path /\ root' = root /\ ~AtEnd
      /\ part' = Append(part, Head(rest)) /\ rest' = Tail(rest)
  BY DEF CopyChar
<1>2. PICK m \in Nat : m = Len(root.parts)
  <2>1. root.parts \in Seq(Seq(Char))
    BY <1>1 DEF PInv, Taken
  <2>2. Len(root.parts) \in Nat
    BY <2>1
  <2> QED  BY ONLY <2>2
<1>3. PICK place \in Nat : Cut(m, place)
  BY <1>1, <1>2 DEF Built
<1>4. /\ path \in Seq(Char) /\ Len(path) \in Nat /\ EndOf(path, m) \in Nat
      /\ 3 <= EndOf(path, m) /\ place < Len(path) /\ path[place + 1] # "/"
      /\ Head(rest) = path[place + 1] /\ Tail(rest) = SubSeq(path, place + 2, Len(path))
  BY <1>1, <1>2, <1>3, CutNumbers
<1>5. /\ 3 + m <= EndOf(path, m) /\ EndOf(path, m) <= Len(path) + 1
      /\ EndOf(path, m) <= place
      /\ \A i \in (EndOf(path, m) + 1)..place : path[i] # "/"
      /\ part = SubSeq(path, EndOf(path, m) + 1, place)
  <2>1. /\ 3 + m <= EndOf(path, m) /\ EndOf(path, m) <= Len(path) + 1
        /\ place < EndOf(path, m) => EndOf(path, m) = Len(path) + 1
        /\ place \in (EndOf(path, m) - 1)..Len(path)
        /\ \A i \in (EndOf(path, m) + 1)..place : path[i] # "/"
        /\ part = SubSeq(path, EndOf(path, m) + 1, place)
    BY <1>3 DEF Cut
  <2>2. Len(path) \in Nat /\ EndOf(path, m) \in Nat /\ place < Len(path)
    BY <1>4
  <2>3. EndOf(path, m) <= place
    <3>1. place < EndOf(path, m) => EndOf(path, m) = Len(path) + 1
      BY <2>1
    <3>2. place \in (EndOf(path, m) - 1)..Len(path)
      BY <2>1
    <3> QED  BY ONLY <2>2, <3>1, <3>2, place \in Nat
  <2> QED  BY <2>1, <2>3
<1>6. part' = SubSeq(path, EndOf(path, m) + 1, place + 1)
  <2>1. place \in 0..(Len(path) - 1) /\ EndOf(path, m) + 1 \in 1..(place + 1)
    <3>1. place < Len(path) /\ EndOf(path, m) <= place /\ Len(path) \in Nat /\ EndOf(path, m) \in Nat
      BY <1>4, <1>5
    <3> QED  BY ONLY <3>1, place \in Nat
  <2> QED  BY <1>1, <1>4, <1>5, <2>1, PieceGrows
<1>7. rest' = SubSeq(path, (place + 1) + 1, Len(path))
  <2>1. (place + 1) + 1 = place + 2
    OBVIOUS
  <2> QED  BY ONLY <1>1, <1>4, <2>1
<1>8. \A i \in (EndOf(path, m) + 1)..(place + 1) : path[i] # "/"
  BY <1>4, <1>5
<1>9. place + 1 \in (EndOf(path, m) - 1)..Len(path) /\ ~(place + 1 < EndOf(path, m))
  <2>1. place < Len(path) /\ EndOf(path, m) <= place /\ Len(path) \in Nat /\ EndOf(path, m) \in Nat
    BY <1>4, <1>5
  <2> QED  BY ONLY <2>1, place \in Nat
<1>10. Cut(m, place + 1)'
  BY <1>1, <1>5, <1>6, <1>7, <1>8, <1>9 DEF Cut
<1>11. Proper' /\ PartsAreFirst'
  BY <1>1 DEF Built, Proper, PartsAreFirst
<1> QED  BY <1>1, <1>2, <1>10, <1>11 DEF Built, ParsesComponents

\* A component that is not empty becomes the next part.
LEMMA AddPartBuilt ==
    ASSUME PInv, Built, AddPart
    PROVE  Built'
<1>1. /\ pc = "part" /\ pc' = "part" /\ path' = path /\ AtEnd /\ part # <<>> /\ part' = <<>>
      /\ root' = [root EXCEPT !.parts = Append(root.parts, part)]
      /\ rest' = IF rest = <<>> THEN rest ELSE Tail(rest)
  BY DEF AddPart, SkipSlash
<1>2. PICK m \in Nat : m = Len(root.parts)
  <2>1. root.parts \in Seq(Seq(Char))
    BY <1>1 DEF PInv, Taken
  <2>2. Len(root.parts) \in Nat
    BY <2>1
  <2> QED  BY ONLY <2>2
<1>3. PICK place \in Nat : Cut(m, place)
  BY <1>1, <1>2 DEF Built
<1>4. /\ root.parts \in Seq(Seq(Char)) /\ part \in Seq(Char)
      /\ root = [drive |-> path[1], parts |-> root.parts] /\ Proper /\ PartsAreFirst
  BY <1>1 DEF PInv, Taken, Typed, Built, PartsAreFirst
<1>5. root' = [drive |-> path[1], parts |-> Append(root.parts, part)]
  <2>1. PICK ps : ps = root.parts
    OBVIOUS
  <2>2. root = [drive |-> path[1], parts |-> ps]
    BY ONLY <1>4, <2>1
  <2>3. root' = [root EXCEPT !.parts = Append(ps, part)]
    BY ONLY <1>1, <2>1
  <2>4. root' = [drive |-> path[1], parts |-> Append(ps, part)]
    BY ONLY <2>2, <2>3
  <2> QED  BY ONLY <2>1, <2>4
<1>6. root'.parts = Append(root.parts, part) /\ root' = [drive |-> path'[1], parts |-> root'.parts]
  BY <1>1, <1>5
<1>7. /\ Len(root'.parts) = m + 1
      /\ \A n \in 1..m : root'.parts[n] = root.parts[n]
      /\ root'.parts[m + 1] = part
  BY <1>2, <1>4, <1>6, AppendProperties
<1>8. /\ path \in Seq(Char) /\ Len(path) \in Nat /\ EndOf(path, m) \in Nat
      /\ 3 <= EndOf(path, m) /\ place \in 0..Len(path) /\ EndOf(path, m) < place
      /\ rest = <<>> <=> place = Len(path)
      /\ place < Len(path) => Tail(rest) = SubSeq(path, place + 2, Len(path))
  <2>1. /\ path \in Seq(Char) /\ Len(path) \in Nat /\ EndOf(path, m) \in Nat
        /\ 3 <= EndOf(path, m) /\ place \in 0..Len(path)
        /\ part = <<>> <=> place <= EndOf(path, m)
        /\ rest = <<>> <=> place = Len(path)
        /\ place < Len(path) => Tail(rest) = SubSeq(path, place + 2, Len(path))
    BY <1>3, CutNumbers
  <2>2. ~(place <= EndOf(path, m))
    BY <1>1, <2>1
  <2>3. EndOf(path, m) < place
    BY ONLY <2>1, <2>2, place \in Nat
  <2> QED  BY <2>1, <2>3
<1>9. EndOf(path, m + 1) = place + 1 /\ Component(path, m + 1) = part
  <2>1. ~(place < EndOf(path, m))
    BY <1>8
  <2> QED  BY <1>1, <1>2, <1>3, <2>1, ComponentEnds
<1>10. PartsAreFirst'
  <2>1. ASSUME NEW n \in 1..(m + 1)
        PROVE  root'.parts[n] = Component(path, n) /\ Component(path, n) # <<>>
    <3>1. CASE n \in 1..m
      BY <1>2, <1>4, <1>7, <3>1 DEF PartsAreFirst
    <3>2. CASE n = m + 1
      BY <1>1, <1>7, <1>9, <3>2
    <3> QED  BY <1>3, <3>1, <3>2
  <2> QED  BY <1>1, <1>6, <1>7, <2>1 DEF PartsAreFirst
<1>11. 3 + (m + 1) <= place + 1 /\ place + 1 <= Len(path) + 1
  <2>1. 3 + m <= EndOf(path, m)
    BY <1>2, <1>3 DEF Cut
  <2> QED  BY <1>3, <1>8, <2>1
<1>12. \E next \in Nat : Cut(m + 1, next)'
  <2>1. CASE place = Len(path)
    <3>1. rest' = SubSeq(path, Len(path) + 1, Len(path))
      BY <1>1, <1>2, <1>3, <1>8, <2>1 DEF Cut
    <3>2. SubSeq(path, (place + 1) + 1, Len(path)) = <<>>
      <4>1. Len(path) < (place + 1) + 1 /\ (place + 1) + 1 \in Int
        BY <1>8, <2>1
      <4> QED  BY <1>8, <4>1, SubSeqEmpty
    <3>3. Len(path) \in ((place + 1) - 1)..Len(path) /\ place + 1 = Len(path) + 1
      BY <1>8, <2>1
    <3>4. \A i \in ((place + 1) + 1)..Len(path) : FALSE
      BY <1>8, <2>1
    <3>5. Cut(m + 1, Len(path))'
      <4> DEFINE f == EndOf(path, m + 1)
      <4>1. f = place + 1 /\ EndOf(path', m + 1) = f /\ path' = path
        BY <1>1, <1>9
      <4> HIDE DEF f
      <4>2. 3 + (m + 1) <= f /\ f <= Len(path) + 1
        BY <1>11, <4>1
      <4>3. Len(path) \in (f - 1)..Len(path) /\ f = Len(path) + 1
        BY <2>1, <3>3, <4>1
      <4>4. \A i \in (f + 1)..(Len(path)) : path[i] # "/"
        BY <3>4, <4>1
      <4>5. rest' = SubSeq(path, (Len(path)) + 1, Len(path))
        BY <3>1
      <4>6. part' = SubSeq(path, f + 1, Len(path))
        BY <1>1, <2>1, <3>2, <4>1
      <4> QED  BY ONLY <4>1, <4>2, <4>3, <4>4, <4>5, <4>6 DEF Cut
    <3> QED  BY <1>8, <3>5
  <2>2. CASE place < Len(path)
    <3>1. rest' = SubSeq(path, (place + 1) + 1, Len(path))
      <4>1. (place + 1) + 1 = place + 2
        OBVIOUS
      <4> QED  BY <1>1, <1>8, <2>2, <4>1
    <3>2. SubSeq(path, (place + 1) + 1, place + 1) = <<>>
      <4>1. place + 1 < (place + 1) + 1 /\ (place + 1) + 1 \in Int /\ place + 1 \in Int
        OBVIOUS
      <4> QED  BY <4>1, SubSeqEmpty
    <3>3. place + 1 \in ((place + 1) - 1)..Len(path) /\ ~(place + 1 < place + 1)
      BY <1>8, <2>2
    <3>4. \A i \in ((place + 1) + 1)..(place + 1) : FALSE
      OBVIOUS
    <3>5. Cut(m + 1, place + 1)'
      <4> DEFINE f == EndOf(path, m + 1)
      <4>1. f = place + 1 /\ EndOf(path', m + 1) = f /\ path' = path
        BY <1>1, <1>9
      <4> HIDE DEF f
      <4>2. 3 + (m + 1) <= f /\ f <= Len(path) + 1
        BY <1>11, <4>1
      <4>3. place + 1 \in (f - 1)..Len(path) /\ ~(place + 1 < f)
        BY <3>3, <4>1
      <4>4. \A i \in (f + 1)..(place + 1) : path[i] # "/"
        BY <3>4, <4>1
      <4>5. rest' = SubSeq(path, (place + 1) + 1, Len(path))
        BY <3>1
      <4>6. part' = SubSeq(path, f + 1, place + 1)
        BY <1>1, <3>2, <4>1
      <4> QED  BY ONLY <4>1, <4>2, <4>3, <4>4, <4>5, <4>6 DEF Cut
    <3> QED  BY <3>5
  <2> QED  BY <1>8, <2>1, <2>2
<1>13. Proper'
  BY <1>1, <1>4 DEF Proper
<1> QED  BY <1>1, <1>7, <1>10, <1>12, <1>13 DEF Built, ParsesComponents

\* An empty component is the first one that is empty: the parts before it are all that come.
LEMMA EmptyPartBuilt ==
    ASSUME PInv, Built, EmptyPart
    PROVE  Built'
<1>1. /\ pc = "part" /\ pc' = "done" /\ path' = path /\ root' = root /\ AtEnd /\ part = <<>>
  BY DEF EmptyPart
<1>2. PICK place \in Nat : Cut(Len(root.parts), place)
  BY <1>1 DEF Built
<1> DEFINE m == Len(root.parts)
           C(n) == Component(path, n)
           empty == {n \in 1..(Len(path) + 1) : C(n) = <<>>}
<1>3. m \in Nat /\ root.parts \in Seq(Seq(Char)) /\ Proper /\ PartsAreFirst
  BY <1>1 DEF PInv, Taken, Built
<1>4. Len(path) \in Nat /\ m <= Len(path) /\ C(m + 1) = <<>>
  BY <1>1, <1>2, <1>3, CutNumbers, ComponentEnds
<1>5. \A n \in 1..m : C(n) # <<>> /\ root.parts[n] = C(n)
  BY <1>3 DEF PartsAreFirst
<1>6. Min(empty) = m + 1
  <2> HIDE DEF C, m
  <2>1. m + 1 \in empty
    BY <1>3, <1>4
  <2>2. \A n \in empty : n \in Int /\ m + 1 <= n
    BY <1>3, <1>4, <1>5
  <2> HIDE DEF empty
  <2>3. \E x \in empty : \A y \in empty : x <= y
    BY <2>1, <2>2
  <2>4. Min(empty) \in empty /\ Min(empty) <= m + 1
    BY ONLY <2>1, <2>3 DEF Min
  <2> QED  BY <1>3, <2>2, <2>4
<1>7. root.parts = [n \in 1..m |-> C(n)]
  <2>1. root.parts = [n \in 1..m |-> root.parts[n]]
    BY <1>3
  <2> HIDE DEF C, m
  <2> QED  BY <1>5, <2>1
<1>8. Components(path) = [n \in 1..m |-> C(n)]
  <2>1. Components(path) = [n \in 1..(Min(empty) - 1) |-> C(n)]
    BY DEF Components
  <2>2. (m + 1) - 1 = m
    BY <1>3
  <2> HIDE DEF empty, C, m
  <2> QED  BY <1>6, <2>1, <2>2
<1>9. root = [drive |-> path[1], parts |-> Components(path)]
  BY <1>3, <1>7, <1>8 DEF PartsAreFirst
<1>10. ParsesComponents'
  BY <1>1, <1>3, <1>9 DEF ParsesComponents, Proper
<1> QED  BY <1>1, <1>10 DEF Built

\* A path that is refused is no proper one.
LEMMA RefuseBuilt ==
    ASSUME PInv, Built, Refuse
    PROVE  Built'
<1>1. /\ pc = "call" /\ pc' = "done" /\ path' = path /\ root' = root /\ root = NULL
      /\ TooLong \/ ~validate_path_format
  BY DEF Refuse, PInv, Untouched
<1>2. ~Proper
  BY <1>1, ProperPath DEF PInv, Typed
<1> QED  BY <1>1, <1>2 DEF Built, ParsesComponents, Proper

\* Every path that starts with a drive and is short enough is cut into its components, in
\* their order and up to the first empty one, and every other path is refused.
THEOREM ParsesEveryPath == Spec => []ParsesComponents
<1>1. Init => Built
  BY DEF Init, Built, ParsesComponents
<1>2. ASSUME PInv, Built, [Next]_vars
      PROVE  Built'
  <2>1. CASE Refuse
    BY <1>2, <2>1, RefuseBuilt
  <2>2. CASE create_root
    BY <1>2, <2>2, NothingCut DEF create_root, Built
  <2>3. CASE CopyChar
    BY <1>2, <2>3, CopyCharBuilt
  <2>4. CASE AddPart
    BY <1>2, <2>4, AddPartBuilt
  <2>5. CASE EmptyPart
    BY <1>2, <2>5, EmptyPartBuilt
  <2>6. CASE UNCHANGED vars
    BY <1>2, <2>6 DEF vars, Built, Proper, PartsAreFirst, Cut, ParsesComponents
  <2> QED  BY <1>2, <2>1, <2>2, <2>3, <2>4, <2>5, <2>6 DEF Next
<1>3. Built => ParsesComponents
  BY DEF Built
<1> QED  BY <1>1, <1>2, <1>3, ParserInvariant, PTL DEF Spec
=============================================================================
