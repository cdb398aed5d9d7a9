-------------------------- MODULE TasEditorProofs --------------------------
(***************************************************************************)
(* Proofs about the TAS editor, for any movies, any lag, any length of the *)
(* history and any number of edits.                                        *)
(***************************************************************************)
EXTENDS TasEditor, WellFoundedInduction, SequenceTheorems, TLAPS

(* Numbers. *)

\* A set of naturals that is not empty has a least element.
LEMMA LeastElement ==
  ASSUME NEW T, T \subseteq Nat, T # {}
  PROVE  \E x \in T : \A y \in T : x <= y
<1> DEFINE Less == {ss \in Nat \X Nat : ss[1] < ss[2]}
<1>1. IsWellFoundedOn(Less, Nat)
  BY NatLessThanWellFounded DEF OpToRel
<1>2. PICK x \in T : \A y \in T : <<y, x>> \notin Less
  <2> HIDE DEF Less
  <2> QED BY <1>1, WFMin
<1>3. \A y \in T : ~ (y < x)
  BY <1>2
<1> QED BY <1>2, <1>3

\* Induction, in the form "a set of naturals with 0 and closed under successor
\* is everything".
LEMMA SetInduction ==
  ASSUME NEW T, 0 \in T, \A n \in Nat : n \in T => n + 1 \in T
  PROVE  Nat \subseteq T
<1> DEFINE Rest == Nat \ T
<1> SUFFICES ASSUME Rest # {} PROVE FALSE
  OBVIOUS
<1>1. PICK x \in Rest : \A y \in Rest : x <= y
  <2>1. Rest \subseteq Nat
    OBVIOUS
  <2> HIDE DEF Rest
  <2> QED BY <2>1, LeastElement
<1>2. x - 1 \in Nat /\ (x - 1) + 1 = x /\ ~ (x <= x - 1)
  BY <1>1
<1>3. x - 1 \in T
  BY <1>1, <1>2
<1> QED BY <1>1, <1>2, <1>3

\* A bounded set of naturals that is not empty has a largest element.
LEMMA LargestElement ==
  ASSUME NEW T, T \subseteq Nat, T # {}, NEW n \in Nat, \A x \in T : x <= n
  PROVE  \E x \in T : \A y \in T : y <= x
<1> DEFINE U == {n - x : x \in T}
<1>1. U \subseteq Nat /\ U # {}
  <2>1. \A x \in T : n - x \in Nat
    OBVIOUS
  <2>2. PICK x \in T : TRUE
    OBVIOUS
  <2>3. n - x \in U
    OBVIOUS
  <2> QED BY <2>1, <2>3
<1>2. PICK u \in U : \A v \in U : u <= v
  <2> HIDE DEF U
  <2> QED BY <1>1, LeastElement
<1>3. PICK x \in T : u = n - x
  OBVIOUS
<1>4. ASSUME NEW y \in T PROVE y <= x
  <2>1. n - x <= n - y
    BY <1>2, <1>3
  <2> QED BY <2>1
<1> QED BY <1>4

LEMMA LeastOf ==
  ASSUME NEW S, S \subseteq Nat, S # {}
  PROVE  Least(S) \in S /\ \A g \in S : Least(S) <= g
<1>1. \E x \in S : \A y \in S : x <= y
  BY LeastElement
<1> QED BY <1>1 DEF Least

-----------------------------------------------------------------------------
(* Movies.  Records are compared for every frame, the last of the bounded  *)
(* model included.                                                         *)

AgreeBefore(a, b, n) == \A f \in Nat : f < n => At(a, f) = At(b, f)
Alike(a, b) == \A f \in Nat : At(a, f) = At(b, f)

LEMMA Bounded ==
  ASSUME NEW S, NEW m
  PROVE  m \in UNION {[1..n -> S] : n \in Frames} <=> m \in Seq(S) /\ Len(m) <= MaxFrames
<1> USE TasEditorAssumption DEF Frames
<1>1. ASSUME NEW n \in Frames, m \in [1..n -> S]
      PROVE  m \in Seq(S) /\ Len(m) <= MaxFrames
  BY <1>1
<1>2. ASSUME m \in Seq(S), Len(m) <= MaxFrames
      PROVE  \E n \in Frames : m \in [1..n -> S]
  BY <1>2, LenProperties
<1> QED BY <1>1, <1>2

LEMMA MoviesBounded == \A m : m \in Movies <=> m \in Seq(Inputs) /\ Len(m) <= MaxFrames
BY Bounded DEF Movies

LEMMA LagLogsBounded == \A m : m \in LagLogs <=> m \in Seq(Lags) /\ Len(m) <= MaxFrames
BY Bounded DEF LagLogs

LEMMA AtIsInput ==
  ASSUME NEW m \in Seq(Inputs), NEW f \in Nat
  PROVE  At(m, f) \in Inputs
BY TasEditorAssumption, ElementOfSeq, LenProperties DEF At

LEMMA PlayedProperties ==
  ASSUME NEW m \in Seq(Inputs), NEW n \in Nat
  PROVE  /\ Played(m, n) \in Seq(Inputs)
         /\ Len(Played(m, n)) = n
         /\ \A f \in Nat : f < n => Played(m, n)[f + 1] = At(m, f)
         /\ \A f \in Nat : At(Played(m, n), f) = IF f < n THEN At(m, f) ELSE Blank
<1>1. \A i \in 1..n : At(m, i - 1) \in Inputs
  BY AtIsInput
<1>2. Played(m, n) \in [1..n -> Inputs]
  BY <1>1 DEF Played
<1>3. Played(m, n) \in Seq(Inputs) /\ Len(Played(m, n)) = n
  BY <1>2
<1>4. ASSUME NEW f \in Nat, f < n PROVE Played(m, n)[f + 1] = At(m, f)
  BY <1>4 DEF Played
<1>5. \A f \in Nat : At(Played(m, n), f) = IF f < n THEN At(m, f) ELSE Blank
  BY <1>3, <1>4 DEF At
<1> QED BY <1>3, <1>4, <1>5

\* What was played is decided by the frames before the one reached.
LEMMA PlayedAgree ==
  ASSUME NEW a, NEW b, NEW n \in Nat, AgreeBefore(a, b, n)
  PROVE  Played(a, n) = Played(b, n)
<1>1. \A i \in 1..n : At(a, i - 1) = At(b, i - 1)
  BY DEF AgreeBefore
<1> QED BY <1>1 DEF Played

LEMMA PlayedNext ==
  ASSUME NEW m \in Seq(Inputs), NEW n \in Nat
  PROVE  Append(Played(m, n), At(m, n)) = Played(m, n + 1)
<1> DEFINE a == Played(m, n)
           b == Played(m, n + 1)
           c == Append(a, At(m, n))
<1>1. a \in Seq(Inputs) /\ Len(a) = n /\ \A f \in Nat : f < n => a[f + 1] = At(m, f)
  BY PlayedProperties
<1>2. b \in Seq(Inputs) /\ Len(b) = n + 1 /\ \A f \in Nat : f < n + 1 => b[f + 1] = At(m, f)
  <2>1. n + 1 \in Nat
    OBVIOUS
  <2> QED BY <2>1, PlayedProperties
<1> HIDE DEF a, b
<1>3. /\ c \in Seq(Inputs) /\ Len(c) = n + 1
      /\ \A j \in 1..n : c[j] = a[j]
      /\ c[n + 1] = At(m, n)
  BY <1>1, AtIsInput, AppendProperties
<1> HIDE DEF c
<1>4. ASSUME NEW i \in 1..n + 1 PROVE c[i] = b[i]
  <2>1. i - 1 \in Nat /\ (i - 1) + 1 = i /\ i - 1 < n + 1
    BY <1>4
  <2>2. b[i] = At(m, i - 1)
    BY <1>2, <2>1
  <2>3. CASE i = n + 1
    BY <1>3, <2>2, <2>3
  <2>4. CASE i # n + 1
    <3>1. i \in 1..n /\ i - 1 < n
      BY <2>1, <2>4
    <3>2. a[i] = At(m, i - 1)
      BY <1>1, <2>1, <3>1
    <3> QED BY <1>3, <2>2, <3>1, <3>2
  <2> QED BY <2>3, <2>4
<1>5. c = b
  BY <1>2, <1>3, <1>4, SeqEqual
<1> QED BY <1>5 DEF a, b, c

LEMMA PaddedProperties ==
  ASSUME NEW m \in Seq(Inputs), NEW n \in Nat
  PROVE  /\ Padded(m, n) \in Seq(Inputs) /\ Alike(Padded(m, n), m)
         /\ Len(Padded(m, n)) = IF Len(m) < n THEN n ELSE Len(m)
<1> DEFINE k == IF Len(m) < n THEN n ELSE Len(m)
<1>1. k \in Nat /\ Len(m) <= k
  BY LenProperties
<1>2. ASSUME NEW f \in Nat PROVE At(Played(m, k), f) = At(m, f)
  <2>1. At(Played(m, k), f) = IF f < k THEN At(m, f) ELSE Blank
    BY <1>1, PlayedProperties
  <2> QED BY <2>1, <1>1, LenProperties DEF At
<1> QED BY <1>1, <1>2, PlayedProperties DEF Padded, Alike

-----------------------------------------------------------------------------
(* The frame from which two movies differ. *)

\* From where on an edit makes savestates wrong: the movies agree before it,
\* or everywhere if there is no such frame.
Parts(first, a, b) ==
  /\ first \in Nat \cup {-1}
  /\ first >= 0 => AgreeBefore(a, b, first)
  /\ first < 0 => Alike(a, b)

\* INPUTLOG::findFirstChange between snapshots: up to what it returns, or
\* everywhere, the movies agree, provided they do outside what it compares.
LEMMA FirstChangeProperties ==
  ASSUME NEW mine \in Seq(Inputs), NEW theirs \in Seq(Inputs),
         NEW start \in Nat, NEW end \in Nat \cup {-1},
         AgreeBefore(mine, theirs, start),
         end = -1 \/ \A f \in Nat : f > end => At(mine, f) = At(theirs, f)
  PROVE  Parts(FirstChange(mine, theirs, start, end), mine, theirs)
<1> SUFFICES ASSUME NEW change, change = FirstChange(mine, theirs, start, end)
             PROVE  Parts(change, mine, theirs)
  OBVIOUS
<1> DEFINE last == IF end < 0 \/ end >= Len(mine) THEN Len(mine) - 1 ELSE end
           differ == {f \in start..last : At(mine, f) # At(theirs, f)}
<1>0. Len(mine) \in Nat /\ Len(theirs) \in Nat
  BY LenProperties
<1>1. last \in Int /\ differ \subseteq Nat
  BY <1>0
<1>2. CASE differ # {}
  <2>1. change = Least(differ)
    BY <1>2 DEF FirstChange
  <2>2. Least(differ) \in differ /\ \A g \in differ : Least(differ) <= g
    <3> HIDE DEF differ
    <3> QED BY <1>1, <1>2, LeastOf
  <2>3. change \in start..last /\ \A g \in differ : change <= g
    <3> QED BY <2>1, <2>2
  <2>4. ASSUME NEW f \in Nat, f < change PROVE At(mine, f) = At(theirs, f)
    <3>1. CASE f < start
      BY <3>1 DEF AgreeBefore
    <3>2. CASE f >= start
      <4>1. f \in start..last /\ f \notin differ
        BY <1>1, <2>3, <2>4, <3>2
      <4> QED BY <4>1
    <3> QED BY <3>1, <3>2
  <2>5. change \in Nat
    BY <1>1, <2>3
  <2> QED BY <2>4, <2>5 DEF AgreeBefore, Parts
<1>3. CASE differ = {}
  <2>1. change = IF Len(mine) < Len(theirs) THEN Len(mine) ELSE -1
    BY <1>3 DEF FirstChange
  <2>2. \A f \in Nat : f <= last => At(mine, f) = At(theirs, f)
    <3> SUFFICES ASSUME NEW f \in Nat, f <= last PROVE At(mine, f) = At(theirs, f)
      OBVIOUS
    <3>1. CASE f < start
      BY <3>1 DEF AgreeBefore
    <3>2. CASE f >= start
      <4>1. f \in start..last
        BY <1>1, <3>2
      <4> QED BY <4>1, <1>3
    <3> QED BY <3>1, <3>2
  <2>3. \A f \in Nat : f < Len(mine) => At(mine, f) = At(theirs, f)
    <3>1. CASE end = -1 \/ end >= Len(mine)
      <4>1. last = Len(mine) - 1
        BY <3>1, <1>0
      <4> HIDE DEF last
      <4> QED BY <1>0, <2>2, <4>1
    <3>2. CASE end # -1 /\ end < Len(mine)
      <4>1. last = end
        BY <3>2
      <4> HIDE DEF last
      <4> QED BY <2>2, <3>2, <4>1
    <3> QED BY <3>1, <3>2, <1>0
  <2>4. Len(mine) >= Len(theirs) => Alike(mine, theirs)
    <3> SUFFICES ASSUME Len(mine) >= Len(theirs), NEW f \in Nat
                 PROVE  At(mine, f) = At(theirs, f)
      BY DEF Alike
    <3>1. CASE f < Len(mine)
      BY <3>1, <2>3
    <3>2. CASE f >= Len(mine)
      BY <1>0, <3>2 DEF At
    <3> QED BY <3>1, <3>2, <1>0
  <2> QED BY <1>0, <2>1, <2>3, <2>4 DEF AgreeBefore, Parts
<1> QED BY <1>2, <1>3

\* INPUTLOG::findFirstChange between a snapshot and the movie.
LEMMA FirstChangeOfMovieProperties ==
  ASSUME NEW mine \in Seq(Inputs), NEW movie \in Seq(Inputs)
  PROVE  Parts(FirstChangeOfMovie(mine, movie), mine, movie)
<1> SUFFICES ASSUME NEW change, change = FirstChangeOfMovie(mine, movie)
             PROVE  Parts(change, mine, movie)
  OBVIOUS
<1> DEFINE both == IF Len(mine) < Len(movie) THEN Len(mine) ELSE Len(movie)
           differ == {f \in 0..both - 1 : At(mine, f) # At(movie, f)}
<1>0. Len(mine) \in Nat /\ Len(movie) \in Nat /\ both \in Nat
  BY LenProperties
<1>1. differ \subseteq Nat
  BY <1>0
<1>2. CASE differ # {}
  <2>1. change = Least(differ)
    BY <1>2 DEF FirstChangeOfMovie
  <2>2. Least(differ) \in differ /\ \A g \in differ : Least(differ) <= g
    <3> HIDE DEF differ
    <3> QED BY <1>1, <1>2, LeastOf
  <2>3. change \in 0..both - 1 /\ \A g \in differ : change <= g
    <3> QED BY <2>1, <2>2
  <2>4. ASSUME NEW f \in Nat, f < change PROVE At(mine, f) = At(movie, f)
    <3>1. f \in 0..both - 1 /\ f \notin differ
      BY <1>0, <2>3, <2>4
    <3> QED BY <3>1
  <2>5. change \in Nat
    BY <1>0, <2>3
  <2> QED BY <2>4, <2>5 DEF AgreeBefore, Parts
<1>3. CASE differ = {}
  <2>1. change = IF Len(mine) # Len(movie) THEN both ELSE -1
    BY <1>3 DEF FirstChangeOfMovie
  <2>2. \A f \in Nat : f < both => At(mine, f) = At(movie, f)
    <3> SUFFICES ASSUME NEW f \in Nat, f < both PROVE At(mine, f) = At(movie, f)
      OBVIOUS
    <3>1. f \in 0..both - 1
      BY <1>0
    <3> QED BY <3>1, <1>3
  <2>3. Len(mine) = Len(movie) => Alike(mine, movie)
    <3> SUFFICES ASSUME Len(mine) = Len(movie), NEW f \in Nat
                 PROVE  At(mine, f) = At(movie, f)
      BY DEF Alike
    <3>1. CASE f < Len(mine)
      BY <3>1, <2>2
    <3>2. CASE f >= Len(mine)
      BY <1>0, <3>2 DEF At
    <3> QED BY <3>1, <3>2, <1>0
  <2> HIDE DEF both
  <2> QED BY <1>0, <2>1, <2>2, <2>3 DEF AgreeBefore, Parts
<1> QED BY <1>2, <1>3

LEMMA FirstLagChangeProperties ==
  \A mine, theirs : FirstLagChange(mine, theirs) \in Nat \cup {-1}
<1> SUFFICES ASSUME NEW mine, NEW theirs
             PROVE  FirstLagChange(mine, theirs) \in Nat \cup {-1}
  OBVIOUS
<1> DEFINE S == {f \in Frames : {LagAt(mine, f), LagAt(theirs, f)} = {"lagged", "not"}}
<1>1. S \subseteq Nat
  BY TasEditorAssumption DEF Frames
<1>2. FirstLagChange(mine, theirs) = Least(S)
  BY DEF FirstLagChange
<1> HIDE DEF S
<1>3. CASE S = {}
  BY <1>2, <1>3 DEF Least
<1>4. CASE S # {}
  BY <1>1, <1>2, <1>4, LeastOf
<1> QED BY <1>3, <1>4

\* The earlier of two changes is no later than the change of the input, and
\* there is one if the input changed.
LEMMA EarlierProperties ==
  ASSUME NEW change \in Nat \cup {-1}, NEW lagChange \in Nat \cup {-1}
  PROVE  /\ Earlier(change, lagChange) \in Nat \cup {-1}
         /\ change >= 0 => /\ Earlier(change, lagChange) >= 0
                          /\ Earlier(change, lagChange) <= change
BY DEF Earlier

LEMMA EarlierParts ==
  ASSUME NEW a, NEW b, NEW change, NEW lagChange \in Nat \cup {-1}, Parts(change, a, b)
  PROVE  Parts(Earlier(change, lagChange), a, b)
<1> SUFFICES ASSUME NEW first, first = Earlier(change, lagChange)
             PROVE  Parts(first, a, b)
  OBVIOUS
<1>1. change \in Nat \cup {-1}
  BY DEF Parts
<1>2. first \in Nat \cup {-1} /\ (change >= 0 => first >= 0 /\ first <= change)
  BY <1>1, EarlierProperties
<1>3. CASE change >= 0
  BY <1>1, <1>2, <1>3 DEF Parts, AgreeBefore
<1>4. CASE change < 0
  BY <1>1, <1>2, <1>4 DEF Parts, AgreeBefore, Alike
<1> QED BY <1>1, <1>3, <1>4

-----------------------------------------------------------------------------
(* Records inserted, erased, changed and cut. *)

LEMMA InsertAtProperties ==
  ASSUME NEW S, NEW seq \in Seq(S), NEW i \in 1..(Len(seq) + 1), NEW elt \in S
  PROVE  /\ InsertAt(seq, i, elt) \in Seq(S)
         /\ Len(InsertAt(seq, i, elt)) = Len(seq) + 1
         /\ \A j \in 1..(i - 1) : InsertAt(seq, i, elt)[j] = seq[j]
<1>0. Len(seq) \in Nat
  BY LenProperties
<1> DEFINE a == SubSeq(seq, 1, i - 1)
           b == SubSeq(seq, i, Len(seq))
<1>1. a \in Seq(S) /\ Len(a) = i - 1 /\ \A j \in 1..(i - 1) : a[j] = seq[j]
  <2>1. \A j \in 1..(i - 1) : seq[j] \in S
    BY <1>0, ElementOfSeq
  <2> QED BY <1>0, <2>1, SubSeqProperties
<1>2. b \in Seq(S) /\ Len(b) = Len(seq) - i + 1
  <2>1. \A j \in i..Len(seq) : seq[j] \in S
    BY <1>0, ElementOfSeq
  <2> QED BY <1>0, <2>1, SubSeqProperties
<1>3. <<elt>> \in Seq(S) /\ Len(<<elt>>) = 1
  OBVIOUS
<1>4. InsertAt(seq, i, elt) = (a \o <<elt>>) \o b
  BY DEF InsertAt
<1> HIDE DEF a, b
<1> DEFINE c == a \o <<elt>>
<1>5. c \in Seq(S) /\ Len(c) = i /\ \A j \in 1..(i - 1) : c[j] = a[j]
  BY <1>0, <1>1, <1>3, ConcatProperties
<1> HIDE DEF c
<1>6. /\ c \o b \in Seq(S) /\ Len(c \o b) = Len(c) + Len(b)
      /\ \A j \in 1..(Len(c) + Len(b)) : (c \o b)[j] = IF j <= Len(c) THEN c[j] ELSE b[j - Len(c)]
  BY <1>2, <1>5, ConcatProperties
<1>7. Len(c \o b) = Len(seq) + 1 /\ \A j \in 1..(i - 1) : (c \o b)[j] = seq[j]
  BY <1>0, <1>1, <1>2, <1>5, <1>6
<1> QED BY <1>4, <1>6, <1>7 DEF c

LEMMA PrefixProperties ==
  ASSUME NEW S, NEW seq \in Seq(S), NEW n \in Nat, n <= Len(seq)
  PROVE  /\ SubSeq(seq, 1, n) \in Seq(S)
         /\ Len(SubSeq(seq, 1, n)) = n
         /\ \A j \in 1..n : SubSeq(seq, 1, n)[j] = seq[j]
<1>1. Len(seq) \in Nat
  BY LenProperties
<1>2. \A j \in 1..n : seq[j] \in S
  BY <1>1, ElementOfSeq
<1> QED BY <1>1, <1>2, SubSeqProperties

LEMMA ErasedProperties ==
  ASSUME NEW S, NEW seq \in Seq(S), NEW f \in Nat, NEW n \in Nat
  PROVE  /\ Erased(seq, f, n) \in Seq(S)
         /\ Len(Erased(seq, f, n)) <= Len(seq)
         /\ f <= Len(seq) => Len(Erased(seq, f, n)) >= f
         /\ f >= Len(seq) => Erased(seq, f, n) = seq
         /\ \A j \in 1..f : j <= Len(seq) => Erased(seq, f, n)[j] = seq[j]
<1>0. Len(seq) \in Nat
  BY LenProperties
<1>1. CASE f >= Len(seq)
  <2>0. ~ (f < Len(seq))
    BY <1>0, <1>1
  <2>1. Erased(seq, f, n) = seq
    BY <2>0, Zenon DEF Erased
  <2> QED BY <1>0, <1>1, <2>1
<1>2. CASE f < Len(seq)
  <2> DEFINE a == SubSeq(seq, 1, f)
             b == SubSeq(seq, f + n + 1, Len(seq))
  <2>1. a \in Seq(S) /\ Len(a) = f /\ \A j \in 1..f : a[j] = seq[j]
    BY <1>0, <1>2, PrefixProperties
  <2>2. b \in Seq(S) /\ Len(b) = IF f + n + 1 <= Len(seq) THEN Len(seq) - (f + n + 1) + 1 ELSE 0
    <3>1. \A j \in (f + n + 1)..Len(seq) : seq[j] \in S
      BY <1>0, ElementOfSeq
    <3> QED BY <1>0, <3>1, SubSeqProperties
  <2>3. Erased(seq, f, n) = a \o b
    BY <1>2 DEF Erased
  <2> HIDE DEF a, b
  <2>4. /\ a \o b \in Seq(S) /\ Len(a \o b) = Len(a) + Len(b)
        /\ \A j \in 1..(Len(a) + Len(b)) :
             (a \o b)[j] = IF j <= Len(a) THEN a[j] ELSE b[j - Len(a)]
    BY <2>1, <2>2, ConcatProperties
  <2>5. Len(b) \in Nat /\ Len(b) <= Len(seq) - f
    BY <1>0, <1>2, <2>2
  <2>6. \A j \in 1..f : (a \o b)[j] = seq[j]
    BY <2>1, <2>4, <2>5
  <2> QED BY <1>0, <1>2, <2>1, <2>3, <2>4, <2>5, <2>6
<1> QED BY <1>0, <1>1, <1>2

\* Sequences that are the same up to a frame agree before it.
LEMMA AgreeSame ==
  ASSUME NEW a, NEW b, NEW n \in Nat, Len(a) \in Nat, Len(b) \in Nat,
         n <= Len(a), n <= Len(b), \A j \in 1..n : a[j] = b[j]
  PROVE  AgreeBefore(a, b, n)
<1> SUFFICES ASSUME NEW f \in Nat, f < n PROVE At(a, f) = At(b, f)
  BY DEF AgreeBefore
<1>1. f + 1 \in 1..n
  OBVIOUS
<1> QED BY <1>1 DEF At

LEMMA MovieInserted ==
  ASSUME NEW m \in Seq(Inputs), NEW f \in Nat, f <= Len(m), NEW input \in Inputs
  PROVE  /\ InsertAt(m, f + 1, input) \in Seq(Inputs)
         /\ Len(InsertAt(m, f + 1, input)) = Len(m) + 1
         /\ AgreeBefore(InsertAt(m, f + 1, input), m, f)
<1>0. Len(m) \in Nat /\ f + 1 \in 1..(Len(m) + 1) /\ (f + 1) - 1 = f
  BY LenProperties
<1>1. /\ InsertAt(m, f + 1, input) \in Seq(Inputs)
      /\ Len(InsertAt(m, f + 1, input)) = Len(m) + 1
      /\ \A j \in 1..f : InsertAt(m, f + 1, input)[j] = m[j]
  BY <1>0, InsertAtProperties
<1> QED BY <1>0, <1>1, AgreeSame

LEMMA MovieErased ==
  ASSUME NEW m \in Seq(Inputs), NEW f \in Nat, NEW n \in Nat
  PROVE  /\ Erased(m, f, n) \in Seq(Inputs)
         /\ Len(Erased(m, f, n)) <= Len(m)
         /\ AgreeBefore(Erased(m, f, n), m, f)
<1>0. Len(m) \in Nat
  BY LenProperties
<1>1. /\ Erased(m, f, n) \in Seq(Inputs)
      /\ Len(Erased(m, f, n)) <= Len(m) /\ Len(Erased(m, f, n)) \in Nat
      /\ f <= Len(m) => Len(Erased(m, f, n)) >= f
      /\ f >= Len(m) => Erased(m, f, n) = m
      /\ \A j \in 1..f : j <= Len(m) => Erased(m, f, n)[j] = m[j]
  BY ErasedProperties, LenProperties
<1>2. CASE f >= Len(m)
  BY <1>1, <1>2 DEF AgreeBefore
<1>3. CASE f < Len(m)
  <2>1. \A j \in 1..f : Erased(m, f, n)[j] = m[j]
    BY <1>0, <1>1, <1>3
  <2> QED BY <1>0, <1>1, <1>3, <2>1, AgreeSame
<1> QED BY <1>0, <1>1, <1>2, <1>3

LEMMA MovieChanged ==
  ASSUME NEW m \in Seq(Inputs), NEW f \in Nat, f < Len(m), NEW input \in Inputs
  PROVE  /\ [m EXCEPT ![f + 1] = input] \in Seq(Inputs)
         /\ Len([m EXCEPT ![f + 1] = input]) = Len(m)
         /\ \A g \in Nat : At([m EXCEPT ![f + 1] = input], g) = IF g = f THEN input ELSE At(m, g)
<1>0. Len(m) \in Nat /\ f + 1 \in 1..Len(m)
  BY LenProperties
<1>1. /\ [m EXCEPT ![f + 1] = input] \in Seq(Inputs)
      /\ Len([m EXCEPT ![f + 1] = input]) = Len(m)
      /\ \A j \in 1..Len(m) : [m EXCEPT ![f + 1] = input][j] = IF j = f + 1 THEN input ELSE m[j]
  BY <1>0, ExceptSeq
<1>2. ASSUME NEW g \in Nat
      PROVE  At([m EXCEPT ![f + 1] = input], g) = IF g = f THEN input ELSE At(m, g)
  <2>1. CASE g < Len(m)
    <3>1. g + 1 \in 1..Len(m) /\ (g + 1 = f + 1 <=> g = f)
      BY <1>0, <2>1
    <3> QED BY <1>1, <2>1, <3>1 DEF At
  <2>2. CASE g >= Len(m)
    BY <1>0, <1>1, <2>2 DEF At
  <2> QED BY <1>0, <2>1, <2>2
<1> QED BY <1>1, <1>2

LEMMA MovieCut ==
  ASSUME NEW m \in Seq(Inputs), NEW n \in Nat, n <= Len(m)
  PROVE  /\ SubSeq(m, 1, n) \in Seq(Inputs) /\ Len(SubSeq(m, 1, n)) = n
         /\ AgreeBefore(SubSeq(m, 1, n), m, n)
<1>1. Len(m) \in Nat
  BY LenProperties
<1>2. /\ SubSeq(m, 1, n) \in Seq(Inputs) /\ Len(SubSeq(m, 1, n)) = n
      /\ \A j \in 1..n : SubSeq(m, 1, n)[j] = m[j]
  BY PrefixProperties
<1> DEFINE c == SubSeq(m, 1, n)
<1>3. Len(c) \in Nat /\ n <= Len(c) /\ \A k \in 1..n : c[k] = m[k]
  BY <1>2
<1>4. AgreeBefore(c, m, n)
  <2> HIDE DEF c
  <2> QED BY <1>1, <1>3, AgreeSame
<1> QED BY <1>2, <1>4

LEMMA MovieKept ==
  ASSUME NEW m \in Seq(Inputs), NEW n \in Nat
  PROVE  /\ Append(Kept(m, n), Blank) \in Seq(Inputs)
         /\ Append(Kept(m, n), Blank) # <<>>
         /\ Len(Append(Kept(m, n), Blank)) <= n + 1
         /\ AgreeBefore(Append(Kept(m, n), Blank), m, n)
<1>0. Len(m) \in Nat
  BY LenProperties
<1> DEFINE k == IF n < Len(m) THEN n ELSE Len(m)
           c == SubSeq(m, 1, k)
           w == Append(c, Blank)
<1>1. k \in Nat /\ k <= Len(m) /\ k <= n /\ (k < n => k = Len(m))
  BY <1>0
<1>2. Kept(m, n) = c
  BY DEF Kept
<1> HIDE DEF k
<1>3. c \in Seq(Inputs) /\ Len(c) = k /\ \A j \in 1..k : c[j] = m[j]
  BY <1>1, PrefixProperties
<1> HIDE DEF c
<1>4. /\ w \in Seq(Inputs) /\ w # <<>> /\ Len(w) = k + 1
      /\ \A j \in 1..k : w[j] = c[j]
      /\ w[k + 1] = Blank
  BY <1>1, <1>3, AppendProperties, TasEditorAssumption
<1>5. ASSUME NEW f \in Nat, f < n PROVE At(w, f) = At(m, f)
  <2>1. CASE f < k
    <3>1. f + 1 \in 1..k
      BY <1>1, <2>1
    <3>2. w[f + 1] = m[f + 1]
      BY <1>3, <1>4, <3>1
    <3> QED BY <1>0, <1>1, <1>4, <2>1, <3>2 DEF At
  <2>2. CASE f >= k
    <3>1. f >= Len(m)
      BY <1>1, <1>5, <2>2
    <3>2. At(m, f) = Blank
      BY <1>0, <3>1 DEF At
    <3>3. At(w, f) = Blank
      <4>1. CASE f = k
        BY <1>1, <1>4, <4>1 DEF At
      <4>2. CASE f # k
        BY <1>1, <1>4, <2>2, <4>2 DEF At
      <4> QED BY <4>1, <4>2
    <3> QED BY <3>2, <3>3
  <2> QED BY <1>1, <2>1, <2>2
<1>6. AgreeBefore(w, m, n)
  BY <1>5 DEF AgreeBefore
<1>7. Len(w) <= n + 1
  BY <1>1, <1>4
<1> QED BY <1>2, <1>4, <1>6, <1>7

\* What is done to a LagLog leaves a LagLog.
LEMMA LagLogTypes ==
  ASSUME NEW log \in Seq(Lags)
  PROVE  /\ \A f \in Nat : LagAt(log, f) \in Lags
         /\ \A f \in Nat, lag \in Lags : LagSet(log, f, lag) \in Seq(Lags)
         /\ \A f \in Nat, lag \in Lags : LagInserted(log, f, lag) \in Seq(Lags)
         /\ \A f, n \in Nat : Erased(log, f, n) \in Seq(Lags)
         /\ \A f \in Int : /\ LagInvalidated(log, f) \in Seq(Lags)
                           /\ Len(LagInvalidated(log, f)) <= Len(log)
<1>0. Len(log) \in Nat
  BY LenProperties
<1>1. ASSUME NEW f \in Nat PROVE LagAt(log, f) \in Lags
  <2>1. CASE f < Len(log)
    <3>1. f + 1 \in 1..Len(log)
      BY <1>0, <2>1
    <3> QED BY <2>1, <3>1, ElementOfSeq DEF LagAt
  <2>2. CASE ~ (f < Len(log))
    BY <2>2 DEF LagAt, Lags
  <2> QED BY <2>1, <2>2
<1>2. ASSUME NEW f \in Nat, NEW lag \in Lags PROVE LagSet(log, f, lag) \in Seq(Lags)
  <2> DEFINE n == IF Len(log) <= f THEN f + 1 ELSE Len(log)
  <2>1. n \in Nat
    BY <1>0
  <2>2. \A i \in 1..n : (IF i = f + 1 THEN lag ELSE LagAt(log, i - 1)) \in Lags
    BY <1>1, <2>1
  <2>3. LagSet(log, f, lag) \in [1..n -> Lags]
    BY <2>2 DEF LagSet
  <2> QED BY <2>1, <2>3
<1>3. ASSUME NEW f \in Nat, NEW lag \in Lags PROVE LagInserted(log, f, lag) \in Seq(Lags)
  <2>1. CASE f < Len(log)
    <3>1. f + 1 \in 1..(Len(log) + 1)
      BY <1>0, <2>1
    <3> QED BY <2>1, <3>1, InsertAtProperties DEF LagInserted
  <2>2. CASE ~ (f < Len(log))
    BY <1>2, <2>2 DEF LagInserted
  <2> QED BY <2>1, <2>2
<1>4. \A f, n \in Nat : Erased(log, f, n) \in Seq(Lags)
  BY ErasedProperties
<1>5. ASSUME NEW f \in Int
      PROVE  /\ LagInvalidated(log, f) \in Seq(Lags)
             /\ Len(LagInvalidated(log, f)) <= Len(log)
  <2>1. CASE f >= 0 /\ f < Len(log)
    <3>1. SubSeq(log, 1, f) \in Seq(Lags) /\ Len(SubSeq(log, 1, f)) = f
      BY <1>0, <2>1, PrefixProperties
    <3> QED BY <1>0, <2>1, <3>1 DEF LagInvalidated
  <2>2. CASE ~ (f >= 0 /\ f < Len(log))
    BY <1>0, <2>2 DEF LagInvalidated
  <2> QED BY <2>1, <2>2
<1> QED BY <1>1, <1>2, <1>3, <1>4, <1>5

-----------------------------------------------------------------------------
(* Editors.  In the middle of an action a movie may be longer than the      *)
(* model's bound, which is on what an action leaves: Wide does not bound it. *)

WideSnapshots ==
  [inputs : Seq(Inputs), lagLog : Seq(Lags), kind : {"init", "edit", "set", "record", "bookmark"},
   tag : Frames, slot : Slots, backup : Bookmarks]
Wide ==
  [movie : Seq(Inputs), machine : Movies, savestates : [Frames -> Movies \cup {NoState}],
   greenzoneSize : 0..MaxFrames + 1, lagLog : Seq(Lags),
   snapshots : [Positions -> WideSnapshots], start : Positions, cursor : Positions,
   total : 1..HistorySize, bookmarks : [Slots -> Bookmarks], past : Seq(Movies)]

\* The fields of the History and the Bookmarks, and those of the machine.
SameLog(a, b) ==
  /\ a.snapshots = b.snapshots /\ a.start = b.start /\ a.cursor = b.cursor
  /\ a.total = b.total /\ a.bookmarks = b.bookmarks /\ a.past = b.past
SameMachine(a, b) ==
  /\ a.machine = b.machine /\ a.savestates = b.savestates
  /\ a.greenzoneSize = b.greenzoneSize

\* The savestates, and the machine, are what playing the movie leads to.
Cached(e, movie) ==
  \A f \in Frames : e.savestates[f] # NoState =>
    f < e.greenzoneSize /\ e.savestates[f] = Played(movie, f)
Faithful(e, movie) == Cached(e, movie) /\ e.machine = Played(movie, Len(e.machine))

LEMMA WideFields ==
  ASSUME NEW e \in Wide
  PROVE  /\ e.movie \in Seq(Inputs) /\ Len(e.movie) \in Nat
         /\ e.machine \in Movies /\ Frame(e) \in Frames /\ Frame(e) \in Nat
         /\ e.savestates \in [Frames -> Movies \cup {NoState}]
         /\ e.greenzoneSize \in 0..MaxFrames + 1 /\ e.lagLog \in Seq(Lags)
         /\ e.snapshots \in [Positions -> WideSnapshots]
         /\ e.start \in Positions /\ e.cursor \in Positions /\ e.total \in 1..HistorySize
         /\ e.bookmarks \in [Slots -> Bookmarks] /\ e.past \in Seq(Movies)
<1>1. /\ e.movie \in Seq(Inputs) /\ e.machine \in Movies
      /\ e.savestates \in [Frames -> Movies \cup {NoState}]
      /\ e.greenzoneSize \in 0..MaxFrames + 1 /\ e.lagLog \in Seq(Lags)
      /\ e.snapshots \in [Positions -> WideSnapshots]
      /\ e.start \in Positions /\ e.cursor \in Positions /\ e.total \in 1..HistorySize
      /\ e.bookmarks \in [Slots -> Bookmarks] /\ e.past \in Seq(Movies)
  BY DEF Wide
<1>2. Len(e.movie) \in Nat
  BY <1>1, LenProperties
<1>3. Frame(e) \in Nat /\ Frame(e) <= MaxFrames
  BY <1>1, MoviesBounded, LenProperties DEF Frame
<1>4. Frame(e) \in Frames
  BY <1>3, TasEditorAssumption DEF Frames
<1> QED BY <1>1, <1>2, <1>3, <1>4

\* Only the savestates and the size of the Greenzone are replaced, or only the
\* machine.
WithGreenzone(e, s, g) == [e EXCEPT !.savestates = s, !.greenzoneSize = g]
WithMachine(e, m) == [e EXCEPT !.machine = m]

LEMMA WithGreenzoneFields ==
  ASSUME NEW e \in Wide, NEW s \in [Frames -> Movies \cup {NoState}], NEW g \in 0..MaxFrames + 1
  PROVE  LET r == WithGreenzone(e, s, g)
         IN /\ r \in Wide /\ SameLog(r, e) /\ r.movie = e.movie /\ r.lagLog = e.lagLog
            /\ r.machine = e.machine /\ r.savestates = s /\ r.greenzoneSize = g
BY DEF Wide, SameLog, WithGreenzone

LEMMA WithMachineFields ==
  ASSUME NEW e \in Wide, NEW m \in Movies
  PROVE  LET r == WithMachine(e, m)
         IN /\ r \in Wide /\ SameLog(r, e) /\ r.movie = e.movie /\ r.lagLog = e.lagLog
            /\ r.machine = m /\ r.savestates = e.savestates
            /\ r.greenzoneSize = e.greenzoneSize
BY DEF Wide, SameLog, WithMachine

\* GREENZONE::invalidate leaves savestates of the movie as it is now.
LEMMA InvalidateProperties ==
  ASSUME NEW e \in Wide, e.movie # <<>>, NEW old, NEW after,
         Parts(after, e.movie, old), Cached(e, old), NEW r, r = Invalidate(e, after)
  PROVE  /\ r \in Wide /\ SameLog(r, e) /\ r.movie = e.movie /\ r.lagLog = e.lagLog
         /\ r.machine = e.machine /\ Cached(r, e.movie)
         /\ after < 0 => r = e
         /\ after >= 0 => /\ r.greenzoneSize <= after + 1
                          /\ r.greenzoneSize <= Len(e.movie)
                          /\ \A f \in Frames : f <= after /\ f < Len(e.movie) =>
                               r.savestates[f] = e.savestates[f]
<1> DEFINE last == IF after >= Len(e.movie) THEN Len(e.movie) - 1 ELSE after
           s == [f \in Frames |-> IF f > last THEN NoState ELSE e.savestates[f]]
           g == IF e.greenzoneSize > last + 1 THEN last + 1 ELSE e.greenzoneSize
<1>1. after \in Nat \cup {-1} /\ Len(e.movie) \in Nat /\ Len(e.movie) > 0
  BY WideFields, EmptySeq DEF Parts
<1>2. CASE after < 0
  <2>1. r = e
    BY <1>2 DEF Invalidate
  <2>2. \A f \in Frames : Played(e.movie, f) = Played(old, f)
    BY <1>2, TasEditorAssumption, PlayedAgree DEF Parts, Alike, AgreeBefore, Frames
  <2>3. Cached(e, e.movie)
    BY <2>2 DEF Cached
  <2>4. SameLog(e, e)
    BY DEF SameLog
  <2> QED BY <1>1, <1>2, <2>1, <2>3, <2>4
<1>3. CASE after >= 0
  <2>1. r = WithGreenzone(e, s, g)
    BY <1>1, <1>3 DEF Invalidate, WithGreenzone
  <2>2. last \in Nat /\ last <= after /\ last < Len(e.movie)
        /\ (\A f \in Frames : f <= after /\ f < Len(e.movie) => f <= last)
    BY <1>1, <1>3, TasEditorAssumption DEF Frames
  <2> HIDE DEF last
  <2>3. s \in [Frames -> Movies \cup {NoState}]
    BY WideFields
  <2>4. g \in 0..MaxFrames + 1 /\ g <= last + 1
    BY <2>2, WideFields, TasEditorAssumption
  <2>5. /\ r \in Wide /\ SameLog(r, e) /\ r.movie = e.movie /\ r.lagLog = e.lagLog
        /\ r.machine = e.machine /\ r.savestates = s /\ r.greenzoneSize = g
    <3> HIDE DEF s, g
    <3> QED BY <2>1, <2>3, <2>4, WithGreenzoneFields
  <2>6. ASSUME NEW f \in Frames, r.savestates[f] # NoState
        PROVE  f < r.greenzoneSize /\ r.savestates[f] = Played(e.movie, f)
    <3>1. f <= last /\ r.savestates[f] = e.savestates[f]
      BY <2>2, <2>5, <2>6, TasEditorAssumption DEF Frames
    <3>2. f < e.greenzoneSize /\ e.savestates[f] = Played(old, f)
      BY <2>6, <3>1 DEF Cached
    <3>3. f < r.greenzoneSize
      BY <2>2, <2>5, <3>1, <3>2, WideFields, TasEditorAssumption DEF Frames
    <3>4. f \in Nat /\ AgreeBefore(e.movie, old, f)
      BY <1>1, <1>3, <2>2, <3>1, TasEditorAssumption DEF Parts, AgreeBefore, Frames
    <3>5. Played(e.movie, f) = Played(old, f)
      BY <3>4, PlayedAgree
    <3> QED BY <3>1, <3>2, <3>3, <3>5
  <2>7. ASSUME NEW f \in Frames, f <= after, f < Len(e.movie)
        PROVE  r.savestates[f] = e.savestates[f]
    <3>1. ~ (f > last)
      BY <2>2, <2>7, TasEditorAssumption DEF Frames
    <3> QED BY <2>5, <3>1
  <2>8. r.greenzoneSize <= after + 1 /\ r.greenzoneSize <= Len(e.movie)
    <3> HIDE DEF g
    <3> QED BY <1>1, <1>3, <2>2, <2>4, <2>5
  <2> QED BY <1>1, <1>3, <2>5, <2>6, <2>7, <2>8 DEF Cached
<1> QED BY <1>1, <1>2, <1>3

\* The machine may stay where it is, and where it is afterwards.
Stays(e, frame, force) == ~force /\ Frame(e) <= frame /\ Frame(e) < e.greenzoneSize
Lands(e, frame, force, r) ==
  /\ \/ r.savestates[Frame(r)] # NoState
     \/ Frame(r) = 0
     \/ r = e /\ Stays(e, frame, force)
  /\ force /\ frame >= 0 => Frame(r) <= frame
  /\ force /\ frame \in Frames /\ e.savestates[frame] # NoState => Frame(r) = frame

\* PLAYBACK::setPlaybackAboveOrToFrame takes the machine to a place of the
\* movie: to that of a savestate, to the beginning, or it stays, which is right
\* if it was at such a place.
LEMMA AboveOrToProperties ==
  ASSUME NEW e \in Wide, e.movie # <<>>, NEW frame \in Nat \cup {-1},
         NEW force \in BOOLEAN, Cached(e, e.movie),
         Stays(e, frame, force) => e.machine = Played(e.movie, Frame(e)),
         NEW r, r = AboveOrTo(e, frame, force)
  PROVE  /\ r \in Wide /\ SameLog(r, e) /\ r.movie = e.movie /\ r.lagLog = e.lagLog
         /\ r.savestates = e.savestates /\ r.greenzoneSize = e.greenzoneSize
         /\ r.machine = Played(r.movie, Len(r.machine))
         /\ Lands(e, frame, force, r)
<1> DEFINE top == IF frame < e.greenzoneSize THEN frame ELSE e.greenzoneSize - 1
           here == IF ~force /\ Frame(e) <= top THEN {Frame(e)} ELSE {}
           near == {f \in 0..top : ~Empty(e, f)} \cup here
           nearest == CHOOSE f \in near : \A g \in near : g <= f
<1>0. /\ e.movie \in Seq(Inputs) /\ Len(e.movie) \in Nat /\ Frame(e) \in Nat
      /\ e.greenzoneSize \in Nat /\ e.greenzoneSize <= MaxFrames + 1
      /\ <<>> \in Movies /\ SameLog(e, e)
  <2>1. <<>> \in Seq(Inputs) /\ Len(<<>>) <= MaxFrames
    BY TasEditorAssumption
  <2>2. <<>> \in Movies
    BY <2>1, MoviesBounded
  <2>3. SameLog(e, e)
    BY DEF SameLog
  <2> QED BY <2>2, <2>3, WideFields, TasEditorAssumption
<1>1. /\ top \in Int /\ top <= frame /\ top < e.greenzoneSize /\ top <= MaxFrames
      /\ 0..top \subseteq Frames
      /\ frame < e.greenzoneSize => top = frame
  BY <1>0, TasEditorAssumption DEF Frames
<1>2. \A f \in 0..top : Empty(e, f) <=> e.savestates[f] = NoState
  BY <1>0, <1>1 DEF Empty
<1>3. force => here = {}
  OBVIOUS
<1>4. CASE near = {}
  <2>1. r = WithMachine(e, <<>>)
    <3>1. r = [e EXCEPT !.machine = <<>>, !.movie = IF @ = <<>> THEN <<Blank>> ELSE @]
      BY <1>4, Zenon DEF AboveOrTo
    <3> QED BY <3>1 DEF WithMachine, Wide
  <2> HIDE DEF top, near
  <2>2. /\ r \in Wide /\ SameLog(r, e) /\ r.movie = e.movie /\ r.lagLog = e.lagLog
        /\ r.machine = <<>> /\ r.savestates = e.savestates
        /\ r.greenzoneSize = e.greenzoneSize
    BY <1>0, <2>1, WithMachineFields
  <2>3. Len(r.machine) = 0 /\ Frame(r) = 0
    BY <2>2 DEF Frame
  <2>4. Played(r.movie, 0) = <<>>
    BY <1>0, <2>2, PlayedProperties
  <2>5. ASSUME frame \in Frames, force, e.savestates[frame] # NoState PROVE FALSE
    <3>1. frame < e.greenzoneSize /\ frame \in 0..top
      BY <1>1, <2>5, TasEditorAssumption DEF Cached, Frames
    <3>2. frame \in near
      BY <1>2, <2>5, <3>1 DEF near
    <3> QED BY <1>4, <3>2
  <2>6. force /\ frame >= 0 => Frame(r) <= frame
    BY <2>3
  <2> QED BY <2>2, <2>3, <2>4, <2>5, <2>6 DEF Lands
<1>5. CASE near # {}
  <2>1. near \subseteq Nat /\ \A f \in near : f <= MaxFrames
    <3>1. \A f \in 0..top : f \in Nat /\ f <= MaxFrames
      BY <1>1, TasEditorAssumption
    <3>2. \A f \in here : f \in 0..top
      BY <1>0, <1>1
    <3> QED BY <3>1, <3>2
  <2>2. \E f \in near : \A g \in near : g <= f
    <3> HIDE DEF near
    <3> QED BY <1>5, <2>1, LargestElement, TasEditorAssumption
  <2>3. nearest \in near /\ \A g \in near : g <= nearest
    <3> HIDE DEF near
    <3> QED BY <2>2
  <2>4. CASE nearest \in here
    <3>1. r = e
      BY <1>5, <2>4, Zenon DEF AboveOrTo
    <3>2. ~force /\ Frame(e) <= top
      BY <2>4
    <3>3. ~force /\ Frame(e) <= frame /\ Frame(e) < e.greenzoneSize
      <4> HIDE DEF top
      <4> QED BY <1>0, <1>1, <3>2
    <3> QED BY <1>0, <3>1, <3>3 DEF Frame, Stays, Lands
  <2>5. CASE nearest \notin here
    <3>1. r = WithMachine(e, e.savestates[nearest])
      BY <1>5, <2>5, Zenon DEF AboveOrTo, WithMachine
    <3>2. nearest \in 0..top /\ ~Empty(e, nearest)
      <4> HIDE DEF nearest
      <4> QED BY <2>3, <2>5
    <3>3. nearest \in Frames /\ e.savestates[nearest] # NoState
      <4> HIDE DEF nearest, top
      <4> QED BY <1>1, <1>2, <3>2
    <3>4. e.savestates[nearest] = Played(e.movie, nearest) /\ e.savestates[nearest] \in Movies
      <4> HIDE DEF nearest
      <4> QED BY <3>3, WideFields DEF Cached
    <3>5. /\ r \in Wide /\ SameLog(r, e) /\ r.movie = e.movie /\ r.lagLog = e.lagLog
          /\ r.machine = e.savestates[nearest] /\ r.savestates = e.savestates
          /\ r.greenzoneSize = e.greenzoneSize
      <4> HIDE DEF nearest
      <4> QED BY <3>1, <3>4, WithMachineFields
    <3>6. Len(r.machine) = nearest /\ Frame(r) = nearest
      <4> HIDE DEF nearest
      <4> QED BY <1>0, <3>3, <3>4, <3>5, PlayedProperties, TasEditorAssumption DEF Frame, Frames
    <3>7. nearest <= frame /\ nearest \in Nat
      <4> HIDE DEF nearest, top
      <4> QED BY <1>1, <3>2
    <3>8. ASSUME frame \in Frames, force, e.savestates[frame] # NoState PROVE nearest = frame
      <4>1. frame < e.greenzoneSize /\ frame \in 0..top
        BY <1>1, <3>8, TasEditorAssumption DEF Cached, Frames
      <4>2. frame \in near
        <5> HIDE DEF top
        <5> QED BY <1>2, <3>8, <4>1
      <4>3. frame <= nearest
        <5> HIDE DEF near, nearest
        <5> QED BY <2>3, <4>2
      <4> HIDE DEF nearest
      <4> QED BY <3>7, <4>3
    <3> HIDE DEF nearest
    <3>9. r.machine = Played(r.movie, Len(r.machine)) /\ r.savestates[Frame(r)] # NoState
      BY <3>3, <3>4, <3>5, <3>6
    <3>10. Lands(e, frame, force, r)
      BY <3>6, <3>7, <3>8, <3>9 DEF Lands
    <3> QED BY <3>5, <3>9, <3>10
  <2> QED BY <2>4, <2>5
<1> QED BY <1>4, <1>5

\* The same where it is known whether the state is reloaded.
Unforced(e, frame) == AboveOrTo(e, frame, FALSE)
Reloaded(e, frame) == AboveOrTo(e, frame, TRUE)

LEMMA UnforcedProperties ==
  ASSUME NEW e \in Wide, e.movie # <<>>, NEW frame \in Nat \cup {-1}, Cached(e, e.movie),
         Frame(e) <= frame /\ Frame(e) < e.greenzoneSize =>
           e.machine = Played(e.movie, Frame(e)),
         NEW r, r = Unforced(e, frame)
  PROVE  /\ r \in Wide /\ SameLog(r, e) /\ r.movie = e.movie /\ r.lagLog = e.lagLog
         /\ r.savestates = e.savestates /\ r.greenzoneSize = e.greenzoneSize
         /\ r.machine = Played(r.movie, Len(r.machine))
         /\ \/ r.savestates[Frame(r)] # NoState
            \/ Frame(r) = 0
            \/ r = e /\ Frame(e) <= frame /\ Frame(e) < e.greenzoneSize
<1>1. Stays(e, frame, FALSE) => e.machine = Played(e.movie, Frame(e))
  BY DEF Stays
<1>2. FALSE \in BOOLEAN /\ r = AboveOrTo(e, frame, FALSE)
  BY DEF Unforced
<1>3. /\ r \in Wide /\ SameLog(r, e) /\ r.movie = e.movie /\ r.lagLog = e.lagLog
      /\ r.savestates = e.savestates /\ r.greenzoneSize = e.greenzoneSize
      /\ r.machine = Played(r.movie, Len(r.machine))
      /\ Lands(e, frame, FALSE, r)
  BY <1>1, <1>2, AboveOrToProperties, Zenon
<1>4. \/ r.savestates[Frame(r)] # NoState
      \/ Frame(r) = 0
      \/ r = e /\ Frame(e) <= frame /\ Frame(e) < e.greenzoneSize
  BY <1>3, Zenon DEF Lands, Stays
<1> QED BY <1>3, <1>4

LEMMA ReloadedProperties ==
  ASSUME NEW e \in Wide, e.movie # <<>>, NEW frame \in Nat, Cached(e, e.movie),
         NEW r, r = Reloaded(e, frame)
  PROVE  /\ r \in Wide /\ SameLog(r, e) /\ r.movie = e.movie /\ r.lagLog = e.lagLog
         /\ r.savestates = e.savestates /\ r.greenzoneSize = e.greenzoneSize
         /\ r.machine = Played(r.movie, Len(r.machine))
         /\ r.savestates[Frame(r)] # NoState \/ Frame(r) = 0
         /\ Frame(r) <= frame
         /\ frame \in Frames /\ e.savestates[frame] # NoState => Frame(r) = frame
<1>1. Stays(e, frame, TRUE) => e.machine = Played(e.movie, Frame(e))
  BY DEF Stays
<1>2. TRUE \in BOOLEAN /\ r = AboveOrTo(e, frame, TRUE)
  BY DEF Reloaded
<1>3. frame \in Nat \cup {-1} /\ frame >= 0
  OBVIOUS
<1>4. /\ r \in Wide /\ SameLog(r, e) /\ r.movie = e.movie /\ r.lagLog = e.lagLog
      /\ r.savestates = e.savestates /\ r.greenzoneSize = e.greenzoneSize
      /\ r.machine = Played(r.movie, Len(r.machine))
      /\ Lands(e, frame, TRUE, r)
  BY <1>1, <1>2, <1>3, AboveOrToProperties, Zenon
<1>5. /\ r.savestates[Frame(r)] # NoState \/ Frame(r) = 0
      /\ Frame(r) <= frame
      /\ frame \in Frames /\ e.savestates[frame] # NoState => Frame(r) = frame
  BY <1>3, <1>4, Zenon DEF Lands, Stays
<1> QED BY <1>4, <1>5

\* GREENZONE::invalidateAndUpdatePlayback: what was true of the movie before
\* the change is true of it as it is now.
LEMMA InvalidateAndUpdatePlaybackProperties ==
  ASSUME NEW e \in Wide, e.movie # <<>>, NEW old, NEW after,
         Parts(after, e.movie, old), Faithful(e, old),
         NEW r, r = InvalidateAndUpdatePlayback(e, after)
  PROVE  /\ r \in Wide /\ SameLog(r, e) /\ r.movie = e.movie /\ r.lagLog = e.lagLog
         /\ Faithful(r, e.movie)
<1> DEFINE last == IF after >= Len(e.movie) THEN Len(e.movie) - 1 ELSE after
           invalid == Invalidate(e, after)
           shorter == [invalid EXCEPT !.greenzoneSize = last + 1]
<1>1. /\ after \in Nat \cup {-1} /\ Len(e.movie) \in Nat /\ Len(e.movie) > 0
      /\ Frame(e) \in Frames /\ Frame(e) \in Nat /\ Len(e.machine) = Frame(e)
      /\ e.greenzoneSize \in 0..MaxFrames + 1
  BY WideFields, EmptySeq DEF Parts, Frame
<1>2. Cached(e, old) /\ e.machine = Played(old, Frame(e))
  BY <1>1 DEF Faithful
<1>3. /\ invalid \in Wide /\ SameLog(invalid, e) /\ invalid.movie = e.movie
      /\ invalid.lagLog = e.lagLog /\ invalid.machine = e.machine
      /\ Cached(invalid, e.movie)
      /\ after < 0 => invalid = e
      /\ after >= 0 => invalid.greenzoneSize <= after + 1 /\ invalid.greenzoneSize <= Len(e.movie)
  BY <1>2, InvalidateProperties
<1> HIDE DEF invalid
<1>4. ASSUME after < 0 \/ Frame(e) <= after
      PROVE  e.machine = Played(e.movie, Len(e.machine))
  <2>1. AgreeBefore(e.movie, old, Frame(e))
    BY <1>1, <1>4 DEF Parts, Alike, AgreeBefore
  <2> QED BY <1>1, <1>2, <2>1, PlayedAgree
<1>5. CASE after < 0
  <2>1. r = e
    BY <1>5 DEF InvalidateAndUpdatePlayback
  <2> QED BY <1>3, <1>4, <1>5, <2>1 DEF Faithful
<1>6. CASE after >= 0
  <2>0. ~ (after < 0)
    BY <1>1, <1>6
  <2>1. last \in Nat /\ last <= after /\ last < Len(e.movie) /\ invalid.greenzoneSize <= last + 1
    BY <1>1, <1>3, <1>6, WideFields
  <2>2. CASE e.greenzoneSize <= last + 1 /\ Frame(e) <= last
    <3>1. r = invalid
      BY <2>0, <2>2, Zenon DEF InvalidateAndUpdatePlayback, invalid
    <3> HIDE DEF last
    <3>2. Frame(e) <= after
      BY <1>1, <2>1, <2>2
    <3> QED BY <1>3, <1>4, <3>1, <3>2 DEF Faithful
  <2>3. CASE ~(e.greenzoneSize <= last + 1 /\ Frame(e) <= last)
    <3>1. \E f \in Frames : e.greenzoneSize > last + 1 \/ Frame(e) > last
      BY <1>1, <2>1, <2>3
    <3>2. last + 1 \in 0..MaxFrames + 1 /\ invalid.savestates \in [Frames -> Movies \cup {NoState}]
      <4> HIDE DEF last
      <4> QED BY <1>1, <1>3, <2>1, <3>1, WideFields, TasEditorAssumption DEF Frames
    <3>3. shorter = WithGreenzone(invalid, invalid.savestates, last + 1)
      BY <1>3 DEF WithGreenzone, Wide
    <3>4. /\ shorter \in Wide /\ SameLog(shorter, invalid) /\ shorter.movie = e.movie
          /\ shorter.lagLog = e.lagLog /\ shorter.machine = e.machine
          /\ shorter.savestates = invalid.savestates /\ shorter.greenzoneSize = last + 1
      <4> HIDE DEF last, shorter
      <4> QED BY <1>3, <3>2, <3>3, WithGreenzoneFields
    <3>5. SameLog(shorter, e)
      BY <1>3, <3>4 DEF SameLog
    <3>6. Cached(shorter, e.movie)
      <4> SUFFICES ASSUME NEW f \in Frames, shorter.savestates[f] # NoState
                   PROVE  f < shorter.greenzoneSize /\ shorter.savestates[f] = Played(e.movie, f)
        BY DEF Cached
      <4> HIDE DEF last, shorter
      <4>1. f < invalid.greenzoneSize /\ shorter.savestates[f] = Played(e.movie, f)
        BY <1>3, <3>4 DEF Cached
      <4> QED BY <1>3, <2>1, <3>4, <4>1, WideFields, TasEditorAssumption DEF Frames
    <3>7. CASE Frame(e) >= last + 1
      <4>1. r = AboveOrTo(shorter, last, FALSE)
        BY <2>0, <2>3, <3>7, Zenon DEF InvalidateAndUpdatePlayback, invalid
      <4> HIDE DEF last, shorter
      <4>2. Frame(shorter) = Frame(e) /\ ~ (Frame(shorter) <= last)
        BY <1>1, <2>1, <3>4, <3>7 DEF Frame
      <4>3. r = Unforced(shorter, last) /\ last \in Nat \cup {-1}
        BY <2>1, <4>1 DEF Unforced
      <4>4. /\ r \in Wide /\ SameLog(r, shorter) /\ r.movie = shorter.movie
            /\ r.lagLog = shorter.lagLog /\ r.savestates = shorter.savestates
            /\ r.greenzoneSize = shorter.greenzoneSize
            /\ r.machine = Played(r.movie, Len(r.machine))
        BY <3>4, <3>6, <4>2, <4>3, UnforcedProperties
      <4> QED BY <3>4, <3>5, <3>6, <4>4 DEF SameLog, Faithful, Cached
    <3>8. CASE ~(Frame(e) >= last + 1)
      <4>1. r = shorter
        BY <2>0, <2>3, <3>8, Zenon DEF InvalidateAndUpdatePlayback, invalid
      <4> HIDE DEF last, shorter
      <4>2. Frame(e) <= after
        BY <1>1, <2>1, <3>8
      <4> QED BY <1>4, <3>4, <3>5, <3>6, <4>1, <4>2 DEF Faithful
    <3> QED BY <3>7, <3>8
  <2> QED BY <2>2, <2>3
<1> QED BY <1>1, <1>5, <1>6

-----------------------------------------------------------------------------
(* The ring of the History. *)

LEMMA RingPlace ==
  ASSUME NEW a \in Nat, a < HistorySize + HistorySize
  PROVE  a % HistorySize = IF a < HistorySize THEN a ELSE a - HistorySize
<1>1. HistorySize \in Nat /\ HistorySize > 0
  BY TasEditorAssumption
<1> QED BY <1>1

LEMMA RingApart ==
  ASSUME NEW h \in Int, NEW s \in Int, NEW p \in Int, NEW q \in Int,
         0 <= p, p < h, 0 <= q, q < h,
         (IF s + p < h THEN s + p ELSE (s + p) - h) = (IF s + q < h THEN s + q ELSE (s + q) - h)
  PROVE  p = q
<1>1. CASE s + p < h /\ s + q < h
  BY <1>1
<1>2. CASE ~(s + p < h) /\ ~(s + q < h)
  BY <1>2
<1>3. CASE s + p < h /\ ~(s + q < h)
  BY <1>3
<1>4. CASE ~(s + p < h) /\ s + q < h
  BY <1>4
<1> QED BY <1>1, <1>2, <1>3, <1>4

LEMMA RealPosProperties ==
  ASSUME NEW e \in Wide
  PROVE  /\ \A p \in Positions : RealPos(e, p) \in Positions
         /\ \A p, q \in Positions : RealPos(e, p) = RealPos(e, q) => p = q
         /\ \A p \in Positions : SnapshotAt(e, p) \in WideSnapshots
<1>1. HistorySize \in Nat /\ HistorySize > 0
  BY TasEditorAssumption
<1>2. e.start \in Positions /\ e.snapshots \in [Positions -> WideSnapshots]
  BY WideFields
<1>3. ASSUME NEW p \in Positions
      PROVE  RealPos(e, p) = IF e.start + p < HistorySize THEN e.start + p
                             ELSE (e.start + p) - HistorySize
  <2> DEFINE a == e.start + p
  <2>1. a \in Nat /\ a < HistorySize + HistorySize
    BY <1>1, <1>2 DEF Positions
  <2>2. RealPos(e, p) = a % HistorySize
    BY DEF RealPos
  <2>3. a % HistorySize = IF a < HistorySize THEN a ELSE a - HistorySize
    <3> HIDE DEF a
    <3> QED BY <2>1, RingPlace
  <2> QED BY <2>2, <2>3
<1>4. ASSUME NEW p \in Positions PROVE RealPos(e, p) \in Positions
  BY <1>1, <1>2, <1>3 DEF Positions
<1>5. ASSUME NEW p \in Positions, NEW q \in Positions, RealPos(e, p) = RealPos(e, q)
      PROVE  p = q
  <2>1. /\ RealPos(e, p) = IF e.start + p < HistorySize THEN e.start + p
                           ELSE (e.start + p) - HistorySize
        /\ RealPos(e, q) = IF e.start + q < HistorySize THEN e.start + q
                           ELSE (e.start + q) - HistorySize
    BY <1>3
  <2>2. /\ p \in Int /\ q \in Int /\ e.start \in Int
        /\ 0 <= p /\ p < HistorySize /\ 0 <= q /\ q < HistorySize
    BY <1>1, <1>2 DEF Positions
  <2>3. HistorySize \in Int
    BY <1>1
  <2>4. (IF e.start + p < HistorySize THEN e.start + p ELSE (e.start + p) - HistorySize)
          = (IF e.start + q < HistorySize THEN e.start + q ELSE (e.start + q) - HistorySize)
    BY <1>5, <2>1
  <2> QED BY <2>2, <2>3, <2>4, RingApart, Zenon
<1> QED BY <1>2, <1>4, <1>5 DEF SnapshotAt

\* The k-th of what undoing leads back to.
Back(seq, k) == seq[Len(seq) + 1 - k]

LEMMA NewestProperties ==
  ASSUME NEW S, NEW seq \in Seq(S), NEW n \in Nat
  PROVE  /\ Newest(seq, n) \in Seq(S)
         /\ Len(Newest(seq, n)) = IF n < Len(seq) THEN n ELSE Len(seq)
         /\ \A k \in 1..Len(Newest(seq, n)) : Back(Newest(seq, n), k) = Back(seq, k)
<1> DEFINE m == IF n < Len(seq) THEN Len(seq) - n ELSE 0
           w == SubSeq(seq, m + 1, Len(seq))
<1>0. Len(seq) \in Nat
  BY LenProperties
<1>1. m \in Nat /\ m <= Len(seq) /\ Len(seq) - m = IF n < Len(seq) THEN n ELSE Len(seq)
  BY <1>0
<1>2. Newest(seq, n) = w
  BY DEF Newest
<1> HIDE DEF m
<1>3. \A j \in (m + 1)..Len(seq) : seq[j] \in S
  BY <1>0, <1>1, ElementOfSeq
<1>4. /\ w \in Seq(S)
      /\ Len(w) = IF m + 1 <= Len(seq) THEN Len(seq) - (m + 1) + 1 ELSE 0
      /\ \A j \in 1..(Len(seq) - (m + 1) + 1) : w[j] = seq[m + 1 + j - 1]
  BY <1>0, <1>1, <1>3, SubSeqProperties
<1> HIDE DEF w
<1>5. Len(w) = Len(seq) - m
  BY <1>0, <1>1, <1>4
<1>6. ASSUME NEW k \in 1..Len(w) PROVE Back(w, k) = Back(seq, k)
  <2> DEFINE j == Len(w) + 1 - k
  <2>1. j \in 1..(Len(seq) - (m + 1) + 1) /\ m + 1 + j - 1 = Len(seq) + 1 - k
    BY <1>0, <1>1, <1>5, <1>6
  <2> HIDE DEF j
  <2>2. w[j] = seq[Len(seq) + 1 - k]
    BY <1>4, <2>1
  <2> QED BY <2>2 DEF Back, j
<1> QED BY <1>1, <1>2, <1>4, <1>5, <1>6

LEMMA WithoutProperties ==
  ASSUME NEW S, NEW seq \in Seq(S), NEW n \in Nat
  PROVE  /\ Without(seq, n) \in Seq(S)
         /\ Len(Without(seq, n)) = IF n < Len(seq) THEN Len(seq) - n ELSE 0
         /\ \A k \in 1..Len(Without(seq, n)) : Back(Without(seq, n), k) = Back(seq, k + n)
<1> DEFINE m == IF n < Len(seq) THEN Len(seq) - n ELSE 0
           w == SubSeq(seq, 1, m)
<1>0. Len(seq) \in Nat
  BY LenProperties
<1>1. m \in Nat /\ m <= Len(seq) /\ (m # 0 => m = Len(seq) - n)
  BY <1>0
<1>2. Without(seq, n) = w
  BY DEF Without
<1>3. m = IF n < Len(seq) THEN Len(seq) - n ELSE 0
  OBVIOUS
<1> HIDE DEF m
<1>4. w \in Seq(S) /\ Len(w) = m /\ \A j \in 1..m : w[j] = seq[j]
  BY <1>1, PrefixProperties
<1> HIDE DEF w
<1>5. ASSUME NEW k \in 1..Len(w) PROVE Back(w, k) = Back(seq, k + n)
  <2> DEFINE j == Len(w) + 1 - k
  <2>0. k \in Int /\ 1 <= k /\ k <= m
    BY <1>1, <1>4
  <2>1. j \in 1..m /\ j = Len(seq) + 1 - (k + n)
    <3>1. m = Len(seq) - n
      BY <1>1, <2>0
    <3>2. Len(w) = m
      BY <1>4
    <3> QED BY <1>0, <1>1, <2>0, <3>1, <3>2
  <2> HIDE DEF j
  <2> QED BY <1>4, <2>1 DEF Back, j
<1> QED BY <1>2, <1>3, <1>4, <1>5

LEMMA AppendBack ==
  ASSUME NEW S, NEW seq \in Seq(S), NEW m \in S
  PROVE  /\ Append(seq, m) \in Seq(S) /\ Len(Append(seq, m)) = Len(seq) + 1
         /\ Back(Append(seq, m), 1) = m
         /\ \A k \in 2..Len(Append(seq, m)) : Back(Append(seq, m), k) = Back(seq, k - 1)
<1>0. Len(seq) \in Nat
  BY LenProperties
<1> DEFINE w == Append(seq, m)
<1>1. /\ w \in Seq(S) /\ Len(w) = Len(seq) + 1
      /\ \A j \in 1..Len(seq) : w[j] = seq[j]
      /\ w[Len(seq) + 1] = m
  BY AppendProperties
<1> HIDE DEF w
<1>2. Back(w, 1) = m
  BY <1>0, <1>1 DEF Back
<1>3. ASSUME NEW k \in 2..Len(w) PROVE Back(w, k) = Back(seq, k - 1)
  <2>1. Len(w) + 1 - k \in 1..Len(seq) /\ Len(w) + 1 - k = Len(seq) + 1 - (k - 1)
    BY <1>0, <1>1
  <2> QED BY <1>1, <2>1 DEF Back
<1> QED BY <1>1, <1>2, <1>3 DEF w

-----------------------------------------------------------------------------
(* Items of the log. *)

\* A bookmark that is set has the state that its movie leads to, and the
\* movie has a frame.
GoodBookmark(b) == b.notEmpty => IsFaithful(b) /\ b.inputs # <<>>

\* What is true of every item, while an action with this movie and this LagLog
\* is under way.
GoodItem(item, movie, lagLog) ==
  /\ item.inputs # <<>> /\ GoodBookmark(item.backup)
  /\ item.inputs \in Movies \cup {movie} /\ item.lagLog \in LagLogs \cup {lagLog}

\* The current item is this movie; undoing leads back.
Logged(e, movie) == Alike(Current(e).inputs, movie)
Undoes(e) ==
  \A k \in 1..Len(e.past) : k <= e.cursor =>
    Alike(SnapshotAt(e, e.cursor - k).inputs, Back(e.past, k))

GoodLog(e) ==
  /\ e.cursor < e.total /\ Undoes(e)
  /\ \A s \in Slots : GoodBookmark(e.bookmarks[s])
  /\ \A p \in Positions : GoodItem(e.snapshots[p], e.movie, e.lagLog)

\* Only the log and the bookmarks are replaced, or only the movie and the LagLog.
WithLog(e, snapshots, start, cursor, total, bookmarks, past) ==
  [e EXCEPT !.snapshots = snapshots, !.start = start, !.cursor = cursor, !.total = total,
            !.bookmarks = bookmarks, !.past = past]
WithMovie(e, movie, lagLog) == [e EXCEPT !.movie = movie, !.lagLog = lagLog]

LEMMA WithLogFields ==
  ASSUME NEW e \in Wide, NEW snapshots \in [Positions -> WideSnapshots],
         NEW start \in Positions, NEW cursor \in Positions, NEW total \in 1..HistorySize,
         NEW bookmarks \in [Slots -> Bookmarks], NEW past \in Seq(Movies),
         NEW r, r = WithLog(e, snapshots, start, cursor, total, bookmarks, past)
  PROVE  /\ r \in Wide /\ r.movie = e.movie /\ r.lagLog = e.lagLog /\ SameMachine(r, e)
         /\ r.snapshots = snapshots /\ r.start = start /\ r.cursor = cursor
         /\ r.total = total /\ r.bookmarks = bookmarks /\ r.past = past
BY DEF Wide, SameMachine, WithLog

LEMMA WithMovieFields ==
  ASSUME NEW e \in Wide, NEW movie \in Seq(Inputs), NEW lagLog \in Seq(Lags),
         NEW r, r = WithMovie(e, movie, lagLog)
  PROVE  /\ r \in Wide /\ SameLog(r, e) /\ SameMachine(r, e)
         /\ r.movie = movie /\ r.lagLog = lagLog
BY DEF Wide, SameLog, SameMachine, WithMovie

\* An editor with the same log has the same items at the same positions.
LEMMA SameItems ==
  ASSUME NEW a, NEW b, SameLog(a, b)
  PROVE  /\ \A p : SnapshotAt(a, p) = SnapshotAt(b, p)
         /\ Current(a) = Current(b)
         /\ Undoes(a) <=> Undoes(b)
         /\ a.movie = b.movie /\ a.lagLog = b.lagLog => (GoodLog(a) <=> GoodLog(b))
<1>1. \A p : SnapshotAt(a, p) = SnapshotAt(b, p)
  BY DEF SameLog, SnapshotAt, RealPos
<1>2. a.cursor = b.cursor /\ a.past = b.past
  BY DEF SameLog
<1>3. Current(a) = Current(b)
  BY <1>1, <1>2 DEF Current
<1>4. Undoes(a) <=> Undoes(b)
  BY <1>1, <1>2 DEF Undoes
<1>5. a.movie = b.movie /\ a.lagLog = b.lagLog => (GoodLog(a) <=> GoodLog(b))
  <2>1. a.total = b.total /\ a.bookmarks = b.bookmarks /\ a.snapshots = b.snapshots
    BY DEF SameLog
  <2> QED BY <1>2, <1>4, <2>1, Zenon DEF GoodLog
<1> QED BY <1>1, <1>3, <1>4, <1>5

\* SNAPSHOT::init makes an item.
LEMMA SnapshotProperties ==
  ASSUME NEW e \in Wide, e.movie # <<>>, NEW tag \in Frames,
         NEW kind \in {"init", "edit", "set", "record", "bookmark"}
  PROVE  /\ Snapshot(e, kind, tag) \in WideSnapshots
         /\ Snapshot(e, kind, tag).inputs = e.movie
         /\ GoodItem(Snapshot(e, kind, tag), e.movie, e.lagLog)
<1>1. <<>> \in Movies /\ <<>> \in LagLogs /\ 0 \in Frames
  <2>1. <<>> \in Seq(Inputs) /\ <<>> \in Seq(Lags) /\ Len(<<>>) <= MaxFrames
    BY TasEditorAssumption
  <2>2. <<>> \in Movies
    BY <2>1, MoviesBounded
  <2>3. <<>> \in LagLogs
    BY <2>1, LagLogsBounded
  <2> QED BY <2>2, <2>3, TasEditorAssumption DEF Frames
<1>2. NoBookmark \in Bookmarks /\ NoBookmark.notEmpty = FALSE
  BY <1>1 DEF NoBookmark, Bookmarks
<1>3. (CHOOSE s \in Slots : TRUE) \in Slots
  BY TasEditorAssumption
<1>4. e.movie \in Seq(Inputs) /\ e.lagLog \in Seq(Lags)
  BY WideFields
<1>5. /\ Snapshot(e, kind, tag).inputs = e.movie /\ Snapshot(e, kind, tag).lagLog = e.lagLog
      /\ Snapshot(e, kind, tag).backup = NoBookmark
  BY DEF Snapshot
<1>6. Snapshot(e, kind, tag) \in WideSnapshots
  BY <1>2, <1>3, <1>4 DEF Snapshot, WideSnapshots
<1> QED BY <1>2, <1>5, <1>6 DEF GoodItem, GoodBookmark

\* An item is put at a position of the log, and what was behind it is gone.
WithItem(e, item, start, cursor, past) ==
  WithLog(e, [e.snapshots EXCEPT ![(start + cursor) % HistorySize] = item],
          start, cursor, cursor + 1, e.bookmarks, past)

LEMMA WithItemProperties ==
  ASSUME NEW e \in Wide, NEW item \in WideSnapshots, NEW start \in Positions,
         NEW cursor \in Positions, NEW past \in Seq(Movies),
         NEW r, r = WithItem(e, item, start, cursor, past)
  PROVE  /\ r \in Wide /\ r.movie = e.movie /\ r.lagLog = e.lagLog /\ SameMachine(r, e)
         /\ r.start = start /\ r.cursor = cursor /\ r.total = cursor + 1
         /\ r.bookmarks = e.bookmarks /\ r.past = past
         /\ Current(r) = item
         /\ \A p \in Positions : r.snapshots[p] = item \/ r.snapshots[p] = e.snapshots[p]
         /\ \A p \in Positions : p # cursor =>
              SnapshotAt(r, p) = e.snapshots[(start + p) % HistorySize]
<1> DEFINE place == (start + cursor) % HistorySize
           items == [e.snapshots EXCEPT ![place] = item]
<1>1. HistorySize \in Nat /\ cursor + 1 \in 1..HistorySize
  BY TasEditorAssumption DEF Positions
<1>2. r = WithLog(e, items, start, cursor, cursor + 1, e.bookmarks, past)
  BY DEF WithItem
<1>3. e.snapshots \in [Positions -> WideSnapshots] /\ e.bookmarks \in [Slots -> Bookmarks]
  BY WideFields
<1>4. items \in [Positions -> WideSnapshots]
  BY <1>3
<1> HIDE DEF items
<1>5. /\ r \in Wide /\ r.movie = e.movie /\ r.lagLog = e.lagLog /\ SameMachine(r, e)
      /\ r.snapshots = items /\ r.start = start /\ r.cursor = cursor
      /\ r.total = cursor + 1 /\ r.bookmarks = e.bookmarks /\ r.past = past
  BY <1>1, <1>2, <1>3, <1>4, WithLogFields
<1>6. /\ \A p \in Positions : RealPos(r, p) \in Positions
      /\ \A p, q \in Positions : RealPos(r, p) = RealPos(r, q) => p = q
  BY <1>5, RealPosProperties
<1>7. \A p : RealPos(r, p) = (start + p) % HistorySize
  BY <1>5 DEF RealPos
<1>8. place = RealPos(r, cursor)
  BY <1>7
<1>9. Current(r) = item
  <2>1. Current(r) = items[place]
    BY <1>5, <1>8 DEF Current, SnapshotAt
  <2>2. place \in Positions
    BY <1>6, <1>8
  <2> HIDE DEF place
  <2> QED BY <1>3, <2>1, <2>2 DEF items
<1>10. \A p \in Positions : r.snapshots[p] = item \/ r.snapshots[p] = e.snapshots[p]
  <2> HIDE DEF place
  <2> QED BY <1>3, <1>5 DEF items
<1>11. ASSUME NEW p \in Positions, p # cursor
       PROVE  SnapshotAt(r, p) = e.snapshots[(start + p) % HistorySize]
  <2>1. RealPos(r, p) # place /\ RealPos(r, p) \in Positions
    BY <1>6, <1>8, <1>11
  <2>2. SnapshotAt(r, p) = items[RealPos(r, p)]
    BY <1>5 DEF SnapshotAt
  <2> HIDE DEF place
  <2>3. SnapshotAt(r, p) = e.snapshots[RealPos(r, p)]
    BY <1>3, <2>1, <2>2 DEF items
  <2> QED BY <1>7, <2>3
<1> QED BY <1>5, <1>9, <1>10, <1>11

\* Going on in the ring: the start moves, or the cursor does.
LEMMA RingStep ==
  ASSUME NEW s \in Positions, NEW c \in Positions, NEW k \in Nat, 1 <= k, k <= c
  PROVE  (((s + 1) % HistorySize) + (c - k)) % HistorySize = (s + (c + 1 - k)) % HistorySize
<1>1. HistorySize \in Nat /\ HistorySize > 1
  BY TasEditorAssumption
<1>2. s \in Nat /\ s < HistorySize /\ c \in Nat /\ c < HistorySize
  BY <1>1 DEF Positions
<1> DEFINE a == s + 1
           b == a % HistorySize
           d == b + (c - k)
           t == s + (c + 1 - k)
<1>3. a \in Nat /\ a < HistorySize + HistorySize
  BY <1>1, <1>2
<1>4. b = IF a < HistorySize THEN a ELSE a - HistorySize
  <2> HIDE DEF a
  <2> QED BY <1>3, RingPlace
<1>5. b \in Nat /\ b < HistorySize /\ (s + 1 = b \/ s + 1 = b + HistorySize)
  <2> HIDE DEF b
  <2> QED BY <1>1, <1>2, <1>4
<1> HIDE DEF b
<1>6. /\ d \in Nat /\ d < HistorySize + HistorySize
      /\ t \in Nat /\ t < HistorySize + HistorySize
      /\ t = d \/ t = d + HistorySize
  BY <1>1, <1>2, <1>5
<1>7. d % HistorySize = IF d < HistorySize THEN d ELSE d - HistorySize
  <2> HIDE DEF d
  <2> QED BY <1>6, RingPlace
<1>8. t % HistorySize = IF t < HistorySize THEN t ELSE t - HistorySize
  <2> HIDE DEF t
  <2> QED BY <1>6, RingPlace
<1>9. d % HistorySize = t % HistorySize
  <2> HIDE DEF d, t
  <2>1. CASE t = d
    BY <2>1
  <2>2. CASE t = d + HistorySize
    <3>1. d < HistorySize /\ ~ (t < HistorySize)
      BY <1>1, <1>6, <2>2
    <3> QED BY <1>1, <1>6, <1>7, <1>8, <2>2, <3>1
  <2> QED BY <1>6, <2>1, <2>2
<1> QED BY <1>9 DEF b

\* HISTORY::addItemToHistoryLog: whatever goes into the log, undoing still
\* leads back, in a full ring too; unless nothing is promised.
LEMMA PushedProperties ==
  ASSUME NEW e \in Wide, GoodLog(e), NEW m \in Movies, Logged(e, m),
         NEW item \in WideSnapshots, GoodItem(item, e.movie, e.lagLog),
         NEW start \in Positions, NEW cursor \in Positions, NEW past \in Seq(Movies),
         \/ past = <<>>
         \/ /\ past = Newest(Append(e.past, m), cursor)
            /\ \/ start = e.start /\ cursor = e.cursor + 1
               \/ start = (e.start + 1) % HistorySize /\ cursor = e.cursor,
         NEW r, r = WithItem(e, item, start, cursor, past)
  PROVE  /\ r \in Wide /\ r.movie = e.movie /\ r.lagLog = e.lagLog /\ SameMachine(r, e)
         /\ r.bookmarks = e.bookmarks /\ GoodLog(r) /\ Current(r) = item
<1>1. /\ r \in Wide /\ r.movie = e.movie /\ r.lagLog = e.lagLog /\ SameMachine(r, e)
      /\ r.start = start /\ r.cursor = cursor /\ r.total = cursor + 1
      /\ r.bookmarks = e.bookmarks /\ r.past = past
      /\ Current(r) = item
      /\ \A p \in Positions : r.snapshots[p] = item \/ r.snapshots[p] = e.snapshots[p]
      /\ \A p \in Positions : p # cursor =>
           SnapshotAt(r, p) = e.snapshots[(start + p) % HistorySize]
  BY WithItemProperties
<1>2. /\ HistorySize \in Nat /\ cursor \in Nat /\ cursor < HistorySize
      /\ e.start \in Positions /\ e.cursor \in Positions /\ e.cursor \in Nat
      /\ e.past \in Seq(Movies) /\ start \in Nat /\ e.start \in Nat
  BY WideFields, TasEditorAssumption DEF Positions
<1>0. PICK c \in Positions : c = e.cursor
  BY <1>2
<1>a. PICK s \in Positions : s = e.start
  BY <1>2
<1>b. c \in Nat /\ s \in Nat
  BY <1>2 DEF Positions
<1>3. ASSUME NEW k \in 1..Len(past), k <= cursor
      PROVE  Alike(SnapshotAt(r, cursor - k).inputs, Back(past, k))
  <2>1. /\ past = Newest(Append(e.past, m), cursor)
        /\ \/ start = e.start /\ cursor = e.cursor + 1
           \/ start = (e.start + 1) % HistorySize /\ cursor = e.cursor
    <3>1. past # <<>>
      BY <1>3
    <3> QED BY <3>1
  <2>2. k \in Nat /\ 1 <= k /\ cursor - k \in Positions /\ cursor - k # cursor
    BY <1>2, <1>3, LenProperties DEF Positions
  <2>3. (start + (cursor - k)) % HistorySize = (s + (c + 1 - k)) % HistorySize
    <3>1. CASE start = e.start /\ cursor = e.cursor + 1
      <4>1. cursor = c + 1 /\ start = s
        BY <1>0, <1>a, <3>1
      <4>2. c + 1 - k = cursor - k
        BY <1>b, <2>2, <4>1
      <4> QED BY <4>1, <4>2
    <3>2. CASE start = (e.start + 1) % HistorySize /\ cursor = e.cursor
      <4>1. k <= c /\ cursor = c
        BY <1>0, <1>3, <3>2
      <4>2. start = (s + 1) % HistorySize
        BY <1>a, <3>2
      <4>3. (((s + 1) % HistorySize) + (c - k)) % HistorySize = (s + (c + 1 - k)) % HistorySize
        BY <2>2, <4>1, RingStep
      <4> QED BY <4>1, <4>2, <4>3
    <3> QED BY <2>1, <3>1, <3>2
  <2>4. SnapshotAt(r, cursor - k) = SnapshotAt(e, c + 1 - k)
    <3>1. SnapshotAt(r, cursor - k) = e.snapshots[(start + (cursor - k)) % HistorySize]
      BY <1>1, <2>2
    <3> QED BY <1>a, <2>3, <3>1 DEF SnapshotAt, RealPos
  <2>5. /\ Len(Append(e.past, m)) = Len(e.past) + 1 /\ Append(e.past, m) \in Seq(Movies)
        /\ Back(Append(e.past, m), 1) = m /\ Len(e.past) \in Nat
        /\ \A j \in 2..Len(Append(e.past, m)) : Back(Append(e.past, m), j) = Back(e.past, j - 1)
    BY <1>2, AppendBack, LenProperties
  <2> DEFINE w == Append(e.past, m)
  <2>6. /\ Back(past, k) = Back(w, k)
        /\ k <= Len(w)
    <3> HIDE DEF w
    <3>1. /\ Len(Newest(w, cursor)) = IF cursor < Len(w) THEN cursor ELSE Len(w)
          /\ \A j \in 1..Len(Newest(w, cursor)) : Back(Newest(w, cursor), j) = Back(w, j)
      BY <1>2, <2>5, NewestProperties DEF w
    <3>2. past = Newest(w, cursor) /\ Len(w) \in Nat
      BY <2>1, <2>5, LenProperties DEF w
    <3>3. k <= Len(w)
      BY <1>2, <1>3, <3>1, <3>2
    <3> QED BY <1>3, <3>1, <3>2, <3>3
  <2>7. CASE k = 1
    <3>0. c + 1 - k = c
      BY <1>b, <2>7
    <3>1. c + 1 - k = e.cursor
      BY <1>0, <3>0
    <3>2. SnapshotAt(r, cursor - k) = Current(e)
      BY <2>4, <3>1 DEF Current
    <3> QED BY <2>5, <2>6, <2>7, <3>2 DEF Logged
  <2>8. CASE k # 1
    <3> DEFINE j == k - 1
    <3>1. j \in 1..Len(e.past) /\ j <= c /\ c - j = c + 1 - k
      <4>1. cursor = c + 1 \/ cursor = c
        BY <1>0, <2>1
      <4>2. k <= c + 1 /\ 2 <= k
        BY <1>2, <1>3, <1>b, <2>2, <2>8, <4>1
      <4>3. PICK n \in Nat : n = Len(e.past)
        BY <2>5
      <4>4. k <= n + 1
        BY <2>5, <2>6, <4>3
      <4>5. j \in 1..n /\ j <= c /\ c - j = c + 1 - k
        BY <1>b, <2>2, <4>2, <4>4
      <4> HIDE DEF j
      <4> QED BY <4>3, <4>5
    <3>2. Back(w, k) = Back(e.past, j)
      BY <2>2, <2>5, <2>6, <2>8
    <3> HIDE DEF j, w
    <3>3. Alike(SnapshotAt(e, c - j).inputs, Back(e.past, j))
      <4>1. j <= e.cursor
        BY <1>0, <3>1
      <4>2. Alike(SnapshotAt(e, e.cursor - j).inputs, Back(e.past, j))
        BY <3>1, <4>1 DEF GoodLog, Undoes
      <4> QED BY <1>0, <4>2
    <3> QED BY <2>4, <2>6, <3>1, <3>2, <3>3
  <2> QED BY <2>7, <2>8
<1>4. Undoes(r)
  BY <1>1, <1>3 DEF Undoes
<1>5. r.cursor < r.total
  BY <1>1, <1>2
<1>6. \A slot \in Slots : GoodBookmark(r.bookmarks[slot])
  BY <1>1 DEF GoodLog
<1>7. \A p \in Positions : GoodItem(r.snapshots[p], r.movie, r.lagLog)
  <2>1. \A p \in Positions : GoodItem(e.snapshots[p], e.movie, e.lagLog)
    BY DEF GoodLog
  <2> QED BY <1>1, <2>1
<1> QED BY <1>1, <1>4, <1>5, <1>6, <1>7 DEF GoodLog

LEMMA NextPlace ==
  ASSUME NEW s \in Positions
  PROVE  (s + 1) % HistorySize \in Positions
<1>1. HistorySize \in Nat /\ HistorySize > 0 /\ s \in Nat /\ s < HistorySize
  BY TasEditorAssumption DEF Positions
<1> DEFINE a == s + 1
<1>2. a \in Nat /\ a < HistorySize + HistorySize
  BY <1>1
<1>3. a % HistorySize = IF a < HistorySize THEN a ELSE a - HistorySize
  <2> HIDE DEF a
  <2> QED BY <1>2, RingPlace
<1>4. a % HistorySize \in Positions
  BY <1>1, <1>2, <1>3 DEF Positions
<1> QED BY <1>4 DEF a

LEMMA AddItemProperties ==
  ASSUME NEW e \in Wide, GoodLog(e), ed \in Editors, Logged(e, ed.movie),
         NEW item \in WideSnapshots, GoodItem(item, e.movie, e.lagLog),
         NEW r, r = AddItem(e, item)
  PROVE  /\ r \in Wide /\ r.movie = e.movie /\ r.lagLog = e.lagLog /\ SameMachine(r, e)
         /\ r.bookmarks = e.bookmarks /\ GoodLog(r) /\ Current(r) = item
<1> DEFINE full == e.cursor + 2 >= HistorySize
           start == IF full THEN (e.start + 1) % HistorySize ELSE e.start
           cursor == IF full THEN e.cursor ELSE e.cursor + 1
           past == Newest(Append(e.past, ed.movie), cursor)
<1>1. /\ HistorySize \in Nat /\ HistorySize > 1
      /\ e.start \in Positions /\ e.cursor \in Positions /\ e.past \in Seq(Movies)
      /\ e.start \in Nat /\ e.start < HistorySize /\ e.cursor \in Nat
  BY WideFields, TasEditorAssumption DEF Positions
<1>2. ed.movie \in Movies
  BY DEF Editors
<1>3. start \in Positions
  <2>1. (e.start + 1) % HistorySize \in Positions
    BY <1>1, NextPlace
  <2> QED BY <1>1, <2>1
<1>4. cursor \in Positions /\ cursor \in Nat
  BY <1>1 DEF Positions
<1>5. past \in Seq(Movies)
  <2>1. Append(e.past, ed.movie) \in Seq(Movies)
    BY <1>1, <1>2, AppendBack
  <2> HIDE DEF cursor
  <2> QED BY <1>4, <2>1, NewestProperties
<1>6. r = WithItem(e, item, start, cursor, past)
  BY DEF AddItem, WithItem, WithLog, Wide
<1>7. \/ start = e.start /\ cursor = e.cursor + 1
      \/ start = (e.start + 1) % HistorySize /\ cursor = e.cursor
  OBVIOUS
<1>8. past = Newest(Append(e.past, ed.movie), cursor)
  OBVIOUS
<1> HIDE DEF start, cursor, past
<1> QED BY <1>2, <1>3, <1>4, <1>5, <1>6, <1>7, <1>8, PushedProperties

LEMMA AddBookmarkItemProperties ==
  ASSUME NEW e \in Wide, GoodLog(e), ed \in Editors, Logged(e, ed.movie),
         NEW item \in WideSnapshots, GoodItem(item, e.movie, e.lagLog),
         NEW r, r = AddBookmarkItem(e, item)
  PROVE  /\ r \in Wide /\ r.movie = e.movie /\ r.lagLog = e.lagLog /\ SameMachine(r, e)
         /\ r.bookmarks = e.bookmarks /\ GoodLog(r) /\ Current(r) = item
<1> DEFINE full == e.total >= HistorySize
           start == IF full THEN (e.start + 1) % HistorySize ELSE e.start
           cursor == IF full THEN HistorySize - 1 ELSE e.cursor + 1
           past == IF full /\ e.cursor < HistorySize - 1 THEN <<>>
                   ELSE Newest(Append(e.past, ed.movie), cursor)
<1>1. /\ HistorySize \in Nat /\ HistorySize > 1
      /\ e.start \in Positions /\ e.cursor \in Positions /\ e.past \in Seq(Movies)
      /\ e.cursor \in Nat /\ e.cursor < HistorySize
      /\ e.total \in Nat /\ e.total <= HistorySize /\ e.cursor < e.total
  BY WideFields, TasEditorAssumption DEF Positions, GoodLog
<1>2. ed.movie \in Movies
  BY DEF Editors
<1>3. start \in Positions
  BY <1>1, NextPlace
<1>4. cursor \in Positions /\ cursor \in Nat
  BY <1>1 DEF Positions
<1>5. past \in Seq(Movies)
  <2>1. Append(e.past, ed.movie) \in Seq(Movies)
    BY <1>1, <1>2, AppendBack
  <2> HIDE DEF cursor
  <2>2. Newest(Append(e.past, ed.movie), cursor) \in Seq(Movies)
    BY <1>4, <2>1, NewestProperties
  <2> QED BY <2>2
<1>6. r = WithItem(e, item, start, cursor, past)
  BY DEF AddBookmarkItem, WithItem, WithLog, Wide
<1>7. \/ past = <<>>
      \/ /\ past = Newest(Append(e.past, ed.movie), cursor)
         /\ \/ start = e.start /\ cursor = e.cursor + 1
            \/ start = (e.start + 1) % HistorySize /\ cursor = e.cursor
  <2>1. CASE ~full
    BY <2>1
  <2>2. CASE full /\ e.cursor < HistorySize - 1
    BY <2>2
  <2>3. CASE full /\ ~ (e.cursor < HistorySize - 1)
    <3>1. cursor = HistorySize - 1 /\ e.cursor = HistorySize - 1
      BY <1>1, <2>3
    <3> QED BY <2>3, <3>1
  <2> QED BY <2>1, <2>2, <2>3
<1> HIDE DEF start, cursor, past
<1> QED BY <1>2, <1>3, <1>4, <1>5, <1>6, <1>7, PushedProperties

\* A snapshot in the place of the current one: what is below it stays.
LEMMA ReplacedProperties ==
  ASSUME NEW e \in Wide, GoodLog(e), NEW item \in WideSnapshots,
         GoodItem(item, e.movie, e.lagLog),
         NEW r, r = Replaced(e, item, TRUE) \/ r = Replaced(e, item, FALSE)
  PROVE  /\ r \in Wide /\ r.movie = e.movie /\ r.lagLog = e.lagLog /\ SameMachine(r, e)
         /\ r.bookmarks = e.bookmarks /\ GoodLog(r) /\ Current(r) = item
<1> DEFINE place == RealPos(e, e.cursor)
           items == [e.snapshots EXCEPT ![place] = item]
<1>1. /\ e.start \in Positions /\ e.cursor \in Positions /\ e.past \in Seq(Movies)
      /\ e.snapshots \in [Positions -> WideSnapshots] /\ e.bookmarks \in [Slots -> Bookmarks]
      /\ e.total \in 1..HistorySize /\ e.cursor < e.total /\ HistorySize \in Nat
      /\ e.cursor \in Nat /\ e.cursor < HistorySize
  BY WideFields, TasEditorAssumption DEF GoodLog, Positions
<1>2. items \in [Positions -> WideSnapshots] /\ place \in Positions
  <2>1. place \in Positions
    BY <1>1, RealPosProperties
  <2> HIDE DEF place
  <2> QED BY <1>1, <2>1
<1>3. e.cursor + 1 \in 1..HistorySize /\ e.cursor < e.cursor + 1
  BY <1>1
<1>4. PICK total \in 1..HistorySize :
        /\ e.cursor < total
        /\ r = WithLog(e, items, e.start, e.cursor, total, e.bookmarks, e.past)
  <2>1. CASE r = Replaced(e, item, TRUE)
    <3>1. r = WithLog(e, items, e.start, e.cursor, e.cursor + 1, e.bookmarks, e.past)
      BY <2>1 DEF Replaced, WithLog, Wide
    <3> QED BY <1>3, <3>1
  <2>2. CASE r = Replaced(e, item, FALSE)
    <3>1. r = WithLog(e, items, e.start, e.cursor, e.total, e.bookmarks, e.past)
      BY <2>2 DEF Replaced, WithLog, Wide
    <3> QED BY <1>1, <3>1
  <2> QED BY <2>1, <2>2
<1> HIDE DEF items
<1>5. /\ r \in Wide /\ r.movie = e.movie /\ r.lagLog = e.lagLog /\ SameMachine(r, e)
      /\ r.snapshots = items /\ r.start = e.start /\ r.cursor = e.cursor
      /\ r.total = total /\ r.bookmarks = e.bookmarks /\ r.past = e.past
  <2>1. r = WithLog(e, items, e.start, e.cursor, total, e.bookmarks, e.past)
    BY <1>4
  <2>2. total \in 1..HistorySize
    OBVIOUS
  <2> QED BY <1>1, <1>2, <2>1, <2>2 DEF Wide, SameMachine, WithLog
<1>6. \A p : RealPos(r, p) = RealPos(e, p)
  BY <1>5 DEF RealPos
<1>7. Current(r) = item
  <2>1. Current(r) = items[place]
    BY <1>5, <1>6 DEF Current, SnapshotAt
  <2> HIDE DEF place
  <2> QED BY <1>1, <1>2, <2>1 DEF items
<1>8. ASSUME NEW p \in Positions, p # e.cursor PROVE SnapshotAt(r, p) = SnapshotAt(e, p)
  <2>1. RealPos(e, p) # place /\ RealPos(e, p) \in Positions
    BY <1>1, <1>8, RealPosProperties
  <2>2. SnapshotAt(r, p) = items[RealPos(e, p)]
    BY <1>5, <1>6 DEF SnapshotAt
  <2> HIDE DEF place
  <2> QED BY <1>1, <2>1, <2>2 DEF items, SnapshotAt
<1>9. Undoes(r)
  <2> SUFFICES ASSUME NEW k \in 1..Len(r.past), k <= r.cursor
               PROVE  Alike(SnapshotAt(r, r.cursor - k).inputs, Back(r.past, k))
    BY DEF Undoes
  <2>1. Alike(SnapshotAt(e, e.cursor - k).inputs, Back(e.past, k))
    BY <1>5 DEF GoodLog, Undoes
  <2>2. k \in Nat /\ k >= 1
    BY <1>1, <1>5, LenProperties
  <2>3. e.cursor - k \in Positions /\ e.cursor - k # e.cursor
    <3>1. PICK c \in Nat : c = e.cursor
      BY <1>1
    <3>2. k <= c /\ c < HistorySize /\ HistorySize \in Nat
      BY <1>1, <1>5, <3>1
    <3>3. c - k \in Positions /\ c - k # c
      BY <2>2, <3>2 DEF Positions
    <3> QED BY <3>1, <3>3
  <2> QED BY <1>5, <1>8, <2>1, <2>3
<1>10. \A p \in Positions : GoodItem(r.snapshots[p], r.movie, r.lagLog)
  <2>1. \A p \in Positions : r.snapshots[p] = item \/ r.snapshots[p] = e.snapshots[p]
    <3> HIDE DEF place
    <3> QED BY <1>1, <1>5 DEF items
  <2> QED BY <1>5, <2>1 DEF GoodLog
<1>11. \A s \in Slots : GoodBookmark(r.bookmarks[s])
  BY <1>5 DEF GoodLog
<1> QED BY <1>4, <1>5, <1>7, <1>9, <1>10, <1>11 DEF GoodLog

-----------------------------------------------------------------------------
(* What is registered. *)

LEMMA PartsAlike ==
  ASSUME NEW first, NEW a, NEW b, NEW c, Parts(first, a, b), Alike(b, c)
  PROVE  Parts(first, a, c)
BY DEF Parts, Alike, AgreeBefore

LEMMA CurrentProperties ==
  ASSUME NEW e \in Wide
  PROVE  /\ Current(e) \in WideSnapshots /\ Current(e).inputs \in Seq(Inputs)
         /\ Current(e).tag \in Frames /\ e.cursor \in Positions
         /\ GoodLog(e) => GoodItem(Current(e), e.movie, e.lagLog)
<1>1. e.cursor \in Positions /\ Current(e) \in WideSnapshots /\ RealPos(e, e.cursor) \in Positions
  BY WideFields, RealPosProperties DEF Current
<1>2. Current(e).inputs \in Seq(Inputs) /\ Current(e).tag \in Frames
  BY <1>1 DEF WideSnapshots
<1>3. GoodLog(e) => GoodItem(Current(e), e.movie, e.lagLog)
  BY <1>1 DEF GoodLog, Current, SnapshotAt
<1> QED BY <1>1, <1>2, <1>3

\* HISTORY::registerChanges logs every change of the movie, and finds where it
\* begins.
LEMMA RegisterChangesProperties ==
  ASSUME ed \in Editors, NEW e \in Wide, e.movie # <<>>, GoodLog(e), Logged(e, ed.movie),
         NEW kind \in {"edit", "set"}, NEW start \in Nat, NEW end \in Nat \cup {-1},
         NEW continued \in BOOLEAN,
         AgreeBefore(e.movie, ed.movie, start),
         end = -1 \/ \A f \in Nat : f > end => At(e.movie, f) = At(ed.movie, f),
         NEW r, r = RegisterChanges(e, kind, start, end, continued)
  PROVE  /\ Parts(r.first, e.movie, ed.movie)
         /\ r.ed \in Wide /\ r.ed.movie = e.movie /\ r.ed.lagLog = e.lagLog
         /\ SameMachine(r.ed, e) /\ GoodLog(r.ed) /\ Logged(r.ed, e.movie)
<1> DEFINE theirs == Current(e).inputs
           change == FirstChange(e.movie, theirs, start, end)
           lagChange == IF end = -1 THEN FirstLagChange(e.lagLog, Current(e).lagLog) ELSE -1
           item == Snapshot(e, kind, 0)
<1>1. e.movie \in Seq(Inputs) /\ theirs \in Seq(Inputs) /\ Alike(theirs, ed.movie)
  BY WideFields, CurrentProperties DEF Logged
<1>2. Parts(change, e.movie, theirs)
  <2> HIDE DEF theirs
  <2>1. AgreeBefore(e.movie, theirs, start)
    BY <1>1 DEF AgreeBefore, Alike
  <2>2. end = -1 \/ \A f \in Nat : f > end => At(e.movie, f) = At(theirs, f)
    BY <1>1 DEF Alike
  <2> QED BY <1>1, <2>1, <2>2, FirstChangeProperties
<1>3. lagChange \in Nat \cup {-1}
  <2>1. FirstLagChange(e.lagLog, Current(e).lagLog) \in Nat \cup {-1}
    BY FirstLagChangeProperties
  <2> QED BY <2>1
<1>4. r.first = Earlier(change, lagChange)
  BY DEF RegisterChanges
<1>5. Parts(r.first, e.movie, ed.movie)
  <2> HIDE DEF change, lagChange, theirs
  <2>1. Parts(r.first, e.movie, theirs)
    BY <1>2, <1>3, <1>4, EarlierParts
  <2> QED BY <1>1, <2>1, PartsAlike
<1>6. r.ed = IF change < 0 THEN e
             ELSE IF continued THEN Replaced(e, item, TRUE) ELSE AddItem(e, item)
  BY DEF RegisterChanges
<1>7. item \in WideSnapshots /\ item.inputs = e.movie /\ GoodItem(item, e.movie, e.lagLog)
  <2>1. 0 \in Frames /\ kind \in {"init", "edit", "set", "record", "bookmark"}
    BY TasEditorAssumption DEF Frames
  <2> QED BY <2>1, SnapshotProperties
<1> HIDE DEF item
<1>8. CASE change < 0
  <2>1. Alike(e.movie, theirs)
    <3> HIDE DEF change, theirs
    <3> QED BY <1>2, <1>8 DEF Parts
  <2>2. Logged(e, e.movie)
    BY <2>1 DEF Alike, Logged
  <2>3. r.ed = e
    BY <1>6, <1>8
  <2> QED BY <1>5, <2>2, <2>3 DEF SameMachine
<1>9. CASE ~ (change < 0)
  <2>1. /\ r.ed \in Wide /\ r.ed.movie = e.movie /\ r.ed.lagLog = e.lagLog
        /\ SameMachine(r.ed, e) /\ GoodLog(r.ed) /\ Current(r.ed) = item
    <3> HIDE DEF change
    <3>1. CASE continued
      <4>1. r.ed = Replaced(e, item, TRUE)
        BY <1>6, <1>9, <3>1
      <4> QED BY <1>7, <4>1, ReplacedProperties
    <3>2. CASE ~continued
      <4>1. r.ed = AddItem(e, item)
        BY <1>6, <1>9, <3>2
      <4> QED BY <1>7, <4>1, AddItemProperties
    <3> QED BY <3>1, <3>2
  <2>2. Logged(r.ed, e.movie)
    BY <1>7, <2>1 DEF Logged, Alike
  <2> QED BY <1>5, <2>1, <2>2
<1> QED BY <1>8, <1>9

\* HISTORY::registerAdjustLag
LEMMA RegisterAdjustLagProperties ==
  ASSUME NEW e \in Wide, e.movie # <<>>, GoodLog(e), NEW old, Logged(e, old),
         NEW start \in Nat, AgreeBefore(e.movie, old, start),
         NEW r, r = RegisterAdjustLag(e, start)
  PROVE  /\ Parts(r.first, e.movie, old)
         /\ r.ed \in Wide /\ r.ed.movie = e.movie /\ r.ed.lagLog = e.lagLog
         /\ SameMachine(r.ed, e) /\ GoodLog(r.ed) /\ Logged(r.ed, e.movie)
<1> DEFINE theirs == Current(e).inputs
           change == FirstChange(e.movie, theirs, start, -1)
           item == [Current(e) EXCEPT !.inputs = e.movie, !.lagLog = e.lagLog]
<1>1. /\ e.movie \in Seq(Inputs) /\ theirs \in Seq(Inputs) /\ Alike(theirs, old)
      /\ e.lagLog \in Seq(Lags) /\ Current(e) \in WideSnapshots
  BY WideFields, CurrentProperties DEF Logged
<1>2. Parts(change, e.movie, theirs)
  <2> HIDE DEF theirs
  <2>1. AgreeBefore(e.movie, theirs, start)
    BY <1>1 DEF AgreeBefore, Alike
  <2> QED BY <1>1, <2>1, FirstChangeProperties
<1>3. r.first = change /\ r.ed = IF change < 0 THEN e ELSE Replaced(e, item, FALSE)
  BY DEF RegisterAdjustLag
<1>4. Parts(r.first, e.movie, old)
  <2> HIDE DEF change, theirs
  <2> QED BY <1>1, <1>2, <1>3, PartsAlike
<1>5. /\ item \in WideSnapshots /\ item.inputs = e.movie /\ item.lagLog = e.lagLog
      /\ item.backup = Current(e).backup
  BY <1>1 DEF WideSnapshots
<1>6. GoodItem(item, e.movie, e.lagLog)
  <2>1. GoodBookmark(item.backup)
    BY <1>5, CurrentProperties DEF GoodItem
  <2> QED BY <1>5, <2>1 DEF GoodItem
<1> HIDE DEF item
<1>7. CASE change < 0
  <2>1. Alike(e.movie, theirs)
    <3> HIDE DEF change, theirs
    <3> QED BY <1>2, <1>7 DEF Parts
  <2>2. Logged(e, e.movie)
    BY <2>1 DEF Alike, Logged
  <2>3. r.ed = e
    BY <1>3, <1>7
  <2> QED BY <1>4, <2>2, <2>3 DEF SameMachine
<1>8. CASE ~ (change < 0)
  <2>1. r.ed = Replaced(e, item, FALSE)
    BY <1>3, <1>8
  <2>2. /\ r.ed \in Wide /\ r.ed.movie = e.movie /\ r.ed.lagLog = e.lagLog
        /\ SameMachine(r.ed, e) /\ GoodLog(r.ed) /\ Current(r.ed) = item
    BY <1>5, <1>6, <2>1, ReplacedProperties
  <2>3. Logged(r.ed, e.movie)
    BY <1>5, <2>2 DEF Logged, Alike
  <2> QED BY <1>4, <2>2, <2>3
<1> QED BY <1>7, <1>8

\* HISTORY::registerRecording: the recorded movie is in the log, though a
\* frame that follows another is joined to its item.
LEMMA RegisterRecordingProperties ==
  ASSUME ed \in Editors, NEW e \in Wide, e.movie \in Movies, GoodLog(e), Logged(e, ed.movie),
         NEW frame \in Frames, frame < Len(e.movie),
         \A g \in Nat : g # frame => At(e.movie, g) = At(ed.movie, g),
         NEW r, r = RegisterRecording(e, frame)
  PROVE  /\ r \in Wide /\ r.movie = e.movie /\ r.lagLog = e.lagLog
         /\ SameMachine(r, e) /\ GoodLog(r) /\ Logged(r, e.movie)
<1> DEFINE theirs == Current(e).inputs
           plain == Snapshot(e, "record", frame)
           base == Played(theirs, Len(e.movie))
           inputs == [base EXCEPT ![frame + 1] = At(e.movie, frame)]
           joined == [plain EXCEPT !.inputs = inputs]
<1>1. /\ e.movie \in Seq(Inputs) /\ theirs \in Seq(Inputs) /\ Alike(theirs, ed.movie)
      /\ Len(e.movie) \in Nat /\ frame \in Nat /\ Len(e.movie) <= MaxFrames
  BY WideFields, CurrentProperties, MoviesBounded, TasEditorAssumption DEF Logged, Frames
<1>2. e.movie # <<>>
  BY <1>1
<1>3. plain \in WideSnapshots /\ plain.inputs = e.movie /\ GoodItem(plain, e.movie, e.lagLog)
  <2> "record" \in {"init", "edit", "set", "record", "bookmark"}
    OBVIOUS
  <2> QED BY <1>2, SnapshotProperties
<1>4. /\ base \in Seq(Inputs) /\ Len(base) = Len(e.movie)
      /\ \A g \in Nat : At(base, g) = IF g < Len(e.movie) THEN At(theirs, g) ELSE Blank
  <2> HIDE DEF theirs
  <2> QED BY <1>1, PlayedProperties
<1>5. At(e.movie, frame) \in Inputs
  BY <1>1, AtIsInput
<1>6. /\ inputs \in Seq(Inputs) /\ Len(inputs) = Len(e.movie)
      /\ \A g \in Nat : At(inputs, g) = IF g = frame THEN At(e.movie, frame) ELSE At(base, g)
  <2> HIDE DEF base
  <2> QED BY <1>1, <1>4, <1>5, MovieChanged
<1>7. Alike(inputs, e.movie)
  <2> SUFFICES ASSUME NEW g \in Nat PROVE At(inputs, g) = At(e.movie, g)
    BY DEF Alike
  <2> HIDE DEF inputs, base, theirs
  <2>1. CASE g = frame
    BY <1>6, <2>1
  <2>2. CASE g # frame /\ g < Len(e.movie)
    <3>1. At(inputs, g) = At(theirs, g)
      BY <1>4, <1>6, <2>2
    <3> QED BY <1>1, <2>2, <3>1 DEF Alike
  <2>3. CASE ~ (g < Len(e.movie))
    <3>1. At(inputs, g) = Blank
      BY <1>1, <1>4, <1>6, <2>3
    <3>2. At(e.movie, g) = Blank
      BY <2>3 DEF At
    <3> QED BY <3>1, <3>2
  <2> QED BY <2>1, <2>2, <2>3
<1>8. inputs \in Movies /\ inputs # <<>>
  <2> HIDE DEF inputs
  <2> QED BY <1>1, <1>6, MoviesBounded
<1> HIDE DEF inputs, plain
<1>9. joined \in WideSnapshots /\ joined.inputs = inputs /\ GoodItem(joined, e.movie, e.lagLog)
  <2>1. /\ joined \in WideSnapshots /\ joined.inputs = inputs /\ joined.lagLog = plain.lagLog
        /\ joined.backup = plain.backup
    BY <1>3, <1>6 DEF WideSnapshots
  <2> HIDE DEF joined
  <2> QED BY <1>3, <1>8, <2>1 DEF GoodItem
<1>10. r = Replaced(e, joined, TRUE) \/ r = AddItem(e, plain)
  BY DEF RegisterRecording, plain, inputs
<1> HIDE DEF joined
<1>11. CASE r = Replaced(e, joined, TRUE)
  <2>1. /\ r \in Wide /\ r.movie = e.movie /\ r.lagLog = e.lagLog /\ SameMachine(r, e)
        /\ GoodLog(r) /\ Current(r) = joined
    BY <1>9, <1>11, ReplacedProperties
  <2> QED BY <1>7, <1>9, <2>1 DEF Logged
<1>12. CASE r = AddItem(e, plain)
  <2>1. /\ r \in Wide /\ r.movie = e.movie /\ r.lagLog = e.lagLog /\ SameMachine(r, e)
        /\ GoodLog(r) /\ Current(r) = plain
    BY <1>3, <1>12, AddItemProperties
  <2>2. Logged(r, e.movie)
    BY <1>3, <2>1 DEF Logged, Alike
  <2> QED BY <2>1, <2>2
<1> QED BY <1>10, <1>11, <1>12

\* A log whose movies are within the bound is good whatever the movie becomes.
LEMMA GoodLogMoved ==
  ASSUME NEW a, NEW b, GoodLog(a), a.movie \in Movies, a.lagLog \in LagLogs, SameLog(b, a)
  PROVE  GoodLog(b)
<1>1. Undoes(b)
  BY SameItems DEF GoodLog
<1>2. /\ b.cursor = a.cursor /\ b.total = a.total /\ b.bookmarks = a.bookmarks
      /\ b.snapshots = a.snapshots
  BY DEF SameLog
<1>3. \A p \in Positions : GoodItem(b.snapshots[p], b.movie, b.lagLog)
  BY <1>2 DEF GoodLog, GoodItem
<1> QED BY <1>1, <1>2, <1>3 DEF GoodLog

\* RECORDER::recordInput
LEMMA RecordedProperties ==
  ASSUME ed \in Editors, NEW e \in Wide, e.movie \in Movies, e.lagLog \in LagLogs,
         Frame(e) < Len(e.movie), GoodLog(e), Logged(e, ed.movie),
         Alike(e.movie, ed.movie), Faithful(e, e.movie), NEW input \in Inputs,
         NEW r, r = Recorded(e, input)
  PROVE  /\ r \in Wide /\ r.movie \in Movies /\ Len(r.movie) = Len(e.movie)
         /\ r.lagLog = e.lagLog /\ r.machine = e.machine
         /\ GoodLog(r) /\ Logged(r, r.movie) /\ Faithful(r, r.movie)
<1> DEFINE frame == Frame(e)
           movie == [e.movie EXCEPT ![frame + 1] = input]
           recorded == [e EXCEPT !.movie[frame + 1] = input]
<1>1. /\ e.movie \in Seq(Inputs) /\ Len(e.movie) \in Nat /\ Len(e.movie) <= MaxFrames
      /\ frame \in Nat /\ frame \in Frames /\ Len(e.machine) = frame /\ e.lagLog \in Seq(Lags)
  BY WideFields, MoviesBounded DEF Frame
<1>2. /\ movie \in Seq(Inputs) /\ Len(movie) = Len(e.movie)
      /\ \A g \in Nat : At(movie, g) = IF g = frame THEN input ELSE At(e.movie, g)
  <2> HIDE DEF frame
  <2> QED BY <1>1, MovieChanged DEF frame
<1>3. recorded = WithMovie(e, movie, e.lagLog)
  BY DEF WithMovie, Wide
<1> HIDE DEF movie, recorded
<1>4. /\ recorded \in Wide /\ SameLog(recorded, e) /\ SameMachine(recorded, e)
      /\ recorded.movie = movie /\ recorded.lagLog = e.lagLog
  BY <1>1, <1>2, <1>3, WithMovieFields
<1>5. /\ movie \in Movies /\ movie # <<>>
      /\ Frame(recorded) = frame /\ recorded.machine = e.machine
  BY <1>1, <1>2, <1>4, MoviesBounded DEF SameMachine, Frame
<1>6. GoodLog(recorded) /\ Logged(recorded, ed.movie)
  <2>1. Current(recorded) = Current(e)
    BY <1>4, SameItems
  <2> QED BY <1>4, <2>1, GoodLogMoved DEF Logged
<1>7. Parts(frame, movie, e.movie)
  <2> HIDE DEF frame
  <2> QED BY <1>1, <1>2 DEF Parts, AgreeBefore, frame
<1>8. Played(movie, frame) = Played(e.movie, frame) /\ e.machine = Played(e.movie, frame)
  BY <1>1, <1>7, PlayedAgree DEF Parts, Faithful
<1>9. CASE input = At(Current(e).inputs, frame)
  <2>1. r = recorded
    BY <1>9 DEF Recorded, recorded
  <2>2. Alike(movie, e.movie)
    <3>1. input = At(e.movie, frame)
      BY <1>1, <1>9 DEF Logged, Alike
    <3> QED BY <1>2, <3>1 DEF Alike
  <2>3. Logged(recorded, movie)
    BY <1>6, <2>2 DEF Logged, Alike
  <2>4. Faithful(recorded, movie)
    <3>1. \A f \in Frames : Played(movie, f) = Played(e.movie, f)
      BY <2>2, TasEditorAssumption, PlayedAgree DEF Alike, AgreeBefore, Frames
    <3>2. Cached(recorded, movie)
      BY <1>4, <3>1 DEF Faithful, Cached, SameMachine
    <3> QED BY <1>1, <1>5, <1>8, <3>2 DEF Faithful
  <2> QED BY <1>2, <1>4, <1>5, <1>6, <2>1, <2>3, <2>4
<1>10. CASE input # At(Current(e).inputs, frame)
  <2> DEFINE logged == RegisterRecording(recorded, frame)
  <2>1. r = Invalidate(logged, frame)
    BY <1>10, <1>5, Zenon DEF Recorded, recorded
  <2>2. /\ logged \in Wide /\ logged.movie = movie /\ logged.lagLog = e.lagLog
        /\ SameMachine(logged, recorded) /\ GoodLog(logged) /\ Logged(logged, movie)
    <3> HIDE DEF frame
    <3>1. frame < Len(movie)
      BY <1>2 DEF frame
    <3>2. \A g \in Nat : g # frame => At(movie, g) = At(ed.movie, g)
      BY <1>2 DEF Alike
    <3> QED BY <1>1, <1>4, <1>5, <1>6, <3>1, <3>2, RegisterRecordingProperties
  <2> HIDE DEF logged
  <2>3. Cached(logged, e.movie)
    BY <1>4, <2>2 DEF Faithful, Cached, SameMachine
  <2>4. /\ r \in Wide /\ SameLog(r, logged) /\ r.movie = movie /\ r.lagLog = e.lagLog
        /\ r.machine = logged.machine /\ Cached(r, movie)
    <3> HIDE DEF frame
    <3> QED BY <1>5, <1>7, <2>1, <2>2, <2>3, InvalidateProperties
  <2>5. GoodLog(r) /\ Logged(r, movie)
    <3>1. Current(r) = Current(logged)
      BY <2>4, SameItems
    <3> QED BY <1>5, <2>2, <2>4, <3>1, GoodLogMoved DEF Logged
  <2>6. r.machine = e.machine
    BY <1>4, <2>2, <2>4 DEF SameMachine
  <2> QED BY <1>1, <1>2, <1>5, <1>8, <2>4, <2>5, <2>6 DEF Faithful
<1> QED BY <1>9, <1>10

-----------------------------------------------------------------------------
(* A frame is emulated. *)

\* What holds of an editor while an action is under way: the savestates, the
\* machine and the log are of the movie.  Between actions the movie and the
\* LagLog are within the bound.
Coherent(e) ==
  /\ e \in Wide /\ e.movie # <<>>
  /\ GoodLog(e) /\ Logged(e, e.movie) /\ Faithful(e, e.movie)
Sound(e) == Coherent(e) /\ e.movie \in Movies /\ e.lagLog \in LagLogs

\* The machine is where the Greenzone has a savestate, or at the beginning.
Landed(e) == e.savestates[Frame(e)] # NoState \/ Frame(e) = 0

\* FCEUMOV_AddInputState plays the movie on, recorded into or not.
LEMMA EmulatedProperties ==
  ASSUME ed \in Editors, Sound(ed), Frame(ed) + 2 <= MaxFrames,
         NEW recording \in BOOLEAN, NEW input \in Inputs,
         NEW r, r = Emulated(ed, recording, input)
  PROVE  Sound(r) /\ Frame(r) < Len(r.movie)
<1> DEFINE frame == Frame(ed)
           movie == Padded(ed.movie, frame + 2)
           padded == [ed EXCEPT !.movie = movie]
           logged == IF recording THEN Recorded(padded, input) ELSE padded
<1>1. /\ ed \in Wide /\ ed.movie \in Seq(Inputs) /\ frame \in Nat /\ Len(ed.movie) \in Nat
      /\ Len(ed.movie) <= MaxFrames /\ ed.lagLog \in Seq(Lags) /\ MaxFrames \in Nat
      /\ frame + 2 <= MaxFrames /\ Len(ed.machine) = frame
  BY WideFields, MoviesBounded, TasEditorAssumption DEF Sound, Coherent, Frame
<1>2. /\ movie \in Seq(Inputs) /\ Alike(movie, ed.movie)
      /\ Len(movie) = IF Len(ed.movie) < frame + 2 THEN frame + 2 ELSE Len(ed.movie)
  <2> HIDE DEF frame
  <2> QED BY <1>1, PaddedProperties
<1>3. padded = WithMovie(ed, movie, ed.lagLog)
  BY <1>1 DEF WithMovie, Wide
<1> HIDE DEF movie
<1>4. movie \in Movies /\ movie # <<>> /\ frame + 1 < Len(movie)
  <2> HIDE DEF frame
  <2> QED BY <1>1, <1>2, MoviesBounded
<1>5. /\ padded \in Wide /\ SameLog(padded, ed) /\ SameMachine(padded, ed)
      /\ padded.movie = movie /\ padded.lagLog = ed.lagLog
  <2> HIDE DEF padded
  <2> QED BY <1>1, <1>2, <1>3, WithMovieFields
<1>6. Frame(padded) = frame /\ padded.machine = ed.machine
  BY <1>5 DEF SameMachine, Frame
<1>7. GoodLog(padded) /\ Logged(padded, ed.movie) /\ Logged(padded, movie)
  <2>1. Current(padded) = Current(ed)
    BY <1>5, SameItems
  <2>2. Logged(padded, ed.movie)
    BY <2>1 DEF Sound, Coherent, Logged
  <2> QED BY <1>2, <1>5, <2>2, GoodLogMoved DEF Sound, Coherent, Logged, Alike
<1>8. Faithful(padded, movie)
  <2>1. \A f \in Nat : Played(movie, f) = Played(ed.movie, f)
    BY <1>2, PlayedAgree DEF Alike, AgreeBefore
  <2>2. Frames \subseteq Nat
    BY TasEditorAssumption DEF Frames
  <2> QED BY <1>1, <1>5, <1>6, <2>1, <2>2 DEF Sound, Coherent, Faithful, Cached, SameMachine
<1>9. /\ logged \in Wide /\ logged.movie \in Movies /\ Len(logged.movie) = Len(movie)
      /\ logged.lagLog = ed.lagLog /\ logged.machine = ed.machine
      /\ GoodLog(logged) /\ Logged(logged, logged.movie) /\ Faithful(logged, logged.movie)
  <2>1. CASE recording
    <3>1. logged = Recorded(padded, input)
      BY <2>1
    <3> HIDE DEF logged, padded, frame
    <3>2. Frame(padded) < Len(padded.movie)
      BY <1>1, <1>4, <1>5, <1>6, LenProperties
    <3> QED BY <1>2, <1>4, <1>5, <1>6, <1>7, <1>8, <3>1, <3>2, RecordedProperties DEF Sound, Coherent
  <2>2. CASE ~recording
    <3>1. logged = padded
      BY <2>2
    <3> HIDE DEF logged, padded
    <3> QED BY <1>4, <1>5, <1>6, <1>7, <1>8, <3>1
  <2> QED BY <2>1, <2>2
<1>10. r = WithMachine(logged, Append(logged.machine, logged.movie[frame + 1]))
  BY Zenon DEF Emulated, WithMachine, movie
<1> HIDE DEF logged
<1> DEFINE machine == Append(logged.machine, logged.movie[frame + 1])
<1>11. machine \in Movies /\ Len(machine) = frame + 1 /\ machine = Played(logged.movie, frame + 1)
  <2> PICK m \in Seq(Inputs) : m = logged.movie
    BY <1>9, WideFields
  <2>1. Len(m) = Len(movie) /\ frame + 1 \in 1..Len(m) /\ frame < Len(m)
    BY <1>1, <1>4, <1>9, LenProperties
  <2>2. m[frame + 1] \in Inputs /\ m[frame + 1] = At(m, frame)
    <3>1. At(m, frame) \in Inputs
      BY <1>1, AtIsInput
    <3>2. At(m, frame) = m[frame + 1]
      BY <2>1 DEF At
    <3> QED BY <3>1, <3>2
  <2>3. logged.machine = Played(m, frame)
    BY <1>1, <1>9 DEF Faithful
  <2>4. Append(Played(m, frame), At(m, frame)) = Played(m, frame + 1)
    <3> HIDE DEF frame
    <3> QED BY <1>1, PlayedNext
  <2>5. Played(m, frame + 1) \in Seq(Inputs) /\ Len(Played(m, frame + 1)) = frame + 1
    <3> HIDE DEF frame
    <3>1. frame + 1 \in Nat
      BY <1>1
    <3> QED BY <3>1, PlayedProperties
  <2>6. machine = Played(m, frame + 1)
    BY <2>2, <2>3, <2>4
  <2> HIDE DEF machine, frame
  <2>7. machine \in Movies
    BY <1>1, <2>5, <2>6, MoviesBounded
  <2> QED BY <2>5, <2>6, <2>7
<1>12. /\ r \in Wide /\ SameLog(r, logged) /\ r.movie = logged.movie /\ r.lagLog = logged.lagLog
       /\ r.machine = machine /\ r.savestates = logged.savestates
       /\ r.greenzoneSize = logged.greenzoneSize
  <2> HIDE DEF machine
  <2> QED BY <1>9, <1>10, <1>11, WithMachineFields DEF machine
<1> HIDE DEF machine
<1>13. r.movie # <<>> /\ Frame(r) = frame + 1 /\ Frame(r) < Len(r.movie)
  BY <1>1, <1>4, <1>9, <1>11, <1>12 DEF Frame
<1>14. Current(r) = Current(logged)
  BY <1>12, SameItems
<1>15. GoodLog(r) /\ Logged(r, r.movie)
  BY <1>9, <1>12, <1>14, SameItems DEF Logged
<1>16. Faithful(r, r.movie)
  BY <1>9, <1>11, <1>12 DEF Faithful, Cached
<1> QED BY <1>9, <1>12, <1>13, <1>15, <1>16 DEF Sound, Coherent

-----------------------------------------------------------------------------
(* The Greenzone is updated. *)

LEMMA CollectedProperties ==
  ASSUME NEW e, Sound(e), NEW c, c = Collected(e)
  PROVE  /\ Sound(c) /\ SameLog(c, e) /\ c.movie = e.movie /\ c.lagLog = e.lagLog
         /\ c.machine = e.machine /\ c.savestates[Frame(c)] # NoState
<1> DEFINE frame == Frame(e)
           s == [e.savestates EXCEPT ![frame] = IF @ = NoState THEN e.machine ELSE @]
           g == IF e.greenzoneSize <= frame THEN frame + 1 ELSE e.greenzoneSize
<1>1. /\ e \in Wide /\ e.machine \in Movies /\ frame \in Frames /\ frame \in Nat
      /\ e.savestates \in [Frames -> Movies \cup {NoState}]
      /\ e.greenzoneSize \in 0..MaxFrames + 1 /\ frame <= MaxFrames /\ MaxFrames \in Nat
      /\ NoState \notin Movies /\ Len(e.machine) = frame
  BY WideFields, TasEditorAssumption DEF Sound, Coherent, Frames, Frame
<1>2. c = WithGreenzone(e, s, g)
  BY Zenon DEF Collected, WithGreenzone
<1> HIDE DEF frame
<1>3. /\ s \in [Frames -> Movies \cup {NoState}]
      /\ s[frame] = IF e.savestates[frame] = NoState THEN e.machine ELSE e.savestates[frame]
      /\ \A f \in Frames : f # frame => s[f] = e.savestates[f]
  BY <1>1
<1>4. g \in 0..MaxFrames + 1 /\ frame < g /\ e.greenzoneSize <= g
  BY <1>1
<1> HIDE DEF s, g
<1>5. /\ c \in Wide /\ SameLog(c, e) /\ c.movie = e.movie /\ c.lagLog = e.lagLog
      /\ c.machine = e.machine /\ c.savestates = s /\ c.greenzoneSize = g
  BY <1>1, <1>2, <1>3, <1>4, WithGreenzoneFields
<1>6. Frame(c) = frame
  BY <1>1, <1>5 DEF Frame
<1>7. c.savestates[Frame(c)] # NoState
  BY <1>1, <1>3, <1>5, <1>6
<1>8. Cached(c, e.movie)
  <2> SUFFICES ASSUME NEW f \in Frames, c.savestates[f] # NoState
               PROVE  f < c.greenzoneSize /\ c.savestates[f] = Played(e.movie, f)
    BY DEF Cached
  <2>1. e.savestates[f] # NoState => f < e.greenzoneSize /\ e.savestates[f] = Played(e.movie, f)
    BY DEF Sound, Coherent, Faithful, Cached
  <2>2. CASE f = frame
    <3>1. e.machine = Played(e.movie, frame)
      BY <1>1 DEF Sound, Coherent, Faithful
    <3> QED BY <1>3, <1>4, <1>5, <2>1, <2>2, <3>1
  <2>3. CASE f # frame
    <3>1. e.savestates[f] # NoState /\ c.savestates[f] = e.savestates[f]
      BY <1>3, <1>5, <2>3
    <3>2. f < e.greenzoneSize /\ f \in Int
      BY <2>1, <3>1, TasEditorAssumption DEF Frames
    <3>3. f < g
      BY <1>1, <1>4, <3>2
    <3> QED BY <1>5, <2>1, <3>1, <3>3
  <2> QED BY <2>2, <2>3
<1>9. GoodLog(c) /\ Logged(c, c.movie)
  BY <1>5, SameItems DEF Sound, Coherent, Logged
<1>10. Faithful(c, c.movie)
  BY <1>5, <1>8 DEF Sound, Coherent, Faithful
<1> QED BY <1>5, <1>7, <1>9, <1>10 DEF Sound, Coherent

\* The end of adjustUp and adjustDown: the Greenzone is cut where the movie
\* changed, and the machine is taken back if that is above it.
LEMMA AdjustedProperties ==
  ASSUME NEW reg, reg.ed \in Wide, reg.ed.movie # <<>>, GoodLog(reg.ed),
         Logged(reg.ed, reg.ed.movie), NEW old, Parts(reg.first, reg.ed.movie, old),
         Faithful(reg.ed, old), Frame(reg.ed) < Len(reg.ed.movie),
         reg.ed.savestates[Frame(reg.ed)] # NoState, NEW back,
         NEW r, r = Adjusted(reg, back)
  PROVE  Coherent(r) /\ Landed(r)
<1> PICK e \in Wide : e = reg.ed
  OBVIOUS
<1> PICK first : first = reg.first
  OBVIOUS
<1> DEFINE frame == Frame(e)
           shorter == Invalidate(e, first)
<1>1. /\ e.movie # <<>> /\ Len(e.movie) \in Nat /\ frame \in Nat /\ frame \in Frames
      /\ first \in Nat \cup {-1} /\ Len(e.machine) = frame
      /\ frame < Len(e.movie) /\ e.savestates[frame] # NoState
      /\ GoodLog(e) /\ Logged(e, e.movie) /\ Parts(first, e.movie, old)
  BY WideFields DEF Parts, Frame
<1>2. Cached(e, old) /\ e.machine = Played(old, frame)
  BY <1>1 DEF Faithful
<1> HIDE DEF frame
<1>3. ASSUME first < 0 \/ frame <= first
      PROVE  AgreeBefore(e.movie, old, frame) /\ e.machine = Played(e.movie, frame)
  <2>1. AgreeBefore(e.movie, old, frame)
    BY <1>1, <1>3 DEF Parts, Alike, AgreeBefore
  <2> QED BY <1>1, <1>2, <2>1, PlayedAgree
<1>4. CASE back \/ (first >= 0 /\ first < frame)
  <2>1. r = Unforced(shorter, shorter.greenzoneSize - 1)
    BY <1>4, Zenon DEF Adjusted, Unforced, frame
  <2>2. /\ shorter \in Wide /\ SameLog(shorter, e) /\ shorter.movie = e.movie
        /\ shorter.lagLog = e.lagLog /\ shorter.machine = e.machine
        /\ Cached(shorter, e.movie)
        /\ first < 0 => shorter = e
        /\ first >= 0 => /\ shorter.greenzoneSize <= first + 1
                         /\ \A f \in Frames : f <= first /\ f < Len(e.movie) =>
                              shorter.savestates[f] = e.savestates[f]
    BY <1>1, <1>2, InvalidateProperties
  <2> HIDE DEF shorter
  <2>3. PICK g \in Nat : g = shorter.greenzoneSize
    BY <2>2, WideFields, TasEditorAssumption
  <2>4. Frame(shorter) = frame
    BY <1>1, <2>2 DEF Frame
  <2>5. ASSUME frame <= g - 1
        PROVE  first < 0 \/ frame <= first
    <3>1. first >= 0 => g <= first + 1
      BY <2>2, <2>3
    <3> QED BY <1>1, <2>5, <3>1
  <2>6. g - 1 \in Nat \cup {-1}
    OBVIOUS
  <2>7. r = Unforced(shorter, g - 1)
    BY <2>1, <2>3
  <2>8. /\ r \in Wide /\ SameLog(r, shorter) /\ r.movie = shorter.movie
        /\ r.lagLog = shorter.lagLog /\ r.savestates = shorter.savestates
        /\ r.greenzoneSize = shorter.greenzoneSize
        /\ r.machine = Played(r.movie, Len(r.machine))
        /\ \/ r.savestates[Frame(r)] # NoState
           \/ Frame(r) = 0
           \/ r = shorter /\ Frame(shorter) <= g - 1 /\ Frame(shorter) < shorter.greenzoneSize
    <3>1. Frame(shorter) <= g - 1 /\ Frame(shorter) < shorter.greenzoneSize =>
            shorter.machine = Played(shorter.movie, Frame(shorter))
      BY <1>3, <2>2, <2>4, <2>5
    <3>2. shorter.movie # <<>> /\ Cached(shorter, shorter.movie)
      BY <1>1, <2>2
    <3> QED BY <2>2, <2>6, <2>7, <3>1, <3>2, UnforcedProperties
  <2>9. Landed(r)
    <3>1. CASE r = shorter /\ Frame(shorter) <= g - 1
      <4>1. first < 0 \/ frame <= first
        BY <2>4, <2>5, <3>1
      <4>2. shorter.savestates[frame] = e.savestates[frame]
        BY <1>1, <2>2, <4>1
      <4> QED BY <1>1, <2>4, <3>1, <4>2 DEF Landed
    <3> QED BY <2>8, <3>1 DEF Landed
  <2>10. SameLog(r, e) /\ r.movie = e.movie /\ r.lagLog = e.lagLog
    BY <2>2, <2>8 DEF SameLog
  <2>11. GoodLog(r) /\ Logged(r, r.movie)
    BY <1>1, <2>10, SameItems DEF Logged
  <2>12. Faithful(r, r.movie)
    BY <2>2, <2>8 DEF Faithful, Cached
  <2> QED BY <1>1, <2>8, <2>9, <2>10, <2>11, <2>12 DEF Coherent
<1>5. CASE ~ (back \/ (first >= 0 /\ first < frame))
  <2>1. r = Invalidate(e, frame)
    BY <1>5, Zenon DEF Adjusted, frame
  <2>2. first < 0 \/ frame <= first
    BY <1>1, <1>5
  <2>3. Parts(frame, e.movie, old)
    BY <1>1, <1>3, <2>2 DEF Parts
  <2>4. /\ r \in Wide /\ SameLog(r, e) /\ r.movie = e.movie /\ r.lagLog = e.lagLog
        /\ r.machine = e.machine /\ Cached(r, e.movie)
        /\ frame >= 0 => \A f \in Frames : f <= frame /\ f < Len(e.movie) =>
                           r.savestates[f] = e.savestates[f]
    BY <1>1, <1>2, <2>1, <2>3, InvalidateProperties
  <2>5. Frame(r) = frame /\ r.savestates[frame] # NoState
    BY <1>1, <2>4 DEF Frame
  <2>6. GoodLog(r) /\ Logged(r, r.movie)
    BY <1>1, <2>4, SameItems DEF Logged
  <2>7. Faithful(r, r.movie)
    BY <1>1, <1>3, <2>2, <2>4 DEF Faithful
  <2> QED BY <1>1, <2>4, <2>5, <2>6, <2>7 DEF Coherent, Landed
<1> QED BY <1>4, <1>5

\* GREENZONE::adjustUp and adjustDown change the movie above the cursor, in
\* the log too.
LEMMA AdjustUpProperties ==
  ASSUME NEW e, Sound(e), Frame(e) # 0, e.savestates[Frame(e)] # NoState,
         NEW r, r = AdjustUp(e)
  PROVE  Coherent(r) /\ Landed(r)
<1> DEFINE above == Frame(e) - 1
           lag == {n \in Frames : \A f \in above..above + n - 1 : LagAt(e.lagLog, f) = "lagged"}
           gone == CHOOSE n \in lag : \A m \in lag : m <= n
           log == Erased(e.lagLog, above, gone)
           movie == Padded(Erased(e.movie, above, gone), Frame(e) + 1)
           erased == [e EXCEPT !.movie = movie, !.lagLog = log]
           reg == RegisterAdjustLag(erased, above)
<1>1. /\ e \in Wide /\ e.movie \in Seq(Inputs) /\ e.lagLog \in Seq(Lags)
      /\ Frame(e) \in Nat /\ above \in Nat /\ above < Frame(e) /\ Frame(e) + 1 \in Nat
  BY WideFields DEF Sound, Coherent
<1>2. gone \in Nat
  <2>1. lag \subseteq Nat /\ \A n \in lag : n <= MaxFrames
    BY TasEditorAssumption DEF Frames
  <2>2. 0 \in lag
    <3>1. 0 \in Frames
      BY TasEditorAssumption DEF Frames
    <3>2. \A f \in above..above + 0 - 1 : FALSE
      BY <1>1
    <3> HIDE DEF above
    <3> QED BY <3>1, <3>2
  <2> HIDE DEF lag
  <2>3. \E n \in lag : \A m \in lag : m <= n
    BY <2>1, <2>2, LargestElement, TasEditorAssumption
  <2>4. gone \in lag
    BY <2>3
  <2> QED BY <2>1, <2>4
<1> HIDE DEF gone
<1>3. log \in Seq(Lags)
  <2> HIDE DEF above
  <2> QED BY <1>1, <1>2, LagLogTypes
<1>4. /\ movie \in Seq(Inputs) /\ AgreeBefore(movie, e.movie, above)
      /\ Frame(e) < Len(movie)
  <2> DEFINE w == Erased(e.movie, above, gone)
             n == Frame(e) + 1
  <2>1. w \in Seq(Inputs) /\ AgreeBefore(w, e.movie, above)
    <3> HIDE DEF above
    <3> QED BY <1>1, <1>2, MovieErased
  <2> HIDE DEF w
  <2>2. /\ Padded(w, n) \in Seq(Inputs) /\ Alike(Padded(w, n), w)
        /\ Len(Padded(w, n)) = IF Len(w) < n THEN n ELSE Len(w)
    <3> HIDE DEF n
    <3> QED BY <1>1, <2>1, PaddedProperties DEF n
  <2>3. Frame(e) < Len(Padded(w, n))
    BY <1>1, <2>1, <2>2, LenProperties
  <2>4. AgreeBefore(Padded(w, n), e.movie, above)
    BY <2>1, <2>2 DEF AgreeBefore, Alike
  <2> QED BY <2>2, <2>3, <2>4 DEF w
<1>5. movie # <<>>
  BY <1>1, <1>4
<1>6. erased = WithMovie(e, movie, log)
  BY DEF WithMovie
<1>7. r = Adjusted(reg, LagAt(log, above) # "not")
  BY Zenon DEF AdjustUp, gone
<1> HIDE DEF above, movie, log, erased
<1>8. /\ erased \in Wide /\ SameLog(erased, e) /\ SameMachine(erased, e)
      /\ erased.movie = movie /\ erased.lagLog = log
  BY <1>1, <1>3, <1>4, <1>6, WithMovieFields
<1>9. GoodLog(erased) /\ Logged(erased, e.movie)
  <2>1. Current(erased) = Current(e)
    BY <1>8, SameItems
  <2> QED BY <1>8, <2>1, GoodLogMoved DEF Sound, Coherent, Logged
<1>10. /\ Parts(reg.first, movie, e.movie)
       /\ reg.ed \in Wide /\ reg.ed.movie = movie /\ reg.ed.lagLog = log
       /\ SameMachine(reg.ed, erased) /\ GoodLog(reg.ed) /\ Logged(reg.ed, movie)
  BY <1>1, <1>4, <1>5, <1>8, <1>9, RegisterAdjustLagProperties
<1> HIDE DEF reg
<1>11. /\ reg.ed.machine = e.machine /\ reg.ed.savestates = e.savestates
       /\ reg.ed.greenzoneSize = e.greenzoneSize /\ Frame(reg.ed) = Frame(e)
  BY <1>8, <1>10 DEF SameMachine, Frame
<1>12. Faithful(reg.ed, e.movie)
  BY <1>11 DEF Sound, Coherent, Faithful, Cached
<1> QED BY <1>4, <1>5, <1>7, <1>10, <1>11, <1>12, AdjustedProperties

LEMMA AdjustDownProperties ==
  ASSUME NEW e, Sound(e), Frame(e) # 0, Frame(e) <= Len(e.movie),
         e.savestates[Frame(e)] # NoState, NEW r, r = AdjustDown(e)
  PROVE  Coherent(r) /\ Landed(r)
<1> DEFINE above == Frame(e) - 1
           log == LagInserted(e.lagLog, above, "lagged")
           movie == InsertAt(e.movie, above + 1, At(e.movie, above))
           cloned == [e EXCEPT !.movie = movie, !.lagLog = log]
           reg == RegisterAdjustLag(cloned, above)
<1>1. /\ e \in Wide /\ e.movie \in Seq(Inputs) /\ e.lagLog \in Seq(Lags)
      /\ Frame(e) \in Nat /\ above \in Nat /\ above < Frame(e) /\ Len(e.movie) \in Nat
  BY WideFields DEF Sound, Coherent
<1>2. above <= Len(e.movie)
  BY <1>1
<1>3. log \in Seq(Lags)
  <2> HIDE DEF above
  <2>1. "lagged" \in Lags
    BY DEF Lags
  <2> QED BY <1>1, <2>1, LagLogTypes
<1>4. /\ movie \in Seq(Inputs) /\ AgreeBefore(movie, e.movie, above)
      /\ Len(movie) = Len(e.movie) + 1
  <2> HIDE DEF above
  <2>1. At(e.movie, above) \in Inputs
    BY <1>1, AtIsInput
  <2> QED BY <1>1, <1>2, <2>1, MovieInserted
<1>5. movie # <<>> /\ Frame(e) < Len(movie)
  BY <1>1, <1>4
<1>6. cloned = WithMovie(e, movie, log)
  BY DEF WithMovie
<1>7. r = Adjusted(reg, FALSE)
  BY Zenon DEF AdjustDown
<1> HIDE DEF above, movie, log, cloned
<1>8. /\ cloned \in Wide /\ SameLog(cloned, e) /\ SameMachine(cloned, e)
      /\ cloned.movie = movie /\ cloned.lagLog = log
  BY <1>1, <1>3, <1>4, <1>6, WithMovieFields
<1>9. GoodLog(cloned) /\ Logged(cloned, e.movie)
  <2>1. Current(cloned) = Current(e)
    BY <1>8, SameItems
  <2> QED BY <1>8, <2>1, GoodLogMoved DEF Sound, Coherent, Logged
<1>10. /\ Parts(reg.first, movie, e.movie)
       /\ reg.ed \in Wide /\ reg.ed.movie = movie /\ reg.ed.lagLog = log
       /\ SameMachine(reg.ed, cloned) /\ GoodLog(reg.ed) /\ Logged(reg.ed, movie)
  BY <1>1, <1>4, <1>5, <1>8, <1>9, RegisterAdjustLagProperties
<1> HIDE DEF reg
<1>11. /\ reg.ed.machine = e.machine /\ reg.ed.savestates = e.savestates
       /\ reg.ed.greenzoneSize = e.greenzoneSize /\ Frame(reg.ed) = Frame(e)
  BY <1>8, <1>10 DEF SameMachine, Frame
<1>12. Faithful(reg.ed, e.movie)
  BY <1>11 DEF Sound, Coherent, Faithful, Cached
<1> QED BY <1>4, <1>5, <1>7, <1>10, <1>11, <1>12, AdjustedProperties

\* GREENZONE::update, whatever it finds out about the lag.
LEMMA UpdatedProperties ==
  ASSUME NEW e, Sound(e), NEW autoAdjust \in BOOLEAN, autoAdjust => Adjustable(e),
         NEW r, r = Updated(e, autoAdjust)
  PROVE  Coherent(r) /\ Landed(r)
<1> PICK c : c = Collected(e)
  OBVIOUS
<1> DEFINE old == LagAt(c.lagLog, Frame(c) - 1)
           new == IF Lagged(c.machine) THEN "lagged" ELSE "not"
<1>1. /\ Sound(c) /\ SameLog(c, e) /\ c.movie = e.movie /\ c.lagLog = e.lagLog
      /\ c.machine = e.machine /\ c.savestates[Frame(c)] # NoState
  BY CollectedProperties
<1>2. /\ c \in Wide /\ Frame(c) \in Nat /\ Frame(c) = Frame(e)
      /\ c.movie \in Seq(Inputs) /\ Len(c.movie) \in Nat /\ c.lagLog \in Seq(Lags)
  BY <1>1, WideFields DEF Sound, Coherent, Frame
<1>3. r = IF Frame(c) = 0 \/ old = new THEN c
          ELSE IF ~autoAdjust \/ old = "unknown"
          THEN [c EXCEPT !.lagLog = LagSet(@, Frame(c) - 1, new)]
          ELSE IF old = "lagged" THEN AdjustUp(c) ELSE AdjustDown(c)
  BY Zenon DEF Updated
<1>4. CASE Frame(c) = 0 \/ old = new
  BY <1>1, <1>3, <1>4 DEF Sound, Landed
<1>5. CASE ~ (Frame(c) = 0 \/ old = new) /\ (~autoAdjust \/ old = "unknown")
  <2> DEFINE log == LagSet(c.lagLog, Frame(c) - 1, new)
  <2>1. r = [c EXCEPT !.lagLog = log]
    BY <1>3, <1>5, Zenon
  <2>2. log \in Seq(Lags)
    <3>1. Frame(c) - 1 \in Nat /\ new \in Lags
      BY <1>2, <1>5 DEF Lags
    <3> QED BY <1>2, <3>1, LagLogTypes
  <2>3. r = WithMovie(c, c.movie, log)
    BY <1>2, <2>1 DEF WithMovie, Wide
  <2> HIDE DEF log
  <2>4. /\ r \in Wide /\ SameLog(r, c) /\ SameMachine(r, c)
        /\ r.movie = c.movie /\ r.lagLog = log
    BY <1>2, <2>2, <2>3, WithMovieFields
  <2>5. GoodLog(r) /\ Logged(r, r.movie)
    <3>1. Current(r) = Current(c)
      BY <2>4, SameItems
    <3> QED BY <1>1, <2>4, <3>1, GoodLogMoved DEF Sound, Coherent, Logged
  <2>6. Faithful(r, r.movie) /\ r.movie # <<>>
    BY <1>1, <2>4 DEF Sound, Coherent, Faithful, Cached, SameMachine
  <2>7. Landed(r)
    BY <1>1, <2>4 DEF Landed, SameMachine, Frame
  <2> QED BY <2>4, <2>5, <2>6, <2>7 DEF Coherent
<1>6. CASE ~ (Frame(c) = 0 \/ old = new) /\ ~ (~autoAdjust \/ old = "unknown") /\ old = "lagged"
  <2>1. r = AdjustUp(c)
    BY <1>3, <1>6, Zenon
  <2> QED BY <1>1, <1>6, <2>1, AdjustUpProperties
<1>7. CASE ~ (Frame(c) = 0 \/ old = new) /\ ~ (~autoAdjust \/ old = "unknown") /\ old # "lagged"
  <2>1. r = AdjustDown(c)
    BY <1>3, <1>7, Zenon
  <2>2. old = "not"
    <3>1. Frame(c) - 1 \in Nat
      BY <1>2, <1>7
    <3>2. old \in Lags
      BY <1>2, <3>1, LagLogTypes
    <3> QED BY <1>7, <3>2 DEF Lags
  <2>3. Frame(c) <= Len(c.movie)
    <3>1. Adjustable(e)
      BY <1>7
    <3>2. LagAt(e.lagLog, Frame(e) - 1) = "not"
      BY <1>1, <1>2, <2>2
    <3>3. ~ (Frame(e) > Len(e.movie))
      BY <3>1, <3>2 DEF Adjustable
    <3> QED BY <1>1, <1>2, <3>3
  <2> QED BY <1>1, <1>7, <2>1, <2>3, AdjustDownProperties
<1> QED BY <1>4, <1>5, <1>6, <1>7

-----------------------------------------------------------------------------
(* Bookmarks that change places with those they replaced. *)

\* Everything but the bookmarks, here and in the items of the log, is the same.
SameMovies(a, b) ==
  /\ a.movie = b.movie /\ a.lagLog = b.lagLog /\ SameMachine(a, b)
  /\ a.start = b.start /\ a.cursor = b.cursor /\ a.total = b.total /\ a.past = b.past
  /\ \A p \in Positions : /\ SnapshotAt(a, p).inputs = SnapshotAt(b, p).inputs
                          /\ SnapshotAt(a, p).lagLog = SnapshotAt(b, p).lagLog

LEMMA SwappedProperties ==
  ASSUME NEW e \in Wide, GoodLog(e), NEW pos \in Positions, NEW r, r = Swapped(e, pos)
  PROVE  r \in Wide /\ GoodLog(r) /\ SameMovies(r, e)
<1> DEFINE place == RealPos(e, pos)
           item == SnapshotAt(e, pos)
           snapshots == [e.snapshots EXCEPT ![place].backup = e.bookmarks[item.slot]]
           bookmarks == [e.bookmarks EXCEPT ![item.slot] = item.backup]
<1>1. /\ e.snapshots \in [Positions -> WideSnapshots] /\ e.bookmarks \in [Slots -> Bookmarks]
      /\ e.start \in Positions /\ e.cursor \in Positions /\ e.total \in 1..HistorySize
      /\ e.past \in Seq(Movies) /\ place \in Positions /\ item \in WideSnapshots
      /\ e.cursor < e.total
  BY WideFields, RealPosProperties DEF GoodLog
<1>2. item.slot \in Slots /\ item.backup \in Bookmarks /\ e.snapshots[place] = item
  BY <1>1 DEF WideSnapshots, SnapshotAt
<1>3. CASE item.kind # "bookmark"
  <2>1. r = e
    BY <1>3 DEF Swapped
  <2> QED BY <2>1 DEF SameMovies, SameMachine
<1>4. CASE item.kind = "bookmark"
  <2>1. r = WithLog(e, snapshots, e.start, e.cursor, e.total, bookmarks, e.past)
    BY <1>4 DEF Swapped, WithLog, Wide
  <2>2. e.bookmarks[item.slot] \in Bookmarks
    BY <1>1, <1>2
  <2> HIDE DEF place, item
  <2>3. /\ snapshots \in [Positions -> WideSnapshots]
        /\ \A p \in Positions :
             /\ snapshots[p].inputs = e.snapshots[p].inputs
             /\ snapshots[p].lagLog = e.snapshots[p].lagLog
             /\ snapshots[p].backup = IF p = place THEN e.bookmarks[item.slot]
                                      ELSE e.snapshots[p].backup
    <3> DEFINE new == [e.snapshots[place] EXCEPT !.backup = e.bookmarks[item.slot]]
    <3>1. snapshots = [e.snapshots EXCEPT ![place] = new]
      OBVIOUS
    <3>2. e.snapshots[place] \in WideSnapshots
      BY <1>1
    <3>3. /\ new \in WideSnapshots /\ new.inputs = e.snapshots[place].inputs
          /\ new.lagLog = e.snapshots[place].lagLog /\ new.backup = e.bookmarks[item.slot]
      BY <2>2, <3>2 DEF WideSnapshots
    <3> HIDE DEF new, snapshots
    <3>4. /\ snapshots \in [Positions -> WideSnapshots]
          /\ \A p \in Positions : snapshots[p] = IF p = place THEN new ELSE e.snapshots[p]
      BY <1>1, <3>1, <3>3
    <3> QED BY <3>3, <3>4
  <2>4. bookmarks \in [Slots -> Bookmarks]
    BY <1>1, <1>2
  <2>5. \A s \in Slots : bookmarks[s] = item.backup \/ bookmarks[s] = e.bookmarks[s]
    BY <1>1, <1>2
  <2> HIDE DEF snapshots, bookmarks
  <2>6. /\ r \in Wide /\ r.movie = e.movie /\ r.lagLog = e.lagLog /\ SameMachine(r, e)
        /\ r.snapshots = snapshots /\ r.start = e.start /\ r.cursor = e.cursor
        /\ r.total = e.total /\ r.bookmarks = bookmarks /\ r.past = e.past
    <3>1. snapshots \in [Positions -> WideSnapshots]
      BY <2>3
    <3> QED BY <1>1, <2>1, <2>4, <3>1 DEF Wide, SameMachine, WithLog
  <2>7. ASSUME NEW p \in Positions
        PROVE  /\ SnapshotAt(r, p).inputs = SnapshotAt(e, p).inputs
               /\ SnapshotAt(r, p).lagLog = SnapshotAt(e, p).lagLog
    <3>1. RealPos(r, p) = RealPos(e, p) /\ RealPos(e, p) \in Positions
      BY <2>6, RealPosProperties DEF RealPos
    <3> QED BY <2>3, <2>6, <3>1 DEF SnapshotAt
  <2>8. SameMovies(r, e)
    BY <2>6, <2>7 DEF SameMovies
  <2>9. Undoes(r)
    <3> SUFFICES ASSUME NEW k \in 1..Len(r.past), k <= r.cursor
                 PROVE  Alike(SnapshotAt(r, r.cursor - k).inputs, Back(r.past, k))
      BY DEF Undoes
    <3>1. Alike(SnapshotAt(e, e.cursor - k).inputs, Back(e.past, k))
      BY <2>6 DEF GoodLog, Undoes
    <3>2. r.cursor - k \in Positions
      <4>1. PICK c \in Positions : c = r.cursor
        BY <1>1, <2>6
      <4>2. c \in Nat /\ HistorySize \in Nat /\ c < HistorySize
        BY TasEditorAssumption DEF Positions
      <4>3. k \in Nat /\ k <= c
        BY <4>1
      <4>4. c - k \in Positions
        BY <4>2, <4>3 DEF Positions
      <4> QED BY <4>1, <4>4
    <3> QED BY <2>6, <2>7, <3>1, <3>2
  <2>10. /\ GoodBookmark(item.backup) /\ GoodBookmark(e.bookmarks[item.slot])
         /\ \A s \in Slots : GoodBookmark(e.bookmarks[s])
         /\ \A p \in Positions : GoodItem(e.snapshots[p], e.movie, e.lagLog)
    BY <1>1, <1>2 DEF GoodLog, GoodItem
  <2>11. \A s \in Slots : GoodBookmark(r.bookmarks[s])
    BY <2>5, <2>6, <2>10
  <2>12. ASSUME NEW p \in Positions PROVE GoodItem(r.snapshots[p], r.movie, r.lagLog)
    <3>1. GoodItem(e.snapshots[p], e.movie, e.lagLog)
      BY <2>10
    <3>2. GoodBookmark(r.snapshots[p].backup)
      BY <2>3, <2>6, <2>10, <3>1 DEF GoodItem
    <3> QED BY <2>3, <2>6, <3>1, <3>2 DEF GoodItem
  <2> QED BY <1>1, <2>6, <2>8, <2>9, <2>11, <2>12 DEF GoodLog
<1> QED BY <1>3, <1>4

\* The bookmarks of several items can be swapped one after the other.
Passes(after, e, items, n) ==
  after = [k \in 0..n |-> IF k = 0 THEN e ELSE Swapped(after[k - 1], items[k])]

LEMMA PassesExist ==
  ASSUME NEW e, NEW items, NEW n \in Nat
  PROVE  \E after : Passes(after, e, items, n)
<1> DEFINE T == {k \in Nat : \E after : Passes(after, e, items, k)}
<1>1. 0 \in T
  <2> DEFINE h == [k \in 0..0 |-> e]
  <2>1. h = [k \in 0..0 |-> IF k = 0 THEN e ELSE Swapped(h[k - 1], items[k])]
    OBVIOUS
  <2> QED BY <2>1 DEF Passes
<1>2. ASSUME NEW k \in Nat, k \in T PROVE k + 1 \in T
  <2>1. PICK h : Passes(h, e, items, k)
    BY <1>2
  <2> DEFINE g == [j \in 0..k + 1 |-> IF j <= k THEN h[j] ELSE Swapped(h[k], items[k + 1])]
  <2>2. ASSUME NEW j \in 0..k + 1
        PROVE  g[j] = IF j = 0 THEN e ELSE Swapped(g[j - 1], items[j])
    <3>1. CASE j = 0
      <4>1. g[j] = h[0]
        BY <3>1
      <4>2. h[0] = e
        BY <2>1 DEF Passes
      <4> QED BY <3>1, <4>1, <4>2
    <3>2. CASE j # 0 /\ j <= k
      <4>1. j \in 0..k /\ j - 1 \in 0..k + 1 /\ j - 1 <= k
        BY <3>2
      <4>2. h[j] = Swapped(h[j - 1], items[j])
        BY <2>1, <3>2, <4>1 DEF Passes
      <4>3. g[j] = h[j] /\ g[j - 1] = h[j - 1]
        BY <3>2, <4>1
      <4> HIDE DEF g
      <4> QED BY <3>2, <4>2, <4>3
    <3>3. CASE j = k + 1
      <4>1. j # 0 /\ ~ (j <= k) /\ j - 1 = k /\ k \in 0..k + 1
        BY <3>3
      <4>2. g[j] = Swapped(h[k], items[k + 1]) /\ g[k] = h[k]
        BY <4>1
      <4> HIDE DEF g
      <4> QED BY <3>3, <4>1, <4>2
    <3> QED BY <3>1, <3>2, <3>3
  <2>3. DOMAIN g = 0..k + 1 /\ g = [j \in 0..k + 1 |-> g[j]]
    OBVIOUS
  <2> HIDE DEF g
  <2>4. Passes(g, e, items, k + 1)
    BY <2>2, <2>3 DEF Passes
  <2> QED BY <2>4
<1>3. Nat \subseteq T
  <2> HIDE DEF T
  <2> QED BY <1>1, <1>2, SetInduction
<1> QED BY <1>3

LEMMA SwappedAllProperties ==
  ASSUME NEW e \in Wide, GoodLog(e), NEW items \in Seq(Positions),
         NEW r, r = SwappedAll(e, items)
  PROVE  r \in Wide /\ GoodLog(r) /\ SameMovies(r, e)
<1>0. Len(items) \in Nat
  BY LenProperties
<1>1. PICK after : Passes(after, e, items, Len(items)) /\ r = after[Len(items)]
  <2> DEFINE Body(f) == [n \in 0..Len(items) |-> IF n = 0 THEN e ELSE Swapped(f[n - 1], items[n])]
             after == CHOOSE f : f = Body(f)
  <2>1. \E f : f = Body(f)
    <3>1. PICK h : Passes(h, e, items, Len(items))
      BY <1>0, PassesExist
    <3>2. h = Body(h)
      BY <3>1 DEF Passes
    <3> QED BY <3>2
  <2>2. after = Body(after)
    <3> HIDE DEF Body
    <3> QED BY <2>1
  <2>3. r = after[Len(items)]
    BY DEF SwappedAll
  <2>4. Passes(after, e, items, Len(items))
    <3> HIDE DEF after
    <3> QED BY <2>2 DEF Passes
  <2> QED BY <2>3, <2>4
<1> DEFINE Whole(n) == after[n] \in Wide /\ GoodLog(after[n]) /\ SameMovies(after[n], e)
           T == {n \in Nat : n <= Len(items) => Whole(n)}
<1>2. 0 \in T
  <2>1. after[0] = e
    BY <1>0, <1>1 DEF Passes
  <2> QED BY <2>1 DEF SameMovies, SameMachine
<1>3. ASSUME NEW n \in Nat, n \in T PROVE n + 1 \in T
  <2> SUFFICES ASSUME n + 1 <= Len(items) PROVE Whole(n + 1)
    BY <1>3
  <2>1. n <= Len(items) /\ n + 1 \in 0..Len(items) /\ n + 1 # 0 /\ (n + 1) - 1 = n
        /\ n + 1 \in 1..Len(items)
    BY <1>0
  <2>2. Whole(n)
    BY <1>3, <2>1
  <2>3. after[n + 1] = Swapped(after[n], items[n + 1])
    BY <1>1, <2>1 DEF Passes
  <2>4. items[n + 1] \in Positions
    BY <2>1, ElementOfSeq
  <2>5. /\ after[n + 1] \in Wide /\ GoodLog(after[n + 1])
        /\ SameMovies(after[n + 1], after[n])
    BY <2>2, <2>3, <2>4, SwappedProperties
  <2>6. SameMovies(after[n + 1], e)
    BY <2>2, <2>5 DEF SameMovies, SameMachine
  <2> QED BY <2>5, <2>6
<1>4. Nat \subseteq T
  <2> HIDE DEF T
  <2> QED BY <1>2, <1>3, SetInduction
<1> QED BY <1>0, <1>1, <1>4

-----------------------------------------------------------------------------
(* Going to another item of the log. *)

LEMMA ConcatBack ==
  ASSUME NEW S, NEW a \in Seq(S), NEW b \in Seq(S)
  PROVE  /\ a \o b \in Seq(S) /\ Len(a \o b) = Len(a) + Len(b)
         /\ \A k \in 1..Len(b) : Back(a \o b, k) = Back(b, k)
         /\ \A k \in 1..Len(a) : Back(a \o b, k + Len(b)) = Back(a, k)
<1>0. Len(a) \in Nat /\ Len(b) \in Nat
  BY LenProperties
<1> PICK m \in Nat, n \in Nat : m = Len(a) /\ n = Len(b)
  BY <1>0
<1> DEFINE w == a \o b
<1>1. /\ w \in Seq(S) /\ Len(w) = m + n
      /\ \A j \in 1..m + n : w[j] = IF j <= m THEN a[j] ELSE b[j - m]
  BY ConcatProperties
<1> HIDE DEF w
<1>2. ASSUME NEW k \in 1..n PROVE Back(w, k) = Back(b, k)
  <2> DEFINE j == m + n + 1 - k
  <2>1. j \in 1..m + n /\ ~ (j <= m) /\ j - m = n + 1 - k
    OBVIOUS
  <2> HIDE DEF j
  <2>2. w[j] = b[n + 1 - k]
    BY <1>1, <2>1
  <2>3. Len(w) + 1 - k = j
    BY <1>1 DEF j
  <2> QED BY <2>2, <2>3 DEF Back
<1>3. ASSUME NEW k \in 1..m PROVE Back(w, k + n) = Back(a, k)
  <2> DEFINE j == m + 1 - k
  <2>1. j \in 1..m + n /\ j <= m
    OBVIOUS
  <2>2. Len(w) + 1 - (k + n) = j
    BY <1>1
  <2> HIDE DEF j
  <2>3. w[j] = a[j]
    BY <1>1, <2>1
  <2> QED BY <2>2, <2>3 DEF Back, j
<1> QED BY <1>1, <1>2, <1>3 DEF w

\* Undoing from a position leads back to these movies, and how movies that
\* were undone, or redone, are in the past there was or is then.
LeadsBack(e, pos, past, n) ==
  \A k \in 1..n : k <= pos => Alike(SnapshotAt(e, pos - k).inputs, Back(past, k))
Shifted(past, p, old, n) == \A k \in 1..p : Back(past, k) = Back(old, k + n)
Redone(w, e, movie, c, n) ==
  /\ Len(w) = n
  /\ \A i \in 1..n : w[i] = IF i = 1 THEN movie ELSE SnapshotAt(e, c + i - 1).inputs

LEMMA UndonePast ==
  ASSUME NEW e, NEW c \in Nat, NEW pos \in Nat, NEW n \in Nat, NEW l \in Nat, NEW p \in Nat,
         NEW old, NEW past,
         n + pos = c, p = IF n < l THEN l - n ELSE 0,
         LeadsBack(e, c, old, l), Shifted(past, p, old, n)
  PROVE  LeadsBack(e, pos, past, p)
<1> SUFFICES ASSUME NEW k \in 1..p, k <= pos
             PROVE  Alike(SnapshotAt(e, pos - k).inputs, Back(past, k))
  BY DEF LeadsBack
<1>1. k \in Nat /\ 1 <= k /\ k <= l - n
  OBVIOUS
<1>2. k + n \in 1..l /\ k + n <= c /\ c - (k + n) = pos - k
  BY <1>1
<1>3. Alike(SnapshotAt(e, c - (k + n)).inputs, Back(old, k + n))
  BY <1>2 DEF LeadsBack
<1> QED BY <1>2, <1>3 DEF Shifted

LEMMA RedonePast ==
  ASSUME NEW e, NEW c \in Nat, NEW pos \in Nat, NEW n \in Nat, NEW l \in Nat, NEW p \in Nat,
         NEW old, NEW past, NEW w, NEW movie,
         n + c = pos, p = l + n, LeadsBack(e, c, old, l),
         Alike(SnapshotAt(e, c).inputs, movie), Redone(w, e, movie, c, n),
         Shifted(w, n, past, 0), Shifted(old, l, past, n)
  PROVE  LeadsBack(e, pos, past, p)
<1> SUFFICES ASSUME NEW k \in 1..p, k <= pos
             PROVE  Alike(SnapshotAt(e, pos - k).inputs, Back(past, k))
  BY DEF LeadsBack
<1>0. k \in Nat /\ 1 <= k /\ k <= l + n
  OBVIOUS
<1>1. CASE k <= n
  <2>1. PICK i \in 1..n : i = n + 1 - k
    BY <1>0, <1>1
  <2>2. Back(past, k) = w[i]
    <3>1. k \in 1..n /\ k + 0 = k
      BY <1>0, <1>1
    <3>2. Back(past, k) = Back(w, k)
      BY <3>1 DEF Shifted
    <3>3. Len(w) = n
      BY DEF Redone
    <3> QED BY <2>1, <3>2, <3>3 DEF Back
  <2>3. CASE i = 1
    <3>1. pos - k = c
      BY <1>0, <2>1, <2>3
    <3>2. w[i] = movie
      BY <2>3 DEF Redone
    <3> QED BY <2>2, <3>1, <3>2
  <2>4. CASE i # 1
    <3>1. pos - k = c + i - 1
      BY <1>0, <2>1
    <3>2. w[i] = SnapshotAt(e, c + i - 1).inputs
      BY <2>4 DEF Redone
    <3> QED BY <2>2, <3>1, <3>2 DEF Alike
  <2> QED BY <2>3, <2>4
<1>2. CASE ~ (k <= n)
  <2>1. PICK j \in 1..l : j <= c /\ c - j = pos - k /\ j + n = k
    <3>1. k - n \in 1..l /\ k - n <= c /\ c - (k - n) = pos - k /\ (k - n) + n = k
      BY <1>0, <1>2
    <3> QED BY <3>1
  <2>2. Alike(SnapshotAt(e, c - j).inputs, Back(old, j))
    BY <2>1 DEF LeadsBack
  <2>3. Back(past, k) = Back(old, j)
    BY <2>1 DEF Shifted
  <2> QED BY <2>1, <2>2, <2>3
<1> QED BY <1>1, <1>2

\* HISTORY::jumpInTime: what undoing leads back to from the item jumped to.
LEMMA JumpedPast ==
  ASSUME Sound(ed), ed \in Editors, NEW pos \in Positions, pos # ed.cursor,
         NEW past,
         past = IF pos < ed.cursor THEN Without(ed.past, ed.cursor - pos)
                ELSE ed.past \o [i \in 1..(pos - ed.cursor) |->
                                  IF i = 1 THEN ed.movie
                                  ELSE SnapshotAt(ed, ed.cursor + i - 1).inputs]
  PROVE  /\ past \in Seq(Movies)
         /\ LeadsBack(ed, pos, past, Len(past))
<1>1. /\ ed \in Wide /\ ed.past \in Seq(Movies) /\ ed.cursor \in Positions
      /\ Len(ed.past) \in Nat /\ HistorySize \in Nat /\ pos \in Nat /\ pos < HistorySize
      /\ ed.cursor \in Nat /\ ed.cursor < HistorySize
  BY WideFields, LenProperties, TasEditorAssumption DEF Sound, Coherent, Positions
<1>2. PICK c \in Nat : c = ed.cursor
  BY <1>1
<1>3. \A k \in 1..Len(ed.past) : k <= c =>
        Alike(SnapshotAt(ed, c - k).inputs, Back(ed.past, k))
  BY <1>2 DEF Sound, Coherent, GoodLog, Undoes
<1>a. PICK l \in Nat : l = Len(ed.past)
  BY <1>1
<1>b. LeadsBack(ed, c, ed.past, l)
  BY <1>3, <1>a DEF LeadsBack
<1>c. pos \in Nat
  BY <1>1
<1>4. CASE pos < c
  <2>1. PICK n \in Nat : n = c - pos
    BY <1>1, <1>4
  <2>2. past = Without(ed.past, n)
    BY <1>2, <1>4, <2>1
  <2>3. /\ Without(ed.past, n) \in Seq(Movies)
        /\ Len(Without(ed.past, n)) = IF n < Len(ed.past) THEN Len(ed.past) - n ELSE 0
        /\ \A k \in 1..Len(Without(ed.past, n)) :
             Back(Without(ed.past, n), k) = Back(ed.past, k + n)
    BY <1>1, WithoutProperties
  <2>4. PICK p \in Nat : p = Len(past) /\ p = IF n < l THEN l - n ELSE 0
    <3>1. Len(past) = IF n < l THEN l - n ELSE 0
      BY <1>a, <2>2, <2>3
    <3>2. (IF n < l THEN l - n ELSE 0) \in Nat
      OBVIOUS
    <3> QED BY <3>1, <3>2
  <2>5. Shifted(past, p, ed.past, n)
    BY <2>2, <2>3, <2>4 DEF Shifted
  <2>6. n + pos = c
    BY <1>1, <2>1
  <2>7. LeadsBack(ed, pos, past, p)
    <3>1. p = IF n < l THEN l - n ELSE 0
      BY <2>4
    <3> QED BY <1>b, <1>c, <2>5, <2>6, <3>1, UndonePast
  <2> QED BY <2>2, <2>3, <2>4, <2>7
<1>5. CASE ~ (pos < c)
  <2>1. PICK n \in Nat : n = pos - c /\ n > 0
    BY <1>1, <1>2, <1>5
  <2> DEFINE w == [i \in 1..n |-> IF i = 1 THEN ed.movie ELSE SnapshotAt(ed, c + i - 1).inputs]
  <2>2. past = ed.past \o w
    BY <1>2, <1>5, <2>1
  <2>3. ASSUME NEW i \in 1..n
        PROVE  (IF i = 1 THEN ed.movie ELSE SnapshotAt(ed, c + i - 1).inputs) \in Movies
    <3>1. c + (i - 1) \in 0..HistorySize - 1
      <4>1. c + n < HistorySize
        BY <1>1, <2>1
      <4>2. HistorySize \in Nat
        BY <1>1
      <4> QED BY <4>1, <4>2
    <3>2. c + i - 1 \in Positions
      BY <3>1 DEF Positions
    <3>3. RealPos(ed, c + i - 1) \in Positions
      BY <1>1, <3>2, RealPosProperties
    <3>4. SnapshotAt(ed, c + i - 1) \in Snapshots
      BY <3>3 DEF SnapshotAt, Editors
    <3>5. SnapshotAt(ed, c + i - 1).inputs \in Movies
      BY <3>4 DEF Snapshots
    <3> QED BY <3>5 DEF Sound
  <2>4. w \in Seq(Movies) /\ Len(w) = n /\ \A i \in 1..n :
          w[i] = IF i = 1 THEN ed.movie ELSE SnapshotAt(ed, c + i - 1).inputs
    <3>1. w \in [1..n -> Movies]
      BY <2>3
    <3>2. \A i \in 1..n : w[i] = IF i = 1 THEN ed.movie ELSE SnapshotAt(ed, c + i - 1).inputs
      OBVIOUS
    <3> HIDE DEF w
    <3> QED BY <2>1, <3>1, <3>2
  <2> HIDE DEF w
  <2>5. /\ ed.past \o w \in Seq(Movies) /\ Len(ed.past \o w) = Len(ed.past) + Len(w)
        /\ \A k \in 1..Len(w) : Back(ed.past \o w, k) = Back(w, k)
        /\ \A k \in 1..Len(ed.past) : Back(ed.past \o w, k + Len(w)) = Back(ed.past, k)
    BY <1>1, <2>4, ConcatBack
  <2>6. PICK p \in Nat : p = Len(past) /\ p = l + n
    <3>1. Len(past) = l + n
      BY <1>a, <2>2, <2>4, <2>5
    <3>2. l + n \in Nat
      OBVIOUS
    <3> QED BY <3>1, <3>2
  <2>7. Shifted(w, n, past, 0) /\ Shifted(ed.past, l, past, n)
    <3>1. \A k \in 1..n : k + 0 = k
      BY <2>1
    <3>2. /\ \A k \in 1..n : Back(w, k) = Back(past, k)
          /\ \A k \in 1..l : Back(ed.past, k) = Back(past, k + n)
      BY <1>a, <2>2, <2>4, <2>5
    <3> QED BY <3>1, <3>2 DEF Shifted
  <2>8. n + c = pos
    BY <1>1, <2>1
  <2>9. Alike(SnapshotAt(ed, c).inputs, ed.movie)
    BY <1>2 DEF Sound, Coherent, Logged, Current
  <2>10. LeadsBack(ed, pos, past, p)
    <3>1. Redone(w, ed, ed.movie, c, n)
      BY <2>4 DEF Redone
    <3>2. p = l + n
      BY <2>6
    <3> QED BY <1>b, <1>c, <2>7, <2>8, <2>9, <3>1, <3>2, RedonePast, SMTT(90)
  <2> QED BY <2>2, <2>5, <2>6, <2>10
<1> QED BY <1>2, <1>4, <1>5

LEMMA LagRevertedProperties ==
  ASSUME NEW log \in Seq(Lags), NEW saved \in Seq(Lags), NEW change \in Nat \cup {-1},
         NEW r, r = LagReverted(log, saved, change)
  PROVE  /\ r.first \in Nat \cup {-1} /\ r.lagLog \in Seq(Lags)
         /\ log \in LagLogs /\ saved \in LagLogs => r.lagLog \in LagLogs
<1> DEFINE lagChange == FirstLagChange(log, saved)
<1>1. lagChange \in Nat \cup {-1}
  BY FirstLagChangeProperties
<1>2. CASE lagChange < 0 /\ Len(log) > Len(saved)
  <2>1. r = [first |-> change, lagLog |-> LagInvalidated(log, change)]
    BY <1>2, Zenon DEF LagReverted
  <2>2. change \in Int
    OBVIOUS
  <2>3. LagInvalidated(log, change) \in Seq(Lags) /\ Len(LagInvalidated(log, change)) <= Len(log)
    BY <2>2, LagLogTypes
  <2>4. ASSUME log \in LagLogs PROVE LagInvalidated(log, change) \in LagLogs
    <3>1. Len(log) <= MaxFrames /\ Len(log) \in Nat /\ Len(LagInvalidated(log, change)) \in Nat
      BY <2>3, <2>4, LagLogsBounded, LenProperties
    <3>2. Len(LagInvalidated(log, change)) <= MaxFrames
      BY <2>3, <3>1, TasEditorAssumption
    <3> QED BY <2>3, <3>2, LagLogsBounded
  <2> QED BY <2>1, <2>3, <2>4
<1>3. CASE ~ (lagChange < 0 /\ Len(log) > Len(saved))
  <2>1. r = [first |-> lagChange, lagLog |-> saved]
    BY <1>3, Zenon DEF LagReverted
  <2> HIDE DEF lagChange
  <2> QED BY <1>1, <2>1
<1> QED BY <1>2, <1>3

\* The items passed on the way to another one.
LEMMA PassedItems ==
  ASSUME NEW c \in Positions, NEW pos \in Positions,
         NEW items,
         items = IF pos < c THEN [i \in 1..(c - pos) |-> c + 1 - i]
                 ELSE [i \in 1..(pos - c) |-> c + i]
  PROVE  /\ items \in Seq(Positions)
         /\ Len(items) = IF pos < c THEN c - pos ELSE pos - c
<1>1. HistorySize \in Nat /\ c \in Nat /\ pos \in Nat /\ c < HistorySize /\ pos < HistorySize
  BY TasEditorAssumption DEF Positions
<1>2. CASE pos < c
  <2>1. c - pos \in Nat
    BY <1>1, <1>2
  <2>2. \A i \in 1..(c - pos) : c + 1 - i \in Positions
    BY <1>1, <1>2 DEF Positions
  <2>3. items = [i \in 1..(c - pos) |-> c + 1 - i]
    BY <1>2
  <2>4. items \in [1..(c - pos) -> Positions]
    BY <2>2, <2>3
  <2> QED BY <1>2, <2>1, <2>4
<1>3. CASE ~ (pos < c)
  <2>1. pos - c \in Nat
    BY <1>1, <1>3
  <2>2. \A i \in 1..(pos - c) : c + i \in Positions
    BY <1>1, <1>3 DEF Positions
  <2>3. items = [i \in 1..(pos - c) |-> c + i]
    BY <1>3
  <2>4. items \in [1..(pos - c) -> Positions]
    BY <2>2, <2>3
  <2> QED BY <1>3, <2>1, <2>4
<1> QED BY <1>2, <1>3

\* HISTORY::jumpInTime: the movie is that of the item jumped to.
LEMMA JumpInTimeProperties ==
  ASSUME Sound(ed), ed \in Editors, NEW pos \in 0..ed.total - 1, pos # ed.cursor,
         NEW r, r = JumpInTime(ed, pos)
  PROVE  /\ Parts(r.first, r.ed.movie, ed.movie)
         /\ r.ed \in Wide /\ r.ed.movie # <<>> /\ r.ed.movie \in Movies
         /\ r.ed.lagLog \in LagLogs /\ SameMachine(r.ed, ed)
         /\ GoodLog(r.ed) /\ Logged(r.ed, r.ed.movie)
<1> DEFINE undo == pos < ed.cursor
           items == IF undo THEN [i \in 1..(ed.cursor - pos) |-> ed.cursor + 1 - i]
                    ELSE [i \in 1..(pos - ed.cursor) |-> ed.cursor + i]
           swapped == SwappedAll(ed, items)
           snap == SnapshotAt(ed, pos)
           change == FirstChangeOfMovie(snap.inputs, ed.movie)
           lags == LagReverted(ed.lagLog, snap.lagLog, change)
           movie == IF change >= 0 THEN snap.inputs ELSE ed.movie
           past == IF undo THEN Without(ed.past, Len(items))
                   ELSE ed.past \o [i \in 1..Len(items) |->
                                     IF i = 1 THEN ed.movie
                                     ELSE SnapshotAt(ed, ed.cursor + i - 1).inputs]
<1>1. /\ ed \in Wide /\ GoodLog(ed) /\ ed.movie \in Movies /\ ed.lagLog \in LagLogs
      /\ ed.movie # <<>> /\ Logged(ed, ed.movie)
  BY DEF Sound, Coherent
<1>2. /\ ed.movie \in Seq(Inputs) /\ ed.lagLog \in Seq(Lags) /\ ed.cursor \in Positions
      /\ ed.total \in 1..HistorySize /\ HistorySize \in Nat
  BY <1>1, WideFields, TasEditorAssumption
<1>3. pos \in Positions /\ pos < ed.total
  <2>1. ed.total \in Nat /\ ed.total <= HistorySize
    BY <1>2
  <2>2. pos \in Nat /\ pos <= ed.total - 1
    BY <2>1
  <2>3. pos < ed.total /\ pos <= HistorySize - 1
    BY <1>2, <2>1, <2>2
  <2> QED BY <1>2, <2>2, <2>3 DEF Positions
<1>4. /\ items \in Seq(Positions)
      /\ Len(items) = IF undo THEN ed.cursor - pos ELSE pos - ed.cursor
  BY <1>2, <1>3, PassedItems, Zenon
<1>5. /\ swapped \in Wide /\ GoodLog(swapped) /\ SameMovies(swapped, ed)
  <2> HIDE DEF items
  <2> QED BY <1>1, <1>4, SwappedAllProperties
<1>6. /\ snap \in WideSnapshots /\ GoodItem(snap, ed.movie, ed.lagLog)
      /\ snap.inputs \in Movies /\ snap.lagLog \in LagLogs /\ snap.inputs # <<>>
      /\ snap.inputs \in Seq(Inputs) /\ snap.lagLog \in Seq(Lags)
  <2>1. RealPos(ed, pos) \in Positions /\ snap \in WideSnapshots
    BY <1>1, <1>3, RealPosProperties
  <2>2. GoodItem(snap, ed.movie, ed.lagLog)
    BY <1>1, <2>1 DEF GoodLog, SnapshotAt
  <2>3. snap.inputs \in Movies /\ snap.lagLog \in LagLogs /\ snap.inputs # <<>>
    BY <1>1, <2>2 DEF GoodItem
  <2>4. snap.inputs \in Seq(Inputs) /\ snap.lagLog \in Seq(Lags)
    BY <2>1 DEF WideSnapshots
  <2> QED BY <2>1, <2>2, <2>3, <2>4
<1>7. /\ past \in Seq(Movies) /\ LeadsBack(ed, pos, past, Len(past))
  <2>1. past = IF pos < ed.cursor THEN Without(ed.past, ed.cursor - pos)
               ELSE ed.past \o [i \in 1..(pos - ed.cursor) |->
                                 IF i = 1 THEN ed.movie
                                 ELSE SnapshotAt(ed, ed.cursor + i - 1).inputs]
    <3> HIDE DEF items
    <3>1. CASE undo
      BY <1>4, <3>1
    <3>2. CASE ~undo
      BY <1>4, <3>2
    <3> QED BY <3>1, <3>2
  <2> HIDE DEF past
  <2> QED BY <1>3, <2>1, JumpedPast
<1> HIDE DEF items, swapped, past
<1>8. Parts(change, snap.inputs, ed.movie)
  BY <1>2, <1>6, FirstChangeOfMovieProperties
<1>9. change \in Nat \cup {-1}
  BY <1>8 DEF Parts
<1> HIDE DEF change, snap
<1>10. lags.first \in Nat \cup {-1} /\ lags.lagLog \in Seq(Lags) /\ lags.lagLog \in LagLogs
  BY <1>1, <1>2, <1>6, <1>9, LagRevertedProperties
<1>11. r.first = Earlier(change, lags.first)
  BY DEF JumpInTime, change, snap
<1>12. /\ movie \in Seq(Inputs) /\ movie \in Movies /\ movie # <<>>
       /\ Parts(change, movie, ed.movie) /\ Alike(snap.inputs, movie)
  <2>1. CASE change >= 0
    BY <1>6, <1>8, <2>1 DEF Alike
  <2>2. CASE ~ (change >= 0)
    <3>1. change = -1
      BY <1>9, <2>2
    <3>2. Alike(snap.inputs, ed.movie)
      BY <1>8, <3>1 DEF Parts
    <3>3. Parts(change, ed.movie, ed.movie)
      BY <3>1 DEF Parts, Alike
    <3>4. movie = ed.movie
      BY <2>2
    <3> QED BY <1>1, <1>2, <3>2, <3>3, <3>4
  <2> QED BY <2>1, <2>2
<1> HIDE DEF lags, movie
<1>13. Parts(r.first, movie, ed.movie)
  BY <1>10, <1>11, <1>12, EarlierParts
<1>14. /\ swapped.movie = ed.movie /\ swapped.past = ed.past /\ swapped.lagLog = ed.lagLog
       /\ SameMachine(swapped, ed) /\ swapped.start = ed.start /\ swapped.total = ed.total
       /\ \A p \in Positions : SnapshotAt(swapped, p).inputs = SnapshotAt(ed, p).inputs
  BY <1>5 DEF SameMovies
<1> DEFINE back == WithLog(swapped, swapped.snapshots, swapped.start, pos, swapped.total,
                           swapped.bookmarks, past)
<1>15. r.ed = WithMovie(back, movie, lags.lagLog)
  <2>1. r.ed = [swapped EXCEPT !.cursor = pos, !.movie = movie, !.lagLog = lags.lagLog,
                               !.past = past]
    BY <1>14 DEF JumpInTime, swapped, movie, lags, past, items, change, snap
  <2> QED BY <1>5, <2>1 DEF WithMovie, WithLog, Wide
<1>16. /\ swapped.snapshots \in [Positions -> WideSnapshots] /\ swapped.start \in Positions
       /\ swapped.total \in 1..HistorySize /\ swapped.bookmarks \in [Slots -> Bookmarks]
  BY <1>5, WideFields
<1>17. /\ back \in Wide /\ SameMachine(back, swapped) /\ back.cursor = pos
       /\ back.snapshots = swapped.snapshots /\ back.start = swapped.start
       /\ back.total = swapped.total /\ back.bookmarks = swapped.bookmarks
       /\ back.past = past
  BY <1>3, <1>5, <1>7, <1>16 DEF Wide, SameMachine, WithLog
<1> HIDE DEF back
<1>18. /\ r.ed \in Wide /\ SameLog(r.ed, back) /\ SameMachine(r.ed, back)
       /\ r.ed.movie = movie /\ r.ed.lagLog = lags.lagLog
  BY <1>10, <1>12, <1>15, <1>17, WithMovieFields
<1>19. SameMachine(r.ed, ed)
  BY <1>14, <1>17, <1>18 DEF SameMachine
<1>20. ASSUME NEW p \in Positions PROVE SnapshotAt(r.ed, p).inputs = SnapshotAt(ed, p).inputs
  <2>1. SnapshotAt(r.ed, p) = SnapshotAt(swapped, p)
    BY <1>17, <1>18 DEF SnapshotAt, RealPos, SameLog
  <2> QED BY <1>14, <2>1
<1>21. r.ed.cursor = pos /\ r.ed.past = past /\ r.ed.total = ed.total
  BY <1>14, <1>17, <1>18 DEF SameLog
<1>22. Undoes(r.ed)
  <2> SUFFICES ASSUME NEW k \in 1..Len(past), k <= pos
               PROVE  Alike(SnapshotAt(r.ed, pos - k).inputs, Back(past, k))
    BY <1>21 DEF Undoes
  <2>1. Alike(SnapshotAt(ed, pos - k).inputs, Back(past, k))
    BY <1>7 DEF LeadsBack
  <2>2. pos - k \in Positions
    <3>1. Len(past) \in Nat
      BY <1>7, LenProperties
    <3>2. k \in Nat /\ k <= pos /\ pos \in Nat /\ pos <= HistorySize - 1
      BY <1>2, <1>3, <3>1 DEF Positions
    <3> QED BY <1>2, <3>2 DEF Positions
  <2> QED BY <1>20, <2>1, <2>2
<1>23. \A s \in Slots : GoodBookmark(r.ed.bookmarks[s])
  BY <1>5, <1>17, <1>18 DEF SameLog, GoodLog
<1>24. ASSUME NEW p \in Positions
       PROVE  GoodItem(r.ed.snapshots[p], r.ed.movie, r.ed.lagLog)
  <2>1. r.ed.snapshots[p] = swapped.snapshots[p]
    BY <1>17, <1>18 DEF SameLog
  <2>2. GoodItem(swapped.snapshots[p], ed.movie, ed.lagLog)
    BY <1>5, <1>14 DEF GoodLog
  <2> QED BY <1>1, <2>1, <2>2 DEF GoodItem
<1>25. Logged(r.ed, movie)
  <2>1. Current(r.ed).inputs = snap.inputs
    BY <1>3, <1>20, <1>21 DEF Current, snap
  <2> QED BY <1>12, <2>1 DEF Logged
<1>26. GoodLog(r.ed)
  BY <1>3, <1>21, <1>22, <1>23, <1>24 DEF GoodLog
<1> QED BY <1>10, <1>12, <1>13, <1>18, <1>19, <1>25, <1>26

-----------------------------------------------------------------------------
(* Deploying a bookmark. *)

LEMMA GoodLogKept ==
  ASSUME NEW a, NEW b, GoodLog(a), a.lagLog \in LagLogs, SameLog(b, a), b.movie = a.movie
  PROVE  GoodLog(b)
<1>1. Undoes(b)
  BY SameItems DEF GoodLog
<1>2. /\ b.cursor = a.cursor /\ b.total = a.total /\ b.bookmarks = a.bookmarks
      /\ b.snapshots = a.snapshots
  BY DEF SameLog
<1>3. \A p \in Positions : GoodItem(b.snapshots[p], b.movie, b.lagLog)
  BY <1>2 DEF GoodLog, GoodItem
<1> QED BY <1>1, <1>2, <1>3 DEF GoodLog

\* HISTORY::registerBranching logs the movie of the bookmark.
LEMMA RegisterBranchingProperties ==
  ASSUME ed \in Editors, Sound(ed), NEW slot \in Slots, NEW e \in Wide, e.movie # <<>>,
         e.lagLog = ed.lagLog, SameLog(e, ed), NEW r, r = RegisterBranching(e, slot)
  PROVE  /\ Parts(r.first, e.movie, ed.movie)
         /\ r.ed \in Wide /\ r.ed.movie = e.movie /\ r.ed.lagLog \in LagLogs
         /\ SameMachine(r.ed, e) /\ GoodLog(r.ed) /\ Logged(r.ed, e.movie)
<1> DEFINE theirs == Current(e).inputs
           change == FirstChange(e.movie, theirs, 0, -1)
           saved == e.bookmarks[slot].lagLog
           lags == LagReverted(e.lagLog, saved, change)
           item == Snapshot(e, "edit", 0)
           added == IF change >= 0 THEN AddItem(e, item) ELSE e
<1>1. /\ ed \in Wide /\ GoodLog(ed) /\ ed.movie \in Movies /\ ed.lagLog \in LagLogs
      /\ Logged(ed, ed.movie)
  BY DEF Sound, Coherent
<1>2. /\ e.movie \in Seq(Inputs) /\ theirs \in Seq(Inputs) /\ e.lagLog \in Seq(Lags)
      /\ saved \in LagLogs /\ saved \in Seq(Lags)
  <2>1. saved \in LagLogs
    BY WideFields DEF Bookmarks
  <2> QED BY <2>1, WideFields, CurrentProperties, LagLogsBounded
<1>3. GoodLog(e) /\ Logged(e, ed.movie)
  BY <1>1, GoodLogMoved, SameItems DEF Logged
<1>4. Parts(change, e.movie, theirs)
  <2> HIDE DEF theirs
  <2>1. AgreeBefore(e.movie, theirs, 0)
    BY DEF AgreeBefore
  <2>2. 0 \in Nat /\ -1 \in Nat \cup {-1} /\ -1 = -1
    OBVIOUS
  <2> QED BY <1>2, <2>1, <2>2, FirstChangeProperties
<1>5. change \in Nat \cup {-1} /\ Alike(theirs, ed.movie)
  BY <1>3, <1>4 DEF Parts, Logged
<1> HIDE DEF theirs, change, saved
<1>6. lags.first \in Nat \cup {-1} /\ lags.lagLog \in Seq(Lags) /\ lags.lagLog \in LagLogs
  BY <1>1, <1>2, <1>5, LagRevertedProperties
<1>7. r.first = Earlier(change, lags.first) /\ r.ed = [added EXCEPT !.lagLog = lags.lagLog]
  BY DEF RegisterBranching, change, theirs, saved
<1> HIDE DEF lags
<1>8. Parts(r.first, e.movie, ed.movie)
  <2>1. Parts(r.first, e.movie, theirs)
    BY <1>4, <1>6, <1>7, EarlierParts
  <2> QED BY <1>5, <2>1, PartsAlike
<1>9. item \in WideSnapshots /\ item.inputs = e.movie /\ GoodItem(item, e.movie, e.lagLog)
  <2>1. 0 \in Frames /\ "edit" \in {"init", "edit", "set", "record", "bookmark"}
    BY TasEditorAssumption DEF Frames
  <2> QED BY <2>1, SnapshotProperties
<1> HIDE DEF item
<1>10. /\ added \in Wide /\ added.movie = e.movie /\ added.lagLog = e.lagLog
       /\ SameMachine(added, e) /\ GoodLog(added) /\ Logged(added, e.movie)
  <2>1. CASE change >= 0
    <3>1. added = AddItem(e, item)
      BY <2>1
    <3> HIDE DEF added
    <3>2. /\ added \in Wide /\ added.movie = e.movie /\ added.lagLog = e.lagLog
          /\ SameMachine(added, e) /\ GoodLog(added) /\ Current(added) = item
      BY <1>3, <1>9, <3>1, AddItemProperties
    <3> QED BY <1>9, <3>2 DEF Logged, Alike
  <2>2. CASE ~ (change >= 0)
    <3>1. added = e
      BY <2>2
    <3>2. change < 0
      BY <1>5, <2>2
    <3>3. Logged(e, e.movie)
      BY <1>4, <3>2 DEF Parts, Logged, Alike, theirs
    <3> QED BY <1>3, <3>1, <3>3 DEF SameMachine
  <2> QED BY <2>1, <2>2
<1> HIDE DEF added
<1>11. r.ed = WithMovie(added, added.movie, lags.lagLog)
  BY <1>7, <1>10 DEF WithMovie, Wide
<1>12. /\ r.ed \in Wide /\ SameLog(r.ed, added) /\ SameMachine(r.ed, added)
       /\ r.ed.movie = added.movie /\ r.ed.lagLog = lags.lagLog
  <2>1. added.movie \in Seq(Inputs)
    BY <1>2, <1>10
  <2> QED BY <1>6, <1>10, <1>11, <2>1, WithMovieFields
<1>13. GoodLog(r.ed) /\ Logged(r.ed, e.movie)
  BY <1>1, <1>10, <1>12, GoodLogKept, SameItems DEF Logged
<1>14. SameMachine(r.ed, e)
  BY <1>10, <1>12 DEF SameMachine
<1> QED BY <1>6, <1>8, <1>10, <1>12, <1>13, <1>14

\* GREENZONE::writeSavestateForFrame
LEMMA WrittenProperties ==
  ASSUME NEW e \in Wide, Cached(e, e.movie), NEW f \in Frames,
         NEW savestate \in Movies \cup {NoState},
         savestate # NoState => savestate = Played(e.movie, f),
         NEW r, r = Written(e, f, savestate)
  PROVE  /\ r \in Wide /\ SameLog(r, e) /\ r.movie = e.movie /\ r.lagLog = e.lagLog
         /\ r.machine = e.machine /\ Cached(r, e.movie)
         /\ savestate # NoState => r.savestates[f] # NoState
<1>1. /\ e.savestates \in [Frames -> Movies \cup {NoState}] /\ e.greenzoneSize \in 0..MaxFrames + 1
      /\ e.greenzoneSize \in Nat /\ f \in Nat /\ f <= MaxFrames /\ MaxFrames \in Nat
  BY WideFields, TasEditorAssumption DEF Frames
<1>2. CASE ~Empty(e, f)
  <2>1. r = e
    BY <1>2, Zenon DEF Written
  <2>2. r.savestates[f] # NoState
    BY <1>2, <2>1 DEF Empty
  <2> QED BY <2>1, <2>2 DEF SameLog
<1>3. CASE Empty(e, f)
  <2> DEFINE s == [e.savestates EXCEPT ![f] = savestate]
             g == IF e.greenzoneSize <= f THEN f + 1 ELSE e.greenzoneSize
  <2>1. r = [e EXCEPT !.savestates[f] = savestate,
                      !.greenzoneSize = IF @ <= f THEN f + 1 ELSE @]
    BY <1>3, Zenon DEF Written
  <2>2. r = WithGreenzone(e, s, g)
    BY <2>1 DEF WithGreenzone
  <2>3. s \in [Frames -> Movies \cup {NoState}] /\ g \in 0..MaxFrames + 1
    BY <1>1
  <2>4. f < g /\ e.greenzoneSize <= g
    BY <1>1
  <2>5. s[f] = savestate /\ \A h \in Frames : h # f => s[h] = e.savestates[h]
    BY <1>1
  <2> HIDE DEF s, g
  <2>6. /\ r \in Wide /\ SameLog(r, e) /\ r.movie = e.movie /\ r.lagLog = e.lagLog
        /\ r.machine = e.machine /\ r.savestates = s /\ r.greenzoneSize = g
    BY <2>2, <2>3, WithGreenzoneFields
  <2>7. ASSUME NEW h \in Frames, r.savestates[h] # NoState
        PROVE  h < r.greenzoneSize /\ r.savestates[h] = Played(e.movie, h)
    <3>1. CASE h = f
      BY <2>4, <2>5, <2>6, <2>7, <3>1
    <3>2. CASE h # f
      <4>1. h < e.greenzoneSize /\ r.savestates[h] = Played(e.movie, h)
        BY <2>5, <2>6, <2>7, <3>2 DEF Cached
      <4>2. h \in Nat /\ g \in Nat
        BY <2>3, TasEditorAssumption DEF Frames
      <4> QED BY <1>1, <2>4, <2>6, <4>1, <4>2
    <3> QED BY <3>1, <3>2
  <2> QED BY <2>5, <2>6, <2>7 DEF Cached
<1> QED BY <1>2, <1>3

\* BOOKMARKS::deploy, from the movie that comes back to the end.
Branched(slot, entireMovie) ==
  LET b == ed.bookmarks[slot]
  IN IF entireMovie THEN b.inputs ELSE Append(Kept(b.inputs, b.keyFrame), Blank)
Deployed(slot, movie) ==
  LET b == ed.bookmarks[slot]
      r == RegisterBranching([ed EXCEPT !.movie = movie], slot)
  IN Reloaded(Written(Invalidate(r.ed, r.first), b.keyFrame, b.savestate), b.keyFrame)

LEMMA BranchedProperties ==
  ASSUME ed \in Editors, Sound(ed), NEW slot \in Slots, NEW entireMovie \in BOOLEAN,
         ed.bookmarks[slot].notEmpty, NEW movie, movie = Branched(slot, entireMovie)
  PROVE  /\ movie \in Seq(Inputs) /\ movie # <<>>
         /\ AgreeBefore(movie, ed.bookmarks[slot].inputs, ed.bookmarks[slot].keyFrame)
         /\ entireMovie => movie = ed.bookmarks[slot].inputs
<1> PICK b : b = ed.bookmarks[slot]
  OBVIOUS
<1>1. b \in Bookmarks /\ b.inputs # <<>>
  BY WideFields DEF Sound, Coherent, GoodLog, GoodBookmark
<1>2. b.inputs \in Seq(Inputs) /\ b.keyFrame \in Nat
  BY <1>1, MoviesBounded, TasEditorAssumption DEF Bookmarks, Frames
<1>3. CASE entireMovie
  <2>1. movie = b.inputs
    BY <1>3 DEF Branched
  <2>2. AgreeBefore(movie, b.inputs, b.keyFrame)
    BY <2>1 DEF AgreeBefore
  <2> QED BY <1>1, <1>2, <2>1, <2>2
<1>4. CASE ~entireMovie
  <2>1. movie = Append(Kept(b.inputs, b.keyFrame), Blank)
    BY <1>4 DEF Branched
  <2> QED BY <1>2, <1>4, <2>1, MovieKept
<1> QED BY <1>3, <1>4

\* The machine is where it was when the bookmark was set.
LEMMA DeployedProperties ==
  ASSUME ed \in Editors, Sound(ed), NEW slot \in Slots, ed.bookmarks[slot].notEmpty,
         NEW movie \in Seq(Inputs), movie # <<>>,
         AgreeBefore(movie, ed.bookmarks[slot].inputs, ed.bookmarks[slot].keyFrame),
         NEW r, r = Deployed(slot, movie)
  PROVE  /\ Coherent(r) /\ Landed(r) /\ r.movie = movie
         /\ r.machine = Played(ed.bookmarks[slot].inputs, ed.bookmarks[slot].keyFrame)
<1>1. /\ ed \in Wide /\ GoodLog(ed) /\ ed.lagLog \in Seq(Lags) /\ Faithful(ed, ed.movie)
  BY WideFields DEF Sound, Coherent
<1>2. PICK b \in Bookmarks : b = ed.bookmarks[slot] /\ IsFaithful(b)
  BY <1>1, WideFields DEF GoodLog, GoodBookmark
<1>3. PICK f \in Frames : f = b.keyFrame
  BY DEF Bookmarks
<1>4. f \in Nat
  BY TasEditorAssumption DEF Frames
<1>5. Played(movie, f) = Played(b.inputs, f)
  BY <1>2, <1>3, <1>4, PlayedAgree
<1>6. b.savestate \in Movies \cup {NoState}
  BY DEF Bookmarks
<1>7. /\ b.savestate # NoState => b.savestate = Played(movie, f)
      /\ b.savestate = NoState => f = 0
  BY <1>2, <1>3, <1>5 DEF IsFaithful
<1> DEFINE branch == [ed EXCEPT !.movie = movie]
           registered == RegisterBranching(branch, slot)
           invalid == Invalidate(registered.ed, registered.first)
           written == Written(invalid, f, b.savestate)
<1>8. r = Reloaded(written, f)
  BY <1>2, <1>3 DEF Deployed
<1>9. branch = WithMovie(ed, movie, ed.lagLog)
  BY <1>1 DEF WithMovie, Wide
<1> HIDE DEF branch
<1>10. /\ branch \in Wide /\ SameLog(branch, ed) /\ SameMachine(branch, ed)
       /\ branch.movie = movie /\ branch.lagLog = ed.lagLog
  BY <1>1, <1>9, WithMovieFields
<1>11. /\ Parts(registered.first, movie, ed.movie)
       /\ registered.ed \in Wide /\ registered.ed.movie = movie
       /\ registered.ed.lagLog \in LagLogs
       /\ SameMachine(registered.ed, branch) /\ GoodLog(registered.ed)
       /\ Logged(registered.ed, movie)
  BY <1>10, RegisterBranchingProperties
<1> HIDE DEF registered
<1>12. Cached(registered.ed, ed.movie)
  BY <1>1, <1>10, <1>11 DEF SameMachine, Faithful, Cached
<1>13. /\ invalid \in Wide /\ SameLog(invalid, registered.ed) /\ invalid.movie = movie
       /\ invalid.lagLog = registered.ed.lagLog /\ Cached(invalid, movie)
  BY <1>11, <1>12, InvalidateProperties
<1> HIDE DEF invalid
<1>14. /\ written \in Wide /\ SameLog(written, invalid) /\ written.movie = movie
       /\ written.lagLog = invalid.lagLog /\ Cached(written, movie)
       /\ b.savestate # NoState => written.savestates[f] # NoState
  BY <1>6, <1>7, <1>13, WrittenProperties
<1> HIDE DEF written
<1>15. /\ r \in Wide /\ SameLog(r, written) /\ r.movie = movie
       /\ r.lagLog = written.lagLog
       /\ r.savestates = written.savestates /\ r.greenzoneSize = written.greenzoneSize
       /\ r.machine = Played(r.movie, Len(r.machine))
       /\ r.savestates[Frame(r)] # NoState \/ Frame(r) = 0
       /\ Frame(r) <= f
       /\ f \in Frames /\ written.savestates[f] # NoState => Frame(r) = f
  BY <1>4, <1>8, <1>14, ReloadedProperties
<1>16. Frame(r) = f
  <2>1. CASE b.savestate # NoState
    BY <1>14, <1>15, <2>1
  <2>2. CASE b.savestate = NoState
    <3>1. f = 0 /\ Frame(r) \in Nat
      BY <1>7, <1>15, <2>2, WideFields
    <3> QED BY <1>15, <3>1
  <2> QED BY <2>1, <2>2
<1>17. r.machine = Played(b.inputs, f)
  BY <1>5, <1>15, <1>16 DEF Frame
<1>18. SameLog(r, registered.ed) /\ r.lagLog = registered.ed.lagLog
  BY <1>13, <1>14, <1>15 DEF SameLog
<1>19. GoodLog(r) /\ Logged(r, r.movie)
  <2>1. Current(r) = Current(registered.ed)
    BY <1>18, SameItems
  <2> QED BY <1>11, <1>15, <1>18, <2>1, GoodLogKept DEF Logged
<1>20. Cached(r, r.movie)
  BY <1>14, <1>15 DEF Cached
<1>21. Coherent(r)
  BY <1>15, <1>19, <1>20 DEF Coherent, Faithful
<1>22. Landed(r)
  BY <1>15 DEF Landed
<1> QED BY <1>2, <1>3, <1>15, <1>17, <1>21, <1>22

-----------------------------------------------------------------------------
(* The actions. *)

\* What holds between two actions: no state is of another movie, the log is
\* of this one, and after an update the machine is where it can be taken back.
Right == ed \in Editors /\ Sound(ed) /\ (updated => Landed(ed))

\* An action leaves what is right, within the bounds.
LEMMA BecomesRight ==
  ASSUME NEW e, Coherent(e), Becomes(e)
  PROVE  ed' = e /\ ed' \in Editors /\ Sound(ed')
<1>1. ed' = e /\ Len(e.movie) <= MaxFrames /\ Len(e.lagLog) <= MaxFrames
  BY DEF Becomes
<1>2. e \in Wide /\ GoodLog(e)
  BY DEF Coherent
<1>3. e.movie \in Movies /\ e.lagLog \in LagLogs
  BY <1>1, <1>2, WideFields, MoviesBounded, LagLogsBounded
<1>4. ASSUME NEW p \in Positions PROVE e.snapshots[p] \in Snapshots
  <2>1. e.snapshots[p] \in WideSnapshots
    BY <1>2, WideFields
  <2>2. e.snapshots[p].inputs \in Movies /\ e.snapshots[p].lagLog \in LagLogs
    BY <1>2, <1>3 DEF GoodLog, GoodItem
  <2> QED BY <2>1, <2>2 DEF WideSnapshots, Snapshots
<1>5. e.snapshots \in [Positions -> Snapshots]
  <2>1. e.snapshots \in [Positions -> WideSnapshots]
    BY <1>2, WideFields
  <2> QED BY <1>4, <2>1
<1>6. e \in Editors
  BY <1>2, <1>3, <1>5 DEF Wide, Editors
<1> QED BY <1>1, <1>3, <1>6 DEF Sound

\* GREENZONE::invalidateAndUpdatePlayback after a change that is logged.
LEMMA Followed ==
  ASSUME NEW e \in Wide, e.movie # <<>>, GoodLog(e), Logged(e, e.movie), NEW old, NEW after,
         Faithful(e, old), Parts(after, e.movie, old),
         NEW r, r = InvalidateAndUpdatePlayback(e, after)
  PROVE  Coherent(r) /\ SameLog(r, e) /\ r.movie = e.movie /\ r.lagLog = e.lagLog
<1>1. /\ r \in Wide /\ SameLog(r, e) /\ r.movie = e.movie /\ r.lagLog = e.lagLog
      /\ Faithful(r, e.movie)
  BY InvalidateAndUpdatePlaybackProperties
<1>2. GoodLog(r) /\ Current(r) = Current(e)
  BY <1>1, SameItems
<1> QED BY <1>1, <1>2 DEF Coherent, Logged

\* The movie and the LagLog are edited, and nothing else yet.
LEMMA EditedProperties ==
  ASSUME ed \in Editors, Sound(ed), NEW movie \in Seq(Inputs), movie # <<>>,
         NEW lagLog \in Seq(Lags), NEW e, e = WithMovie(ed, movie, lagLog)
  PROVE  /\ e \in Wide /\ GoodLog(e) /\ Logged(e, ed.movie) /\ Faithful(e, ed.movie)
         /\ e.movie = movie /\ e.lagLog = lagLog /\ SameMachine(e, ed)
<1>1. /\ ed \in Wide /\ GoodLog(ed) /\ Logged(ed, ed.movie) /\ Faithful(ed, ed.movie)
      /\ ed.movie \in Movies /\ ed.lagLog \in LagLogs
  BY DEF Sound, Coherent
<1>2. /\ e \in Wide /\ SameLog(e, ed) /\ SameMachine(e, ed)
      /\ e.movie = movie /\ e.lagLog = lagLog
  BY <1>1, WithMovieFields
<1>3. GoodLog(e) /\ Current(e) = Current(ed)
  BY <1>1, <1>2, GoodLogMoved, SameItems
<1>4. Faithful(e, ed.movie)
  BY <1>1, <1>2 DEF Faithful, Cached, SameMachine
<1> QED BY <1>1, <1>2, <1>3, <1>4 DEF Logged

\* An edit that is logged.
LEMMA RegisteredEdit ==
  ASSUME ed \in Editors, Sound(ed), NEW e \in Wide, e.movie # <<>>, GoodLog(e),
         Logged(e, ed.movie), Faithful(e, ed.movie),
         NEW kind \in {"edit", "set"}, NEW start \in Nat, NEW end \in Nat \cup {-1},
         NEW continued \in BOOLEAN,
         AgreeBefore(e.movie, ed.movie, start),
         end = -1 \/ \A f \in Nat : f > end => At(e.movie, f) = At(ed.movie, f),
         NEW r, r = RegisterChanges(e, kind, start, end, continued)
  PROVE  /\ Parts(r.first, e.movie, ed.movie)
         /\ r.ed \in Wide /\ r.ed.movie = e.movie /\ GoodLog(r.ed)
         /\ Logged(r.ed, r.ed.movie) /\ Faithful(r.ed, ed.movie)
<1>1. /\ Parts(r.first, e.movie, ed.movie)
      /\ r.ed \in Wide /\ r.ed.movie = e.movie /\ r.ed.lagLog = e.lagLog
      /\ SameMachine(r.ed, e) /\ GoodLog(r.ed) /\ Logged(r.ed, e.movie)
  BY RegisterChangesProperties
<1>2. Faithful(r.ed, ed.movie)
  BY <1>1 DEF Faithful, Cached, SameMachine
<1> QED BY <1>1, <1>2

\* The same of an edit that moves frames.
Registered(e, start) == RegisterChanges(e, "edit", start, -1, FALSE)

LEMMA RegisteredProperties ==
  ASSUME ed \in Editors, Sound(ed), NEW e \in Wide, e.movie # <<>>, GoodLog(e),
         Logged(e, ed.movie), Faithful(e, ed.movie), NEW start \in Nat,
         AgreeBefore(e.movie, ed.movie, start), NEW r, r = Registered(e, start)
  PROVE  /\ Parts(r.first, e.movie, ed.movie)
         /\ r.ed \in Wide /\ r.ed.movie = e.movie /\ GoodLog(r.ed)
         /\ Logged(r.ed, r.ed.movie) /\ Faithful(r.ed, ed.movie)
<1>1. "edit" \in {"edit", "set"} /\ -1 \in Nat \cup {-1}
  OBVIOUS
<1>2. FALSE \in BOOLEAN
  OBVIOUS
<1> DEFINE Holds(x) ==
             /\ Parts(x.first, e.movie, ed.movie)
             /\ x.ed \in Wide /\ x.ed.movie = e.movie /\ GoodLog(x.ed)
             /\ Logged(x.ed, x.ed.movie) /\ Faithful(x.ed, ed.movie)
<1>3. -1 = -1 \/ \A f \in Nat : f > -1 => At(e.movie, f) = At(ed.movie, f)
  OBVIOUS
<1>4. r = RegisterChanges(e, "edit", start, -1, FALSE)
  BY DEF Registered
<1>5. \A continued \in BOOLEAN : Holds(RegisterChanges(e, "edit", start, -1, continued))
  BY <1>1, <1>3, RegisteredEdit
<1> HIDE DEF Holds
<1>6. Holds(RegisterChanges(e, "edit", start, -1, FALSE))
  BY <1>2, <1>5, Zenon
<1>7. Holds(r)
  BY <1>4, <1>6, Zenon
<1> QED BY <1>7 DEF Holds

\* A frame of the machine is left as it is by what an edit does to the movie.
LEMMA EditBecomesRight ==
  ASSUME NEW e, Coherent(e), Edit(e)
  PROVE  Right'
<1>1. ed' \in Editors /\ Sound(ed') /\ updated' = FALSE
  BY BecomesRight DEF Edit
<1> QED BY <1>1 DEF Right

LEMMA CommandBecomesRight ==
  ASSUME NEW e, Coherent(e), Command(e)
  PROVE  Right'
<1>1. ed' \in Editors /\ Sound(ed') /\ updated' = FALSE
  BY BecomesRight DEF Command
<1> QED BY <1>1 DEF Right

LEMMA SetInputRight ==
  ASSUME Right, NEW f \in Frames, NEW input \in Inputs, NEW continued \in BOOLEAN,
         SetInput(f, input, continued)
  PROVE  Right'
<1> DEFINE movie == [ed.movie EXCEPT ![f + 1] = input]
           e == [ed EXCEPT !.movie[f + 1] = input]
           r == RegisterChanges(e, "set", f, f, continued)
<1>1. f < Len(ed.movie) /\ Edit(InvalidateAndUpdatePlayback(r.ed, r.first))
  BY DEF SetInput
<1>2. /\ ed \in Editors /\ Sound(ed) /\ ed \in Wide /\ f \in Nat
      /\ ed.movie \in Seq(Inputs) /\ Len(ed.movie) \in Nat /\ ed.lagLog \in Seq(Lags)
  BY WideFields, TasEditorAssumption DEF Right, Sound, Coherent, Frames
<1>3. /\ movie \in Seq(Inputs) /\ Len(movie) = Len(ed.movie)
      /\ \A g \in Nat : At(movie, g) = IF g = f THEN input ELSE At(ed.movie, g)
  <2>1. f < Len(ed.movie)
    BY <1>1
  <2> QED BY <1>2, <2>1, MovieChanged
<1>4. e = WithMovie(ed, movie, ed.lagLog)
  BY <1>2 DEF WithMovie, Wide
<1> HIDE DEF movie, e
<1>5. movie # <<>>
  BY <1>1, <1>2, <1>3
<1>6. /\ e \in Wide /\ GoodLog(e) /\ Logged(e, ed.movie) /\ Faithful(e, ed.movie)
      /\ e.movie = movie
  BY <1>2, <1>3, <1>4, <1>5, EditedProperties
<1>7. AgreeBefore(e.movie, ed.movie, f)
  BY <1>2, <1>3, <1>6 DEF AgreeBefore
<1>8. f = -1 \/ \A g \in Nat : g > f => At(e.movie, g) = At(ed.movie, g)
  BY <1>2, <1>3, <1>6
<1>9. "set" \in {"edit", "set"} /\ f \in Nat \cup {-1}
  BY <1>2
<1>10. /\ Parts(r.first, e.movie, ed.movie)
       /\ r.ed \in Wide /\ r.ed.movie = e.movie /\ GoodLog(r.ed)
       /\ Logged(r.ed, r.ed.movie) /\ Faithful(r.ed, ed.movie)
  BY <1>2, <1>5, <1>6, <1>7, <1>8, <1>9, RegisteredEdit
<1> HIDE DEF r
<1>11. Coherent(InvalidateAndUpdatePlayback(r.ed, r.first))
  BY <1>5, <1>6, <1>10, Followed
<1> QED BY <1>1, <1>11, EditBecomesRight

LEMMA InsertFrameRight ==
  ASSUME Right, NEW f \in Frames, NEW input \in Inputs, InsertFrame(f, input)
  PROVE  Right'
<1> DEFINE movie == InsertAt(ed.movie, f + 1, input)
           lagLog == LagInserted(ed.lagLog, f, "not")
           e == [ed EXCEPT !.movie = movie, !.lagLog = lagLog]
           r == Registered(e, f)
<1>1. f < Len(ed.movie) /\ Edit(InvalidateAndUpdatePlayback(r.ed, r.first))
  BY DEF InsertFrame, Registered
<1>2. /\ ed \in Editors /\ Sound(ed) /\ ed \in Wide /\ f \in Nat
      /\ ed.movie \in Seq(Inputs) /\ Len(ed.movie) \in Nat /\ ed.lagLog \in Seq(Lags)
  BY WideFields, TasEditorAssumption DEF Right, Sound, Coherent, Frames
<1>3. /\ movie \in Seq(Inputs) /\ Len(movie) = Len(ed.movie) + 1
      /\ AgreeBefore(movie, ed.movie, f)
  BY <1>1, <1>2, MovieInserted
<1>4. lagLog \in Seq(Lags)
  BY <1>2, LagLogTypes DEF Lags
<1>5. e = WithMovie(ed, movie, lagLog)
  BY DEF WithMovie
<1> HIDE DEF movie, lagLog, e
<1>6. movie # <<>>
  BY <1>2, <1>3
<1>7. /\ e \in Wide /\ GoodLog(e) /\ Logged(e, ed.movie) /\ Faithful(e, ed.movie)
      /\ e.movie = movie
  BY <1>2, <1>3, <1>4, <1>5, <1>6, EditedProperties
<1>8. /\ Parts(r.first, e.movie, ed.movie)
      /\ r.ed \in Wide /\ r.ed.movie = e.movie /\ GoodLog(r.ed)
      /\ Logged(r.ed, r.ed.movie) /\ Faithful(r.ed, ed.movie)
  BY <1>2, <1>3, <1>6, <1>7, RegisteredProperties
<1> HIDE DEF r
<1>9. Coherent(InvalidateAndUpdatePlayback(r.ed, r.first))
  BY <1>6, <1>7, <1>8, Followed
<1> QED BY <1>1, <1>9, EditBecomesRight

LEMMA DeleteFrameRight ==
  ASSUME Right, NEW f \in Frames, DeleteFrame(f)
  PROVE  Right'
<1> DEFINE erased == Erased(ed.movie, f, 1)
           movie == IF erased = <<>> THEN <<Blank>> ELSE erased
           machine == IF erased = <<>> THEN <<>> ELSE ed.machine
           lagLog == Erased(ed.lagLog, f, 1)
           edited == WithMovie(ed, movie, lagLog)
           e == WithMachine(edited, machine)
           r == Registered(e, f)
           after == IF r.first >= 0 THEN r.first ELSE Len(movie) - 1
<1>1. f < Len(ed.movie)
  BY DEF DeleteFrame
<1>2. /\ ed \in Editors /\ Sound(ed) /\ ed \in Wide /\ f \in Nat
      /\ ed.movie \in Seq(Inputs) /\ Len(ed.movie) \in Nat /\ ed.lagLog \in Seq(Lags)
      /\ ed.machine \in Movies /\ <<>> \in Movies
  <2>1. <<>> \in Seq(Inputs) /\ Len(<<>>) <= MaxFrames
    BY TasEditorAssumption
  <2>2. <<>> \in Movies
    BY <2>1, MoviesBounded
  <2> QED BY <2>2, WideFields, TasEditorAssumption DEF Right, Sound, Coherent, Frames
<1>3. Edit(InvalidateAndUpdatePlayback(r.ed, after))
  <2>1. [ed EXCEPT !.movie = movie, !.machine = machine, !.lagLog = lagLog] = e
    BY <1>2 DEF WithMovie, WithMachine, Wide
  <2>2. e.movie = movie
    BY <1>2 DEF WithMovie, WithMachine, Wide
  <2>3. DeleteFrame(f) =>
          LET deleted == [ed EXCEPT !.movie = movie, !.machine = machine, !.lagLog = lagLog]
              x == Registered(deleted, f)
          IN Edit(InvalidateAndUpdatePlayback(x.ed,
                    IF x.first >= 0 THEN x.first ELSE Len(deleted.movie) - 1))
    BY DEF DeleteFrame, Registered
  <2> HIDE DEF movie, machine, lagLog, e
  <2> QED BY <2>1, <2>2, <2>3
<1>4. erased \in Seq(Inputs) /\ AgreeBefore(erased, ed.movie, f)
  BY <1>2, MovieErased
<1>5. lagLog \in Seq(Lags)
  BY <1>2, LagLogTypes
<1>6. /\ movie \in Seq(Inputs) /\ movie # <<>> /\ AgreeBefore(movie, ed.movie, f)
  <2>1. CASE erased = <<>>
    <3>1. movie = <<Blank>> /\ <<Blank>> \in Seq(Inputs) /\ <<Blank>> # <<>>
      BY <2>1, TasEditorAssumption
    <3>2. Len(erased) >= f
      <4>1. /\ f <= Len(ed.movie) => Len(Erased(ed.movie, f, 1)) >= f
        BY <1>2, ErasedProperties
      <4> QED BY <1>1, <1>2, <4>1
    <3>3. f = 0
      BY <1>2, <2>1, <3>2
    <3>4. AgreeBefore(movie, ed.movie, f)
      BY <3>3 DEF AgreeBefore
    <3> QED BY <3>1, <3>4
  <2>2. CASE erased # <<>>
    BY <1>4, <2>2
  <2> QED BY <2>1, <2>2
<1>7. machine \in Movies /\ (machine = <<>> \/ machine = ed.machine)
  BY <1>2
<1> HIDE DEF movie, lagLog, erased
<1>8. /\ edited \in Wide /\ GoodLog(edited) /\ Logged(edited, ed.movie)
      /\ Faithful(edited, ed.movie) /\ edited.movie = movie /\ SameMachine(edited, ed)
  BY <1>2, <1>5, <1>6, EditedProperties
<1> HIDE DEF edited, machine
<1>9. /\ e \in Wide /\ SameLog(e, edited) /\ e.movie = movie /\ e.lagLog = edited.lagLog
      /\ e.machine = machine /\ e.savestates = edited.savestates
      /\ e.greenzoneSize = edited.greenzoneSize
  BY <1>7, <1>8, WithMachineFields
<1> HIDE DEF e
<1>10. GoodLog(e) /\ Logged(e, ed.movie)
  <2>1. e.movie = edited.movie
    BY <1>8, <1>9
  <2> QED BY <1>8, <1>9, <2>1, SameItems DEF Logged
<1>11. Faithful(e, ed.movie)
  <2>1. Cached(e, ed.movie)
    BY <1>8, <1>9 DEF Faithful, Cached
  <2>2. CASE machine = <<>>
    <3>1. Len(e.machine) = 0 /\ Played(ed.movie, 0) = <<>>
      BY <1>2, <1>9, <2>2, PlayedProperties
    <3> QED BY <1>9, <2>1, <2>2, <3>1 DEF Faithful
  <2>3. CASE machine = ed.machine
    BY <1>8, <1>9, <2>1, <2>3 DEF Faithful, SameMachine
  <2> QED BY <1>7, <2>2, <2>3
<1>12. /\ Parts(r.first, movie, ed.movie)
       /\ r.ed \in Wide /\ r.ed.movie = movie /\ GoodLog(r.ed)
       /\ Logged(r.ed, r.ed.movie) /\ Faithful(r.ed, ed.movie)
  BY <1>2, <1>6, <1>9, <1>10, <1>11, RegisteredProperties
<1> HIDE DEF r
<1>13. Parts(after, movie, ed.movie)
  <2>1. CASE r.first >= 0
    BY <1>12, <2>1
  <2>2. CASE ~ (r.first >= 0)
    <3>1. Len(movie) \in Nat /\ Len(movie) # 0
      BY <1>6, LenProperties, EmptySeq
    <3>2. Len(movie) - 1 \in Nat
      BY <3>1
    <3>3. Alike(movie, ed.movie)
      BY <1>12, <2>2 DEF Parts
    <3>4. after = Len(movie) - 1
      BY <2>2
    <3> HIDE DEF after
    <3> QED BY <3>2, <3>3, <3>4 DEF Parts, Alike, AgreeBefore
  <2> QED BY <2>1, <2>2
<1> HIDE DEF after
<1>14. Coherent(InvalidateAndUpdatePlayback(r.ed, after))
  BY <1>6, <1>12, <1>13, Followed
<1> QED BY <1>3, <1>14, EditBecomesRight

LEMMA TruncateMovieRight ==
  ASSUME Right, NEW f \in Frames, TruncateMovie(f)
  PROVE  Right'
<1> DEFINE movie == SubSeq(ed.movie, 1, f + 1)
           e == [ed EXCEPT !.movie = movie]
           r == Registered(e, f + 1)
           after == IF r.first >= 0 THEN r.first ELSE f
<1>1. f + 1 < Len(ed.movie)
  BY DEF TruncateMovie
<1>2. Edit(InvalidateAndUpdatePlayback(r.ed, after))
  BY DEF TruncateMovie, Registered
<1>3. /\ ed \in Editors /\ Sound(ed) /\ ed \in Wide /\ f \in Nat
      /\ ed.movie \in Seq(Inputs) /\ Len(ed.movie) \in Nat /\ ed.lagLog \in Seq(Lags)
  BY WideFields, TasEditorAssumption DEF Right, Sound, Coherent, Frames
<1>4. f + 1 \in Nat /\ f + 1 <= Len(ed.movie)
  BY <1>1, <1>3
<1>5. /\ movie \in Seq(Inputs) /\ Len(movie) = f + 1 /\ AgreeBefore(movie, ed.movie, f + 1)
  BY <1>3, <1>4, MovieCut
<1>6. e = WithMovie(ed, movie, ed.lagLog)
  BY <1>3 DEF WithMovie, Wide
<1> HIDE DEF movie, e
<1>7. movie # <<>>
  BY <1>3, <1>5
<1>8. /\ e \in Wide /\ GoodLog(e) /\ Logged(e, ed.movie) /\ Faithful(e, ed.movie)
      /\ e.movie = movie
  BY <1>3, <1>5, <1>6, <1>7, EditedProperties
<1>9. /\ Parts(r.first, movie, ed.movie)
      /\ r.ed \in Wide /\ r.ed.movie = movie /\ GoodLog(r.ed)
      /\ Logged(r.ed, r.ed.movie) /\ Faithful(r.ed, ed.movie)
  BY <1>3, <1>4, <1>5, <1>7, <1>8, RegisteredProperties
<1> HIDE DEF r
<1>10. Parts(after, movie, ed.movie)
  <2>1. CASE r.first >= 0
    BY <1>9, <2>1
  <2>2. CASE ~ (r.first >= 0)
    <3>1. Alike(movie, ed.movie)
      BY <1>9, <2>2 DEF Parts
    <3>2. after = f
      BY <2>2
    <3> HIDE DEF after
    <3> QED BY <1>3, <3>1, <3>2 DEF Parts, Alike, AgreeBefore
  <2> QED BY <2>1, <2>2
<1> HIDE DEF after
<1>11. Coherent(InvalidateAndUpdatePlayback(r.ed, after))
  BY <1>7, <1>9, <1>10, Followed
<1> QED BY <1>2, <1>11, EditBecomesRight

LEMMA JumpRight ==
  ASSUME Right, NEW pos \in Positions, Jump(pos)
  PROVE  Right'
<1> DEFINE r == JumpInTime(ed, pos)
<1>1. /\ pos \in 0..ed.total - 1 /\ pos # ed.cursor
      /\ Command(InvalidateAndUpdatePlayback(r.ed, r.first))
  BY DEF Jump
<1>2. ed \in Editors /\ Sound(ed) /\ Faithful(ed, ed.movie)
  BY DEF Right, Sound, Coherent
<1>3. /\ Parts(r.first, r.ed.movie, ed.movie)
      /\ r.ed \in Wide /\ r.ed.movie # <<>> /\ SameMachine(r.ed, ed)
      /\ GoodLog(r.ed) /\ Logged(r.ed, r.ed.movie)
  BY <1>1, <1>2, JumpInTimeProperties
<1> HIDE DEF r
<1>4. Faithful(r.ed, ed.movie)
  BY <1>2, <1>3 DEF Faithful, Cached, SameMachine
<1>5. Coherent(InvalidateAndUpdatePlayback(r.ed, r.first))
  BY <1>3, <1>4, Followed
<1> QED BY <1>1, <1>5, CommandBecomesRight

LEMMA UngreenzoneRight ==
  ASSUME Right, NEW f \in Frames, Ungreenzone(f)
  PROVE  Right'
<1> DEFINE s == [ed.savestates EXCEPT ![f] = NoState]
           e == [ed EXCEPT !.savestates[f] = NoState]
<1>1. Command(e)
  BY DEF Ungreenzone
<1>2. /\ ed \in Wide /\ GoodLog(ed) /\ Logged(ed, ed.movie) /\ Faithful(ed, ed.movie)
      /\ ed.movie # <<>>
      /\ ed.savestates \in [Frames -> Movies \cup {NoState}]
      /\ ed.greenzoneSize \in 0..MaxFrames + 1
  BY WideFields DEF Right, Sound, Coherent
<1>3. e = WithGreenzone(ed, s, ed.greenzoneSize)
  BY <1>2 DEF WithGreenzone, Wide
<1>4. s \in [Frames -> Movies \cup {NoState}]
  BY <1>2
<1>5. \A h \in Frames : s[h] # NoState => s[h] = ed.savestates[h]
  BY <1>2
<1> HIDE DEF s, e
<1>6. /\ e \in Wide /\ SameLog(e, ed) /\ e.movie = ed.movie /\ e.lagLog = ed.lagLog
      /\ e.machine = ed.machine /\ e.savestates = s /\ e.greenzoneSize = ed.greenzoneSize
  BY <1>2, <1>3, <1>4, WithGreenzoneFields
<1>7. GoodLog(e) /\ Logged(e, e.movie)
  BY <1>2, <1>6, SameItems DEF Logged
<1>8. Faithful(e, e.movie)
  BY <1>2, <1>5, <1>6 DEF Faithful, Cached
<1>9. Coherent(e)
  BY <1>2, <1>6, <1>7, <1>8 DEF Coherent
<1> QED BY <1>1, <1>9, CommandBecomesRight

LEMMA MovePlaybackRight ==
  ASSUME Right, NEW f \in Frames, NEW forceStateReload \in BOOLEAN,
         MovePlayback(f, forceStateReload)
  PROVE  Right'
<1> DEFINE e == AboveOrTo(ed, f, forceStateReload)
<1>1. Command(e)
  BY DEF MovePlayback
<1>2. /\ ed \in Wide /\ GoodLog(ed) /\ Logged(ed, ed.movie) /\ ed.movie # <<>>
      /\ Cached(ed, ed.movie) /\ ed.machine = Played(ed.movie, Frame(ed))
      /\ f \in Nat \cup {-1}
  BY TasEditorAssumption DEF Right, Sound, Coherent, Faithful, Frame, Frames
<1>3. /\ e \in Wide /\ SameLog(e, ed) /\ e.movie = ed.movie /\ e.lagLog = ed.lagLog
      /\ e.savestates = ed.savestates /\ e.greenzoneSize = ed.greenzoneSize
      /\ e.machine = Played(e.movie, Len(e.machine))
  BY <1>2, AboveOrToProperties
<1> HIDE DEF e
<1>4. GoodLog(e) /\ Logged(e, e.movie)
  BY <1>2, <1>3, SameItems DEF Logged
<1>5. Faithful(e, e.movie)
  BY <1>2, <1>3 DEF Faithful, Cached
<1>6. Coherent(e)
  BY <1>2, <1>3, <1>4, <1>5 DEF Coherent
<1> QED BY <1>1, <1>6, CommandBecomesRight

LEMMA ImportRight ==
  ASSUME Right, NEW movie \in Imports, Import(movie)
  PROVE  Right'
<1> DEFINE theirs == Current(ed).inputs
           change == FirstChange(movie, theirs, 0, -1)
           plain == Snapshot(ed, "edit", 0)
           item == [plain EXCEPT !.inputs = movie]
           added == AddItem(ed, item)
           imported == [added EXCEPT !.movie = movie]
           followed == InvalidateAndUpdatePlayback(imported, change)
           lagLog == LagInvalidated(followed.lagLog, change)
           e == [followed EXCEPT !.lagLog = lagLog]
<1>1. Edit(e)
  BY DEF Import
<1>2. /\ ed \in Editors /\ ed \in Wide /\ GoodLog(ed) /\ Logged(ed, ed.movie)
      /\ Faithful(ed, ed.movie) /\ ed.movie # <<>> /\ ed.lagLog \in LagLogs
      /\ ed.movie \in Seq(Inputs) /\ theirs \in Seq(Inputs)
  BY WideFields, CurrentProperties DEF Right, Sound, Coherent
<1>3. movie \in Movies /\ movie \in Seq(Inputs) /\ movie # <<>>
  <2>1. PICK n \in 1..MaxFrames : movie \in [1..n -> Inputs]
    BY TasEditorAssumption
  <2>2. n \in Frames /\ n \in Nat /\ n # 0
    BY TasEditorAssumption DEF Frames
  <2>3. movie \in Seq(Inputs) /\ Len(movie) = n
    BY <2>1, <2>2
  <2> QED BY <2>1, <2>2, <2>3 DEF Movies
<1>4. Parts(change, movie, theirs)
  <2> HIDE DEF theirs
  <2>1. AgreeBefore(movie, theirs, 0)
    BY DEF AgreeBefore
  <2>2. 0 \in Nat /\ -1 \in Nat \cup {-1} /\ -1 = -1
    OBVIOUS
  <2> QED BY <1>2, <1>3, <2>1, <2>2, FirstChangeProperties
<1>5. Parts(change, movie, ed.movie) /\ change \in Int
  <2>1. Alike(theirs, ed.movie)
    BY <1>2 DEF Logged
  <2> HIDE DEF theirs, change
  <2> QED BY <1>4, <2>1, PartsAlike DEF Parts
<1> HIDE DEF theirs, change
<1>6. plain \in WideSnapshots /\ GoodItem(plain, ed.movie, ed.lagLog)
  <2>1. 0 \in Frames /\ "edit" \in {"init", "edit", "set", "record", "bookmark"}
    BY TasEditorAssumption DEF Frames
  <2> QED BY <1>2, <2>1, SnapshotProperties
<1> HIDE DEF plain
<1>7. item \in WideSnapshots /\ item.inputs = movie /\ GoodItem(item, ed.movie, ed.lagLog)
  <2>1. /\ item \in WideSnapshots /\ item.inputs = movie /\ item.lagLog = plain.lagLog
        /\ item.backup = plain.backup
    BY <1>3, <1>6 DEF WideSnapshots
  <2> HIDE DEF item
  <2> QED BY <1>3, <1>6, <2>1 DEF GoodItem
<1> HIDE DEF item
<1>8. /\ added \in Wide /\ added.movie = ed.movie /\ added.lagLog = ed.lagLog
      /\ SameMachine(added, ed) /\ GoodLog(added) /\ Current(added) = item
  BY <1>2, <1>7, AddItemProperties
<1> HIDE DEF added
<1>9. imported = WithMovie(added, movie, added.lagLog) /\ added.lagLog \in Seq(Lags)
  BY <1>8, WideFields DEF WithMovie, Wide
<1> HIDE DEF imported
<1>10. /\ imported \in Wide /\ SameLog(imported, added) /\ SameMachine(imported, added)
       /\ imported.movie = movie /\ imported.lagLog = added.lagLog
  BY <1>3, <1>8, <1>9, WithMovieFields
<1>11. GoodLog(imported) /\ Logged(imported, imported.movie)
  <2>1. Current(imported) = Current(added)
    BY <1>10, SameItems
  <2>2. Logged(imported, imported.movie)
    BY <1>7, <1>8, <1>10, <2>1 DEF Logged, Alike
  <2>3. added.movie \in Movies /\ added.lagLog \in LagLogs
    BY <1>2, <1>8 DEF Right, Sound
  <2> QED BY <1>8, <1>10, <2>2, <2>3, GoodLogMoved
<1>12. Faithful(imported, ed.movie)
  BY <1>2, <1>8, <1>10 DEF Faithful, Cached, SameMachine
<1>13. /\ Coherent(followed) /\ SameLog(followed, imported)
       /\ followed.movie = movie /\ followed.lagLog = ed.lagLog
  <2>1. imported.movie # <<>> /\ Parts(change, imported.movie, ed.movie)
    BY <1>3, <1>5, <1>10
  <2>2. /\ Coherent(followed) /\ SameLog(followed, imported)
        /\ followed.movie = imported.movie /\ followed.lagLog = imported.lagLog
    BY <1>10, <1>11, <1>12, <2>1, Followed
  <2> QED BY <1>8, <1>10, <2>2
<1> HIDE DEF followed
<1>14. followed \in Wide /\ lagLog \in Seq(Lags)
  BY <1>5, <1>13, WideFields, LagLogTypes DEF Coherent
<1>15. e = WithMovie(followed, followed.movie, lagLog)
  BY <1>14 DEF WithMovie, Wide
<1> HIDE DEF e, lagLog
<1>16. /\ e \in Wide /\ SameLog(e, followed) /\ SameMachine(e, followed)
       /\ e.movie = followed.movie /\ e.lagLog = lagLog
  BY <1>14, <1>15, WideFields, WithMovieFields
<1>17. GoodLog(e) /\ Logged(e, e.movie)
  <2>1. GoodLog(followed) /\ Logged(followed, followed.movie)
    BY <1>13 DEF Coherent
  <2> QED BY <1>2, <1>13, <1>16, <2>1, GoodLogKept, SameItems DEF Logged
<1>18. Faithful(e, e.movie) /\ e.movie # <<>>
  BY <1>13, <1>16 DEF Coherent, Faithful, Cached, SameMachine
<1>19. Coherent(e)
  BY <1>16, <1>17, <1>18 DEF Coherent
<1> QED BY <1>1, <1>19, EditBecomesRight

LEMMA SetBookmarkRight ==
  ASSUME Right, NEW slot \in Slots, SetBookmark(slot)
  PROVE  Right'
<1> DEFINE b == Bookmark(ed)
           bookmarks == [ed.bookmarks EXCEPT ![slot] = b]
           set == [ed EXCEPT !.bookmarks[slot] = b]
           plain == Snapshot(ed, "bookmark", 0)
           item == [plain EXCEPT !.slot = slot, !.backup = ed.bookmarks[slot]]
           e == AddBookmarkItem(set, item)
<1>1. updated /\ updated' = updated /\ Becomes(e)
  BY DEF SetBookmark
<1>2. /\ ed \in Editors /\ ed \in Wide /\ GoodLog(ed) /\ Logged(ed, ed.movie)
      /\ Faithful(ed, ed.movie) /\ ed.movie # <<>> /\ Landed(ed)
      /\ ed.movie \in Movies /\ ed.lagLog \in LagLogs
  BY <1>1 DEF Right, Sound, Coherent
<1>3. /\ Frame(ed) \in Frames /\ ed.savestates \in [Frames -> Movies \cup {NoState}]
      /\ ed.bookmarks \in [Slots -> Bookmarks] /\ ed.snapshots \in [Positions -> WideSnapshots]
      /\ ed.start \in Positions /\ ed.cursor \in Positions /\ ed.total \in 1..HistorySize
      /\ ed.past \in Seq(Movies)
  BY <1>2, WideFields
<1>4. b \in Bookmarks /\ GoodBookmark(b)
  <2>1. ed.savestates[Frame(ed)] \in Movies \cup {NoState}
    BY <1>3
  <2>2. b \in Bookmarks
    BY <1>2, <1>3, <2>1 DEF Bookmark, Bookmarks
  <2>3. /\ b.inputs = ed.movie /\ b.keyFrame = Frame(ed)
        /\ b.savestate = ed.savestates[Frame(ed)]
    BY DEF Bookmark
  <2> HIDE DEF b
  <2>4. CASE b.savestate = NoState
    BY <1>2, <2>2, <2>3, <2>4 DEF Landed, GoodBookmark, IsFaithful
  <2>5. CASE b.savestate # NoState
    <3>1. b.savestate = Played(b.inputs, b.keyFrame)
      BY <1>2, <1>3, <2>3, <2>5 DEF Faithful, Cached
    <3> QED BY <1>2, <2>2, <2>3, <2>5, <3>1 DEF GoodBookmark, IsFaithful
  <2> QED BY <2>2, <2>4, <2>5
<1> HIDE DEF b
<1>5. /\ bookmarks \in [Slots -> Bookmarks]
      /\ \A s \in Slots : bookmarks[s] = b \/ bookmarks[s] = ed.bookmarks[s]
  BY <1>3, <1>4
<1>6. set = WithLog(ed, ed.snapshots, ed.start, ed.cursor, ed.total, bookmarks, ed.past)
  BY <1>2 DEF WithLog, Wide
<1> HIDE DEF set, bookmarks
<1>7. /\ set \in Wide /\ set.movie = ed.movie /\ set.lagLog = ed.lagLog
      /\ SameMachine(set, ed) /\ set.snapshots = ed.snapshots /\ set.start = ed.start
      /\ set.cursor = ed.cursor /\ set.total = ed.total /\ set.bookmarks = bookmarks
      /\ set.past = ed.past
  BY <1>2, <1>3, <1>5, <1>6 DEF Wide, SameMachine, WithLog
<1>8. \A p : SnapshotAt(set, p) = SnapshotAt(ed, p)
  BY <1>7 DEF SnapshotAt, RealPos
<1>9. GoodLog(set)
  <2>1. Undoes(set)
    BY <1>2, <1>7, <1>8 DEF GoodLog, Undoes
  <2>2. \A s \in Slots : GoodBookmark(set.bookmarks[s])
    BY <1>2, <1>4, <1>5, <1>7 DEF GoodLog
  <2> QED BY <1>2, <1>7, <2>1, <2>2 DEF GoodLog
<1>10. Logged(set, ed.movie)
  BY <1>2, <1>7, <1>8 DEF Logged, Current
<1>11. /\ plain \in WideSnapshots /\ plain.inputs = ed.movie
       /\ GoodItem(plain, ed.movie, ed.lagLog)
  <2>1. 0 \in Frames /\ "bookmark" \in {"init", "edit", "set", "record", "bookmark"}
    BY TasEditorAssumption DEF Frames
  <2> QED BY <1>2, <2>1, SnapshotProperties
<1> HIDE DEF plain
<1>12. item \in WideSnapshots /\ item.inputs = ed.movie /\ GoodItem(item, set.movie, set.lagLog)
  <2>1. ed.bookmarks[slot] \in Bookmarks /\ GoodBookmark(ed.bookmarks[slot])
    BY <1>2, <1>3 DEF GoodLog
  <2>2. /\ item \in WideSnapshots /\ item.inputs = plain.inputs /\ item.lagLog = plain.lagLog
        /\ item.backup = ed.bookmarks[slot]
    BY <1>11, <2>1 DEF WideSnapshots
  <2> HIDE DEF item
  <2> QED BY <1>7, <1>11, <2>1, <2>2 DEF GoodItem
<1> HIDE DEF item
<1>13. /\ e \in Wide /\ e.movie = set.movie /\ e.lagLog = set.lagLog /\ SameMachine(e, set)
       /\ GoodLog(e) /\ Current(e) = item
  BY <1>2, <1>7, <1>9, <1>10, <1>12, AddBookmarkItemProperties
<1> HIDE DEF e
<1>14. Logged(e, e.movie) /\ e.movie # <<>>
  BY <1>2, <1>7, <1>12, <1>13 DEF Logged, Alike
<1>15. Faithful(e, e.movie) /\ Landed(e)
  BY <1>2, <1>7, <1>13 DEF Faithful, Cached, SameMachine, Landed, Frame
<1>16. Coherent(e)
  BY <1>13, <1>14, <1>15 DEF Coherent
<1> QED BY <1>1, <1>15, <1>16, BecomesRight DEF Right

LEMMA DeployRight ==
  ASSUME Right, NEW slot \in Slots, NEW entireMovie \in BOOLEAN, Deploy(slot, entireMovie)
  PROVE  /\ Right'
         /\ ed'.machine = Played(ed.bookmarks[slot].inputs, ed.bookmarks[slot].keyFrame)
         /\ entireMovie => ed'.movie = ed.bookmarks[slot].inputs
<1> DEFINE movie == Branched(slot, entireMovie)
           e == Deployed(slot, movie)
<1>1. ed.bookmarks[slot].notEmpty /\ Becomes(e) /\ updated' = updated
  BY DEF Deploy, Deployed, Branched, Reloaded
<1>2. ed \in Editors /\ Sound(ed)
  BY DEF Right
<1>3. /\ movie \in Seq(Inputs) /\ movie # <<>>
      /\ AgreeBefore(movie, ed.bookmarks[slot].inputs, ed.bookmarks[slot].keyFrame)
      /\ entireMovie => movie = ed.bookmarks[slot].inputs
  BY <1>1, <1>2, BranchedProperties
<1> HIDE DEF movie
<1>4. /\ Coherent(e) /\ Landed(e) /\ e.movie = movie
      /\ e.machine = Played(ed.bookmarks[slot].inputs, ed.bookmarks[slot].keyFrame)
  BY <1>1, <1>2, <1>3, DeployedProperties
<1> HIDE DEF e
<1>5. ed' = e /\ ed' \in Editors /\ Sound(ed')
  BY <1>1, <1>4, BecomesRight
<1> QED BY <1>3, <1>4, <1>5 DEF Right

LEMMA EmulateRight ==
  ASSUME Right, NEW recording \in BOOLEAN, NEW input \in Inputs, NEW autoAdjust \in BOOLEAN,
         Emulate(recording, input, autoAdjust)
  PROVE  Right'
<1> DEFINE c == Emulated(ed, recording, input)
           e == Updated(c, autoAdjust)
<1>1. Frame(ed) + 2 <= MaxFrames /\ Becomes(e)
  BY DEF Emulate
<1>2. ed \in Editors /\ Sound(ed)
  BY DEF Right
<1>3. Sound(c) /\ Frame(c) < Len(c.movie)
  BY <1>1, <1>2, EmulatedProperties
<1> HIDE DEF c
<1>4. Adjustable(c)
  <2>1. Len(c.movie) \in Nat /\ Frame(c) \in Nat
    BY <1>3, WideFields DEF Sound, Coherent
  <2>2. ~ (Frame(c) > Len(c.movie))
    BY <1>3, <2>1
  <2> QED BY <2>2 DEF Adjustable
<1>5. Coherent(e) /\ Landed(e)
  BY <1>3, <1>4, UpdatedProperties
<1> HIDE DEF e
<1> QED BY <1>1, <1>5, BecomesRight DEF Right

LEMMA UpdateRight ==
  ASSUME Right, NEW autoAdjust \in BOOLEAN, Update(autoAdjust)
  PROVE  Right'
<1> DEFINE e == Updated(ed, autoAdjust)
<1>1. Becomes(e) /\ (autoAdjust => Adjustable(ed))
  BY DEF Update
<1>2. Sound(ed)
  BY DEF Right
<1>3. Coherent(e) /\ Landed(e)
  BY <1>1, <1>2, UpdatedProperties
<1> HIDE DEF e
<1> QED BY <1>1, <1>3, BecomesRight DEF Right

\* A new project is right.
LEMMA InitRight ==
  ASSUME Init
  PROVE  Right
<1> DEFINE blank == <<Blank>>
           empty == [inputs |-> blank, lagLog |-> <<>>, kind |-> "init", tag |-> 0,
                     slot |-> CHOOSE s \in Slots : TRUE, backup |-> NoBookmark]
           start == [movie |-> blank, machine |-> <<>>,
                     savestates |-> [f \in Frames |-> NoState], greenzoneSize |-> 0,
                     lagLog |-> <<>>, snapshots |-> [p \in Positions |-> empty],
                     start |-> 0, cursor |-> 0, total |-> 1,
                     bookmarks |-> [s \in Slots |-> NoBookmark], past |-> <<>>]
<1>1. ed = start /\ updated = FALSE
  BY DEF Init
<1>2. /\ <<>> \in Movies /\ <<>> \in LagLogs /\ blank \in Movies /\ blank # <<>>
      /\ blank \in Seq(Inputs) /\ <<>> \in Seq(Lags)
  <2>1. <<>> \in Seq(Inputs) /\ <<>> \in Seq(Lags) /\ Len(<<>>) <= MaxFrames
    BY TasEditorAssumption
  <2>2. blank \in Seq(Inputs) /\ Len(blank) <= MaxFrames /\ blank # <<>>
    BY TasEditorAssumption
  <2>3. <<>> \in Movies
    BY <2>1, MoviesBounded
  <2>4. <<>> \in LagLogs
    BY <2>1, LagLogsBounded
  <2>5. blank \in Movies
    BY <2>2, MoviesBounded
  <2> QED BY <2>1, <2>2, <2>3, <2>4, <2>5
<1>3. /\ 0 \in Frames /\ 0 \in Positions /\ 1 \in 1..HistorySize /\ 0 \in 0..MaxFrames + 1
      /\ (CHOOSE s \in Slots : TRUE) \in Slots
  BY TasEditorAssumption DEF Frames, Positions
<1> HIDE DEF blank
<1>4. NoBookmark \in Bookmarks /\ NoBookmark.notEmpty = FALSE
  BY <1>2, <1>3 DEF NoBookmark, Bookmarks
<1>5. empty \in Snapshots /\ empty.inputs = blank /\ empty.backup = NoBookmark
      /\ empty.lagLog = <<>> /\ empty \in WideSnapshots
  BY <1>2, <1>3, <1>4 DEF Snapshots, WideSnapshots
<1> HIDE DEF empty
<1>6. /\ ed.movie = blank /\ ed.machine = <<>> /\ ed.lagLog = <<>> /\ ed.past = <<>>
      /\ ed.savestates = [f \in Frames |-> NoState] /\ ed.greenzoneSize = 0
      /\ ed.snapshots = [p \in Positions |-> empty] /\ ed.start = 0 /\ ed.cursor = 0
      /\ ed.total = 1 /\ ed.bookmarks = [s \in Slots |-> NoBookmark]
  BY <1>1
<1>7. <<>> \in Seq(Movies)
  OBVIOUS
<1>8. ed \in Editors
  BY <1>1, <1>2, <1>3, <1>4, <1>5, <1>7 DEF Editors
<1>9. ed \in Wide
  BY <1>1, <1>2, <1>3, <1>4, <1>5, <1>7 DEF Wide
<1>10. /\ \A p \in Positions : ed.snapshots[p] = empty
       /\ \A s \in Slots : ed.bookmarks[s] = NoBookmark
       /\ \A f \in Frames : ed.savestates[f] = NoState
  BY <1>6
<1>11. GoodLog(ed)
  <2>1. Len(ed.past) = 0
    BY <1>6
  <2>2. Undoes(ed)
    BY <2>1 DEF Undoes
  <2>3. GoodBookmark(NoBookmark)
    BY <1>4 DEF GoodBookmark
  <2>4. GoodItem(empty, ed.movie, ed.lagLog)
    BY <1>2, <1>5, <2>3 DEF GoodItem
  <2>5. ed.cursor < ed.total
    BY <1>6
  <2> QED BY <1>10, <2>2, <2>3, <2>4, <2>5 DEF GoodLog
<1>12. Logged(ed, ed.movie)
  <2>1. RealPos(ed, ed.cursor) \in Positions
    BY <1>3, <1>6, <1>9, RealPosProperties
  <2>2. Current(ed) = empty
    BY <1>10, <2>1 DEF Current, SnapshotAt
  <2> QED BY <1>5, <1>6, <2>2 DEF Logged, Alike
<1>13. Faithful(ed, ed.movie)
  <2>1. Cached(ed, ed.movie)
    BY <1>10 DEF Cached
  <2>2. Len(ed.machine) = 0 /\ Played(ed.movie, 0) = <<>>
    BY <1>2, <1>6, PlayedProperties
  <2> QED BY <1>6, <2>1, <2>2 DEF Faithful
<1>14. Sound(ed)
  BY <1>2, <1>6, <1>9, <1>11, <1>12, <1>13 DEF Sound, Coherent
<1> QED BY <1>1, <1>8, <1>14 DEF Right

-----------------------------------------------------------------------------
(* The invariants. *)

\* What is inductive: TypeOK, and what is right.
IInv ==
  /\ Right
  /\ updated \in BOOLEAN /\ edits \in 0..MaxEdits /\ deploys \in 0..MaxDeploys

LEMMA InitIInv == Init => IInv
<1> SUFFICES ASSUME Init PROVE IInv
  OBVIOUS
<1>1. Right
  BY InitRight
<1>2. updated = FALSE /\ edits = 0 /\ deploys = 0
  BY DEF Init
<1>3. updated \in BOOLEAN
  BY <1>2
<1>4. edits \in 0..MaxEdits /\ deploys \in 0..MaxDeploys
  BY <1>2, TasEditorAssumption
<1> QED BY <1>1, <1>3, <1>4 DEF IInv

\* The counters stay within their bounds.
LEMMA NextCounts ==
  ASSUME edits \in 0..MaxEdits, deploys \in 0..MaxDeploys, updated \in BOOLEAN, Next
  PROVE  updated' \in BOOLEAN /\ edits' \in 0..MaxEdits /\ deploys' \in 0..MaxDeploys
<1> USE TasEditorAssumption
<1>1. ASSUME NEW n \in {0, 1}, Counted(n) PROVE edits' \in 0..MaxEdits
  BY <1>1 DEF Counted
<1>2. ASSUME NEW e, Edit(e)
      PROVE  updated' \in BOOLEAN /\ edits' \in 0..MaxEdits /\ deploys' \in 0..MaxDeploys
  BY <1>1, <1>2 DEF Edit
<1>3. ASSUME NEW e, Command(e)
      PROVE  updated' \in BOOLEAN /\ edits' \in 0..MaxEdits /\ deploys' \in 0..MaxDeploys
  BY <1>3 DEF Command
<1>4. ASSUME NEW autoAdjust \in BOOLEAN, Update(autoAdjust)
      PROVE  updated' \in BOOLEAN /\ edits' \in 0..MaxEdits /\ deploys' \in 0..MaxDeploys
  BY <1>4 DEF Update
<1>5. ASSUME NEW autoAdjust \in BOOLEAN, NEW recording \in BOOLEAN, NEW input \in Inputs,
             Emulate(recording, input, autoAdjust)
      PROVE  updated' \in BOOLEAN /\ edits' \in 0..MaxEdits /\ deploys' \in 0..MaxDeploys
  <2>1. Counted(IF recording THEN 1 ELSE 0) /\ updated' = TRUE /\ deploys' = deploys
    BY <1>5 DEF Emulate
  <2>2. (IF recording THEN 1 ELSE 0) \in {0, 1}
    OBVIOUS
  <2>3. edits' \in 0..MaxEdits
    BY <1>1, <2>1, <2>2
  <2> QED BY <2>1, <2>3
<1>6. ASSUME NEW slot \in Slots, SetBookmark(slot)
      PROVE  updated' \in BOOLEAN /\ edits' \in 0..MaxEdits /\ deploys' \in 0..MaxDeploys
  <2>1. Counted(1) /\ updated' = updated /\ deploys' = deploys
    BY <1>6 DEF SetBookmark
  <2>2. edits' \in 0..MaxEdits
    BY <1>1, <2>1
  <2> QED BY <2>1, <2>2
<1>7. ASSUME NEW slot \in Slots, NEW entireMovie \in BOOLEAN, Deploy(slot, entireMovie)
      PROVE  updated' \in BOOLEAN /\ edits' \in 0..MaxEdits /\ deploys' \in 0..MaxDeploys
  <2>1. /\ deploys < MaxDeploys /\ deploys' = deploys + 1 /\ updated' = updated
        /\ edits' = edits
    BY <1>7 DEF Deploy
  <2> QED BY <2>1
<1>8. \/ \E autoAdjust \in BOOLEAN :
           \/ Update(autoAdjust)
           \/ \E recording \in BOOLEAN, input \in Inputs : Emulate(recording, input, autoAdjust)
      \/ \E e : Edit(e) \/ Command(e)
      \/ \E slot \in Slots :
           SetBookmark(slot) \/ \E entireMovie \in BOOLEAN : Deploy(slot, entireMovie)
  <2>1. \A f \in Frames : DeleteFrame(f) => \E e : Edit(e)
    BY DEF DeleteFrame
  <2>2. \A f \in Frames : TruncateMovie(f) => \E e : Edit(e)
    BY DEF TruncateMovie
  <2>3. \A f \in Frames : Ungreenzone(f) => \E e : Command(e)
    BY DEF Ungreenzone
  <2>4. \A f \in Frames, force \in BOOLEAN : MovePlayback(f, force) => \E e : Command(e)
    BY DEF MovePlayback
  <2>5. \A f \in Frames, input \in Inputs : InsertFrame(f, input) => \E e : Edit(e)
    BY DEF InsertFrame
  <2>6. \A f \in Frames, input \in Inputs, continued \in BOOLEAN :
          SetInput(f, input, continued) => \E e : Edit(e)
    BY DEF SetInput
  <2>7. \A movie \in Imports : Import(movie) => \E e : Edit(e)
    BY DEF Import
  <2>8. \A pos \in Positions : Jump(pos) => \E e : Command(e)
    BY DEF Jump
  <2> QED BY <2>1, <2>2, <2>3, <2>4, <2>5, <2>6, <2>7, <2>8, Zenon DEF Next
<1> QED BY <1>2, <1>3, <1>4, <1>5, <1>6, <1>7, <1>8

LEMMA NextIInv == IInv /\ [Next]_vars => IInv'
<1> SUFFICES ASSUME IInv, [Next]_vars PROVE IInv'
  OBVIOUS
<1>1. Right
  BY DEF IInv
<1>2. CASE Next
  <2>1. Right'
    <3>1. ASSUME NEW autoAdjust \in BOOLEAN, Update(autoAdjust) PROVE Right'
      BY <1>1, <3>1, UpdateRight
    <3>2. ASSUME NEW autoAdjust \in BOOLEAN, NEW recording \in BOOLEAN, NEW input \in Inputs,
                 Emulate(recording, input, autoAdjust)
          PROVE  Right'
      BY <1>1, <3>2, EmulateRight
    <3>3. ASSUME NEW f \in Frames, DeleteFrame(f) PROVE Right'
      BY <1>1, <3>3, DeleteFrameRight
    <3>4. ASSUME NEW f \in Frames, TruncateMovie(f) PROVE Right'
      BY <1>1, <3>4, TruncateMovieRight
    <3>5. ASSUME NEW f \in Frames, Ungreenzone(f) PROVE Right'
      BY <1>1, <3>5, UngreenzoneRight
    <3>6. ASSUME NEW f \in Frames, NEW forceStateReload \in BOOLEAN,
                 MovePlayback(f, forceStateReload)
          PROVE  Right'
      BY <1>1, <3>6, MovePlaybackRight
    <3>7. ASSUME NEW f \in Frames, NEW input \in Inputs, InsertFrame(f, input) PROVE Right'
      BY <1>1, <3>7, InsertFrameRight
    <3>8. ASSUME NEW f \in Frames, NEW input \in Inputs, NEW continued \in BOOLEAN,
                 SetInput(f, input, continued)
          PROVE  Right'
      BY <1>1, <3>8, SetInputRight
    <3>9. ASSUME NEW movie \in Imports, Import(movie) PROVE Right'
      BY <1>1, <3>9, ImportRight
    <3>10. ASSUME NEW pos \in Positions, Jump(pos) PROVE Right'
      BY <1>1, <3>10, JumpRight
    <3>11. ASSUME NEW slot \in Slots, SetBookmark(slot) PROVE Right'
      BY <1>1, <3>11, SetBookmarkRight
    <3>12. ASSUME NEW slot \in Slots, NEW entireMovie \in BOOLEAN, Deploy(slot, entireMovie)
           PROVE  Right'
      BY <1>1, <3>12, DeployRight
    <3> QED BY <1>2, <3>1, <3>2, <3>3, <3>4, <3>5, <3>6, <3>7, <3>8, <3>9, <3>10, <3>11,
               <3>12, Zenon DEF Next
  <2>2. updated' \in BOOLEAN /\ edits' \in 0..MaxEdits /\ deploys' \in 0..MaxDeploys
    BY <1>2, NextCounts DEF IInv
  <2> QED BY <2>1, <2>2 DEF IInv
<1>3. CASE UNCHANGED vars
  BY <1>3 DEF IInv, Right, vars
<1> QED BY <1>2, <1>3

LEMMA Always == Spec => []IInv
<1>1. Init => IInv
  BY InitIInv
<1>2. IInv /\ [Next]_vars => IInv'
  BY NextIInv
<1> QED BY <1>1, <1>2, PTL DEF Spec

\* What the inductive invariant says of the editor.
LEMMA RightFields ==
  ASSUME Right
  PROVE  /\ ed \in Editors /\ ed \in Wide /\ ed.movie # <<>> /\ GoodLog(ed)
         /\ Logged(ed, ed.movie) /\ Faithful(ed, ed.movie)
         /\ ed.total \in 1..HistorySize /\ HistorySize \in Nat
BY WideFields, TasEditorAssumption DEF Right, Sound, Coherent

LEMMA AlikeIsSame ==
  ASSUME NEW a, NEW b, Alike(a, b)
  PROVE  SameInput(a, b)
BY TasEditorAssumption DEF Alike, SameInput, Frames

\* The types of the editor, the log and the bookmarks: what is in the ring and
\* what the edits leave stays a movie within the bounds, and the cursor of the
\* log stays inside.
THEOREM TasEditorType == Spec => []TypeOK
<1>1. IInv => TypeOK
  BY RightFields DEF IInv, TypeOK, GoodLog
<1> QED BY <1>1, Always, PTL

\* Every savestate in the Greenzone is what playing the movie up to its frame
\* leads to (GREENZONE::invalidate and what registers changes with the HISTORY).
THEOREM GreenzoneIsFaithful == Spec => []GreenzoneFaithful
<1>1. IInv => GreenzoneFaithful
  BY RightFields DEF IInv, GreenzoneFaithful, Faithful, Cached
<1> QED BY <1>1, Always, PTL

\* The machine was given the input of the movie, after every command
\* (GREENZONE::invalidateAndUpdatePlayback, PLAYBACK::setPlaybackAboveOrToFrame).
THEOREM MovieIsPlayed == Spec => []PlaysTheMovie
<1>1. IInv => PlaysTheMovie
  BY RightFields DEF IInv, PlaysTheMovie, Faithful, Frame
<1> QED BY <1>1, Always, PTL

\* Every change of the movie is in the log (HISTORY::registerChanges, and the
\* others that register).
THEOREM LogStaysCurrent == Spec => []LogIsCurrent
<1>1. IInv => LogIsCurrent
  <2> SUFFICES ASSUME IInv PROVE LogIsCurrent
    OBVIOUS
  <2>1. Alike(Current(ed).inputs, ed.movie)
    BY RightFields DEF IInv, Logged
  <2> QED BY <2>1, AlikeIsSame DEF LogIsCurrent
<1> QED BY <1>1, Always, PTL

\* Undoing leads back to the movie before each change (HISTORY::undo), in a
\* ring that loses its oldest items, over redone items and bookmarks.
THEOREM UndoingLeadsBack == Spec => []UndoLeadsBack
<1>1. IInv => UndoLeadsBack
  <2> SUFFICES ASSUME IInv, NEW k \in 1..Len(ed.past), k <= ed.cursor
               PROVE  SameInput(SnapshotAt(ed, ed.cursor - k).inputs,
                                ed.past[Len(ed.past) + 1 - k])
    BY DEF UndoLeadsBack
  <2>1. Alike(SnapshotAt(ed, ed.cursor - k).inputs, Back(ed.past, k))
    BY RightFields DEF IInv, GoodLog, Undoes
  <2>2. SameInput(SnapshotAt(ed, ed.cursor - k).inputs, Back(ed.past, k))
    BY <2>1, AlikeIsSame
  <2> QED BY <2>2 DEF Back
<1> QED BY <1>1, Always, PTL

\* A bookmark has the state that its own movie leads to, and so has one that
\* undoing brings back (BOOKMARK::set, HISTORY::jumpInTime).
THEOREM BookmarksStayFaithful == Spec => []BookmarksFaithful
<1>1. IInv => BookmarksFaithful
  <2> SUFFICES ASSUME IInv PROVE BookmarksFaithful
    OBVIOUS
  <2>1. ed \in Wide /\ GoodLog(ed) /\ ed.total \in 1..HistorySize /\ HistorySize \in Nat
    BY RightFields DEF IInv
  <2>2. \A s \in Slots : ed.bookmarks[s].notEmpty => IsFaithful(ed.bookmarks[s])
    BY <2>1 DEF GoodLog, GoodBookmark
  <2>3. ASSUME NEW pos \in 0..ed.total - 1, SnapshotAt(ed, pos).backup.notEmpty
        PROVE  IsFaithful(SnapshotAt(ed, pos).backup)
    <3>1. pos \in Positions
      BY <2>1 DEF Positions
    <3>2. RealPos(ed, pos) \in Positions
      BY <2>1, <3>1, RealPosProperties
    <3> QED BY <2>1, <2>3, <3>2 DEF SnapshotAt, GoodLog, GoodItem, GoodBookmark
  <2> QED BY <2>2, <2>3 DEF BookmarksFaithful
<1> QED BY <1>1, Always, PTL

\* Deploying a bookmark brings back the machine and, if asked for, the whole
\* movie it was set at (BOOKMARKS::deploy).
THEOREM DeployingReturns == Spec => DeployReturns
<1>1. IInv /\ [Next]_vars =>
        [deploys' # deploys =>
           \A s \in Slots, entireMovie \in BOOLEAN : Deploy(s, entireMovie) =>
             /\ ed'.machine = Played(ed.bookmarks[s].inputs, ed.bookmarks[s].keyFrame)
             /\ entireMovie => SameInput(ed'.movie, ed.bookmarks[s].inputs)]_vars
  <2> SUFFICES ASSUME IInv, NEW s \in Slots, NEW entireMovie \in BOOLEAN, Deploy(s, entireMovie)
               PROVE  /\ ed'.machine = Played(ed.bookmarks[s].inputs, ed.bookmarks[s].keyFrame)
                      /\ entireMovie => SameInput(ed'.movie, ed.bookmarks[s].inputs)
    OBVIOUS
  <2>1. Right
    BY DEF IInv
  <2>2. /\ ed'.machine = Played(ed.bookmarks[s].inputs, ed.bookmarks[s].keyFrame)
        /\ entireMovie => ed'.movie = ed.bookmarks[s].inputs
    BY <2>1, DeployRight
  <2> QED BY <2>2 DEF SameInput
<1> QED BY <1>1, Always, PTL DEF Spec, DeployReturns

=============================================================================
