------------------------ MODULE ChatRecordingProofs ------------------------
(***************************************************************************)
(* What is proved of the recording of a conversation: what a reader makes  *)
(* of the file, for every file and however many lines it has; and from     *)
(* that the types, that the session can be recovered and is resumed as it  *)
(* was, and that one which is not worth resuming leaves no file, for any   *)
(* number of messages, operations and faults.                              *)
(***************************************************************************)
EXTENDS ChatRecording, SequenceTheorems, WellFoundedInduction, TLAPS

(***************************************************************************)
(* Induction over the naturals, as a fact about sets.                      *)
(***************************************************************************)
LEMMA Least ==
  ASSUME NEW S, S \subseteq Nat, S # {}
  PROVE \E n \in S : \A m \in S : n <= m
<1> DEFINE R == OpToRel(<, Nat)
<1>1. IsWellFoundedOn(R, Nat)
  BY NatLessThanWellFounded, Zenon
<1>2. \A a, b \in Nat : <<a, b>> \in R <=> a < b
  BY DEF OpToRel
<1> HIDE DEF R
<1>3. PICK n \in S : \A m \in S : ~(<<m, n>> \in R)
  BY <1>1, WFMin, Zenon
<1>4. \A m \in S : n <= m
  <2> SUFFICES ASSUME NEW m \in S PROVE n <= m
    OBVIOUS
  <2>1. m \in Nat /\ n \in Nat
    OBVIOUS
  <2>2. ~(m < n)
    BY <1>2, <1>3, <2>1
  <2> QED BY <2>1, <2>2
<1> QED BY <1>4

LEMMA Induct ==
  ASSUME NEW S, 0 \in S, \A n \in Nat : n \in S => n + 1 \in S
  PROVE \A n \in Nat : n \in S
<1> SUFFICES ASSUME Nat \ S # {} PROVE FALSE
  OBVIOUS
<1>1. PICK n \in Nat \ S : \A m \in Nat \ S : n <= m
  BY Least
<1>2. n # 0 /\ n - 1 \in Nat
  BY <1>1
<1>3. n - 1 \in S
  BY <1>1, <1>2
<1> QED BY <1>1, <1>2, <1>3

(***************************************************************************)
(* Load reads line by line.                                                *)
(***************************************************************************)
Nothing == [header |-> FALSE, messages |-> <<>>]

\* f[n] is what has been read after n of the lines, up to k.
Reads(f, lines, k) ==
  f = [n \in 0..k |-> IF n = 0 THEN Nothing ELSE Read(f[n - 1], lines[n])]

LEMMA ReadsExist ==
  ASSUME NEW lines
  PROVE \A k \in Nat : \E f : Reads(f, lines, k)
<1> DEFINE S == {k \in Nat : \E f : Reads(f, lines, k)}
<1>1. 0 \in S
  <2> DEFINE f == [n \in 0..0 |-> Nothing]
  <2>1. f = [n \in 0..0 |-> IF n = 0 THEN Nothing ELSE Read(f[n - 1], lines[n])]
    OBVIOUS
  <2> QED BY <2>1 DEF Reads
<1>2. ASSUME NEW k \in Nat, k \in S PROVE k + 1 \in S
  <2>1. PICK f : Reads(f, lines, k)
    BY <1>2
  <2> DEFINE g == [n \in 0..(k + 1) |-> IF n = k + 1 THEN Read(f[k], lines[k + 1]) ELSE f[n]]
  <2>2. \A n \in 0..k : f[n] = IF n = 0 THEN Nothing ELSE Read(f[n - 1], lines[n])
    BY <2>1 DEF Reads
  <2>3. ASSUME NEW n \in 0..(k + 1)
        PROVE g[n] = IF n = 0 THEN Nothing ELSE Read(g[n - 1], lines[n])
    <3>1. CASE n = k + 1
      <4>1. g[n] = Read(f[k], lines[k + 1]) /\ g[k] = f[k] /\ n # 0 /\ n - 1 = k
        BY <3>1
      <4> QED BY <4>1, <3>1
    <3>2. CASE n # k + 1
      <4>1. n \in 0..k /\ g[n] = f[n] /\ (n # 0 => n - 1 \in 0..(k + 1) /\ g[n - 1] = f[n - 1])
        BY <3>2
      <4> QED BY <4>1, <2>2
    <3> QED BY <3>1, <3>2
  <2>4. Reads(g, lines, k + 1)
    <3> HIDE DEF g
    <3>1. g = [n \in 0..(k + 1) |-> g[n]]
      BY DEF g
    <3> QED BY <3>1, <2>3 DEF Reads
  <2> QED BY <2>4
<1> HIDE DEF S
<1>3. \A k \in Nat : k \in S
  BY <1>1, <1>2, Induct
<1> QED BY <1>3 DEF S

\* What is read of equal lines is equal.
LEMMA ReadsAgree ==
  ASSUME NEW a, NEW b, NEW f, NEW g, NEW k \in Nat, NEW m \in Nat, k <= m,
         Reads(f, a, k), Reads(g, b, m), \A i \in 1..k : a[i] = b[i]
  PROVE \A n \in 0..k : f[n] = g[n]
<1> DEFINE S == {n \in Nat : n <= k => f[n] = g[n]}
<1>1. \A n \in 0..k : f[n] = IF n = 0 THEN Nothing ELSE Read(f[n - 1], a[n])
  BY DEF Reads
<1>2. \A n \in 0..m : g[n] = IF n = 0 THEN Nothing ELSE Read(g[n - 1], b[n])
  BY DEF Reads
<1>3. 0 \in S
  BY <1>1, <1>2
<1>4. ASSUME NEW n \in Nat, n \in S PROVE n + 1 \in S
  <2> SUFFICES ASSUME n + 1 <= k PROVE f[n + 1] = g[n + 1]
    OBVIOUS
  <2>1. f[n] = g[n] /\ a[n + 1] = b[n + 1]
    BY <1>4
  <2>2. f[n + 1] = Read(f[n], a[n + 1])
    BY <1>1
  <2>3. g[n + 1] = Read(g[n], b[n + 1])
    BY <1>2
  <2> QED BY <2>1, <2>2, <2>3
<1> HIDE DEF S
<1>5. \A n \in Nat : n \in S
  BY <1>3, <1>4, Induct
<1> QED BY <1>5 DEF S

LEMMA LoadReads ==
  ASSUME NEW lines, Len(lines) \in Nat
  PROVE \E f : Reads(f, lines, Len(lines)) /\ Load(lines) = f[Len(lines)]
<1> DEFINE g == CHOOSE f : f = [n \in 0..Len(lines) |->
                  IF n = 0 THEN [header |-> FALSE, messages |-> <<>>]
                  ELSE Read(f[n - 1], lines[n])]
<1>1. Load(lines) = g[Len(lines)]
  BY DEF Load
<1>2. \E f : f = [n \in 0..Len(lines) |->
                  IF n = 0 THEN [header |-> FALSE, messages |-> <<>>]
                  ELSE Read(f[n - 1], lines[n])]
  BY ReadsExist DEF Reads, Nothing
<1>3. g = [n \in 0..Len(lines) |->
                  IF n = 0 THEN [header |-> FALSE, messages |-> <<>>]
                  ELSE Read(g[n - 1], lines[n])]
  BY <1>2, Zenon
<1> HIDE DEF g
<1> QED BY <1>1, <1>3 DEF Reads, Nothing

LEMMA LoadEmpty == Load(<<>>) = Nothing
<1>1. Len(<<>>) = 0
  OBVIOUS
<1>2. PICK f : Reads(f, <<>>, 0) /\ Load(<<>>) = f[0]
  BY <1>1, LoadReads
<1> QED BY <1>2 DEF Reads

LEMMA LoadAppend ==
  ASSUME NEW T, NEW lines \in Seq(T), NEW line \in T
  PROVE Load(Append(lines, line)) = Read(Load(lines), line)
<1> DEFINE k == Len(lines)
           more == Append(lines, line)
<1>1. k \in Nat /\ Len(more) = k + 1 /\ more[k + 1] = line /\ \A i \in 1..k : lines[i] = more[i]
  BY AppendProperties, LenProperties
<1> HIDE DEF k, more
<1>2. PICK f : Reads(f, lines, k) /\ Load(lines) = f[k]
  BY <1>1, LoadReads DEF k
<1>3. PICK g : Reads(g, more, k + 1) /\ Load(more) = g[k + 1]
  BY <1>1, LoadReads
<1>4. f[k] = g[k]
  BY <1>1, <1>2, <1>3, ReadsAgree
<1>5. g[k + 1] = Read(g[k], more[k + 1])
  BY <1>1, <1>3 DEF Reads
<1> QED BY <1>1, <1>2, <1>3, <1>4, <1>5 DEF more

(***************************************************************************)
(* Messages, and what a line does to them.                                 *)
(***************************************************************************)
LEMMA PlaceIs ==
  ASSUME NEW ms, NEW id, Has(ms, id)
  PROVE Place(ms, id) \in DOMAIN ms /\ ms[Place(ms, id)].id = id
BY DEF Has, Place

LEMMA BeforeTyped ==
  ASSUME NEW ms \in Seq(Message), NEW id
  PROVE /\ Before(ms, id) \in Seq(Message)
        /\ Known(ms) => Known(Before(ms, id))
        /\ HasResumable(Before(ms, id)) => HasResumable(ms)
<1>1. CASE ~Has(ms, id)
  <2>1. Before(ms, id) = <<>>
    BY <1>1 DEF Before
  <2>2. DOMAIN <<>> = {} /\ <<>> \in Seq(Message)
    BY EmptySeq
  <2> QED BY <2>1, <2>2 DEF Known, KnownTo, HasResumable
<1>2. CASE Has(ms, id)
  <2> DEFINE n == Place(ms, id) - 1
             h == SubSeq(ms, 1, n)
  <2>1. n \in 0..Len(ms) /\ Len(ms) \in Nat /\ DOMAIN ms = 1..Len(ms)
    BY <1>2, PlaceIs, LenProperties
  <2>2. h \in Seq(Message) /\ Len(h) = n /\ DOMAIN h = 1..n /\ \A i \in 1..n : h[i] = ms[i]
    BY <2>1, SubSeqProperties, LenProperties
  <2>3. Before(ms, id) = h
    BY <1>2 DEF Before
  <2> HIDE DEF h, n
  <2>4. \A i \in DOMAIN h : i \in DOMAIN ms /\ h[i] = ms[i]
    BY <2>1, <2>2
  <2> QED BY <2>2, <2>3, <2>4 DEF Known, KnownTo, HasResumable
<1> QED BY <1>1, <1>2

LEMMA PutTyped ==
  ASSUME NEW ms \in Seq(Message), NEW m \in Message
  PROVE /\ Put(ms, m) \in Seq(Message)
        /\ Known(ms) /\ m.id < nextId => Known(Put(ms, m))
        /\ IsResumable(m) => HasResumable(Put(ms, m))
        /\ HasResumable(Put(ms, m)) => HasResumable(ms) \/ IsResumable(m)
<1>0. Len(ms) \in Nat /\ DOMAIN ms = 1..Len(ms)
  BY LenProperties
<1>1. CASE Has(ms, m.id)
  <2> DEFINE p == Place(ms, m.id)
             h == Put(ms, m)
  <2>1. p \in DOMAIN ms /\ ms[p].id = m.id
    BY <1>1, PlaceIs
  <2>2. h = [ms EXCEPT ![p] = m]
    BY <1>1 DEF Put
  <2>3. h \in Seq(Message) /\ DOMAIN h = DOMAIN ms /\ h[p] = m
        /\ \A i \in DOMAIN ms : i # p => h[i] = ms[i]
    BY <1>0, <2>1, <2>2, ExceptSeq
  <2> HIDE DEF p, h
  <2>4. \A i \in DOMAIN ms : h[i].id = ms[i].id
    BY <2>1, <2>3
  <2>5. Known(ms) /\ m.id < nextId => Known(h)
    BY <2>3, <2>4 DEF Known, KnownTo
  <2>6. IsResumable(m) => HasResumable(h)
    BY <2>1, <2>3 DEF HasResumable
  <2>7. HasResumable(h) => HasResumable(ms) \/ IsResumable(m)
    BY <2>1, <2>3 DEF HasResumable
  <2> QED BY <2>3, <2>5, <2>6, <2>7 DEF h
<1>2. CASE ~Has(ms, m.id)
  <2> DEFINE h == Append(ms, m)
             n == Len(ms) + 1
  <2>1. Put(ms, m) = h
    BY <1>2 DEF Put
  <2>2. h \in Seq(Message) /\ DOMAIN h = 1..n /\ h[n] = m /\ \A i \in 1..Len(ms) : h[i] = ms[i]
    BY AppendProperties, LenProperties
  <2> HIDE DEF h
  <2>3. ASSUME Known(ms), m.id < nextId PROVE Known(h)
    <3>1. ASSUME NEW i \in 1..n PROVE h[i].id < nextId
      BY <1>0, <2>2, <2>3 DEF Known, KnownTo
    <3>2. ASSUME NEW i \in 1..n, NEW j \in 1..n, h[i].id = h[j].id PROVE i = j
      <4>1. \A k \in 1..Len(ms) : h[k].id # m.id
        BY <1>0, <1>2, <2>2 DEF Has
      <4>2. CASE i = n \/ j = n
        BY <1>0, <2>2, <3>2, <4>1, <4>2
      <4>3. CASE i # n /\ j # n
        <5>1. i \in 1..Len(ms) /\ j \in 1..Len(ms)
          BY <1>0, <4>3
        <5> QED BY <1>0, <2>2, <2>3, <3>2, <5>1 DEF Known, KnownTo
      <4> QED BY <4>2, <4>3
    <3> QED BY <2>2, <3>1, <3>2 DEF Known, KnownTo
  <2>4. IsResumable(m) => HasResumable(h)
    BY <1>0, <2>2 DEF HasResumable
  <2>5. HasResumable(h) => HasResumable(ms) \/ IsResumable(m)
    BY <1>0, <2>2 DEF HasResumable
  <2> QED BY <2>1, <2>2, <2>3, <2>4, <2>5
<1> QED BY <1>1, <1>2

\* The kinds of line.
LEMMA LineIs ==
  ASSUME NEW line \in Line
  PROVE /\ line.what \in {"header", "update", "garbage", "message", "rewind", "checkpoint"}
        /\ line.what = "message" => line.message \in Message
        /\ line.what = "checkpoint" => line.messages \in Seq(Message)
<1>1. CASE line \in [what: {"header", "update", "garbage"}]
  BY <1>1
<1>2. CASE line \in [what: {"message"}, message: Message]
  BY <1>2
<1>3. CASE line \in [what: {"rewind"}, to: 1..MaxMessages]
  BY <1>3
<1>4. CASE line \in [what: {"checkpoint"}, messages: Seq(Message)]
  BY <1>4
<1> QED BY <1>1, <1>2, <1>3, <1>4 DEF Line

LEMMA LinesTyped ==
  /\ Header \in Line /\ Update \in Line /\ Garbage \in Line
  /\ \A m \in Message : MessageLine(m) \in Line
  /\ \A id \in 1..MaxMessages : RewindLine(id) \in Line
  /\ \A ms \in Seq(Message) : Checkpoint(ms) \in Line
BY DEF Line, Header, Update, Garbage, MessageLine, RewindLine, Checkpoint

\* What is read is messages of known ids.
Readable(read) ==
  /\ read = [header |-> read.header, messages |-> read.messages]
  /\ read.header \in BOOLEAN /\ read.messages \in Seq(Message) /\ Known(read.messages)

LEMMA ReadTyped ==
  ASSUME NEW read, Readable(read), NEW line \in Line, KnownLine(line)
  PROVE /\ Readable(Read(read, line))
        /\ Read(read, line).messages = Follows(read.messages, line)
        /\ read.header \/ line.what = "header" => Read(read, line).header
        /\ line.what # "header" => Read(read, line).header = read.header
<1> DEFINE h == read.header
           ms == read.messages
<1>1. read = [header |-> h, messages |-> ms] /\ h \in BOOLEAN /\ ms \in Seq(Message) /\ Known(ms)
  BY DEF Readable
<1> HIDE DEF h, ms
<1>2. read.messages = ms /\ read.header = h
  BY <1>1
<1>3. CASE line.what = "header"
  BY <1>1, <1>3 DEF Read, Readable, Follows
<1>4. CASE line.what = "message"
  <2>1. Put(ms, line.message) \in Seq(Message) /\ Known(Put(ms, line.message))
    BY <1>1, <1>4, LineIs, PutTyped DEF KnownLine, LineKnownTo, Known
  <2> QED BY <1>1, <1>4, <2>1 DEF Read, Readable, Follows
<1>5. CASE line.what = "rewind"
  <2>1. Before(ms, line.to) \in Seq(Message) /\ Known(Before(ms, line.to))
    BY <1>1, BeforeTyped
  <2> QED BY <1>1, <1>5, <2>1 DEF Read, Readable, Follows
<1>6. CASE line.what = "checkpoint"
  <2>1. line.messages \in Seq(Message) /\ Known(line.messages)
    BY <1>6, LineIs DEF KnownLine, LineKnownTo, Known
  <2> QED BY <1>1, <1>6, <2>1 DEF Read, Readable, Follows
<1>7. CASE line.what \in {"update", "garbage"}
  BY <1>1, <1>7 DEF Read, Readable, Follows
<1> QED BY <1>3, <1>4, <1>5, <1>6, <1>7, LineIs

(***************************************************************************)
(* What a file of any length reads as.                                     *)
(***************************************************************************)
LEMMA ReadsStep ==
  ASSUME NEW f, NEW lines, NEW k \in Nat, Reads(f, lines, k)
  PROVE f[0] = Nothing /\ \A n \in 1..k : f[n] = Read(f[n - 1], lines[n])
BY DEF Reads

LEMMA NothingReadable == Readable(Nothing)
<1>1. <<>> \in Seq(Message) /\ DOMAIN <<>> = {}
  BY EmptySeq
<1> QED BY <1>1 DEF Readable, Nothing, Known, KnownTo

LEMMA LoadReadable ==
  ASSUME NEW lines \in Seq(Line), \A i \in DOMAIN lines : KnownLine(lines[i])
  PROVE Readable(Load(lines))
<1> DEFINE k == Len(lines)
<1>1. k \in Nat /\ DOMAIN lines = 1..k /\ \A i \in 1..k : lines[i] \in Line
  BY LenProperties, ElementOfSeq
<1>2. PICK f : Reads(f, lines, k) /\ Load(lines) = f[k]
  BY <1>1, LoadReads
<1> HIDE DEF k
<1> DEFINE S == {n \in Nat : n <= k => Readable(f[n])}
<1>3. 0 \in S
  BY <1>1, <1>2, ReadsStep, NothingReadable
<1>4. ASSUME NEW n \in Nat, n \in S PROVE n + 1 \in S
  <2> SUFFICES ASSUME n + 1 <= k PROVE Readable(f[n + 1])
    OBVIOUS
  <2>1. n + 1 \in 1..k /\ Readable(f[n])
    BY <1>1, <1>4
  <2>2. f[n + 1] = Read(f[n], lines[n + 1])
    BY <1>1, <1>2, <2>1, ReadsStep
  <2>3. lines[n + 1] \in Line /\ KnownLine(lines[n + 1])
    BY <1>1, <2>1
  <2> QED BY <2>1, <2>2, <2>3, ReadTyped
<1> HIDE DEF S
<1>5. \A n \in Nat : n \in S
  BY <1>3, <1>4, Induct
<1> QED BY <1>1, <1>2, <1>5 DEF S

LEMMA LoadHeader ==
  ASSUME NEW lines \in Seq(Line), \A i \in DOMAIN lines : KnownLine(lines[i]),
         lines # <<>>, lines[1] = Header
  PROVE Load(lines).header
<1> DEFINE k == Len(lines)
<1>1. k \in Nat /\ DOMAIN lines = 1..k /\ k # 0 /\ \A i \in 1..k : lines[i] \in Line
  BY LenProperties, ElementOfSeq, EmptySeq
<1>2. PICK f : Reads(f, lines, k) /\ Load(lines) = f[k]
  BY <1>1, LoadReads
<1> HIDE DEF k
<1> DEFINE S == {n \in Nat : n + 1 <= k => Readable(f[n + 1]) /\ f[n + 1].header}
<1>3. 0 \in S
  <2>1. f[1] = Read(Nothing, lines[1])
    BY <1>1, <1>2, ReadsStep
  <2>2. lines[1].what = "header" /\ lines[1] \in Line /\ KnownLine(lines[1])
    BY <1>1 DEF Header
  <2>3. Readable(f[1]) /\ f[1].header
    BY <2>1, <2>2, ReadTyped, NothingReadable
  <2> QED BY <2>3
<1>4. ASSUME NEW n \in Nat, n \in S PROVE n + 1 \in S
  <2> SUFFICES ASSUME n + 2 <= k PROVE Readable(f[n + 2]) /\ f[n + 2].header
    OBVIOUS
  <2>1. n + 2 \in 1..k /\ n + 2 - 1 = n + 1 /\ Readable(f[n + 1]) /\ f[n + 1].header
    BY <1>1, <1>4
  <2>2. f[n + 2] = Read(f[n + 1], lines[n + 2])
    BY <1>1, <1>2, <2>1, ReadsStep
  <2>3. lines[n + 2] \in Line /\ KnownLine(lines[n + 2])
    BY <1>1, <2>1
  <2> QED BY <2>1, <2>2, <2>3, ReadTyped
<1> HIDE DEF S
<1>5. \A n \in Nat : n \in S
  BY <1>3, <1>4, Induct
<1>6. k - 1 \in Nat /\ (k - 1) + 1 = k
  BY <1>1
<1> QED BY <1>2, <1>5, <1>6 DEF S

\* The lines of such a file.
LEMMA ReadPlain ==
  ASSUME NEW b, NEW g, NEW m
  PROVE /\ Read([header |-> b, messages |-> g], Header) = [header |-> TRUE, messages |-> g]
        /\ Read([header |-> b, messages |-> g], MessageLine(m)) =
             [header |-> b, messages |-> Put(g, m)]
<1> DEFINE r == [header |-> b, messages |-> g]
<1>1. Header.what = "header"
  BY DEF Header
<1>2. MessageLine(m).what = "message" /\ MessageLine(m).message = m
  BY DEF MessageLine
<1>3. Read(r, Header) = [r EXCEPT !.header = TRUE]
  BY <1>1 DEF Read
<1>4. Read(r, MessageLine(m)) = [r EXCEPT !.messages = Put(g, m)]
  BY <1>2 DEF Read
<1> QED BY <1>3, <1>4

\* A file written anew reads as the messages it was written from.
LEMMA AnewTyped ==
  ASSUME NEW ms \in Seq(Message)
  PROVE LET h == Rewrite(ms).lines IN
        /\ h \in Seq(Line) /\ Len(h) = Len(ms) + 1 /\ h[1] = Header
        /\ \A i \in 1..Len(ms) : h[i + 1] = MessageLine(ms[i])
<1> DEFINE t == [i \in DOMAIN ms |-> MessageLine(ms[i])]
           k == Len(ms)
<1>1. k \in Nat /\ DOMAIN ms = 1..k /\ \A i \in 1..k : ms[i] \in Message
  BY LenProperties, ElementOfSeq
<1>2. \A i \in 1..k : MessageLine(ms[i]) \in Line
  BY <1>1, LinesTyped
<1>3. t = [i \in 1..k |-> MessageLine(ms[i])]
  BY <1>1
<1>4. t \in Seq(Line) /\ Len(t) = k /\ \A i \in 1..k : t[i] = MessageLine(ms[i])
  <2>1. t \in [1..k -> Line] /\ DOMAIN t = 1..k
    BY <1>2, <1>3
  <2> QED BY <1>1, <1>3, <2>1, IsASeq, LenProperties
<1> HIDE DEF t, k
<1>5. Rewrite(ms).lines = <<Header>> \o t
  BY DEF Rewrite, t
<1>6. <<Header>> \in Seq(Line) /\ Len(<<Header>>) = 1 /\ <<Header>>[1] = Header
  BY LinesTyped
<1>7. /\ <<Header>> \o t \in Seq(Line) /\ Len(<<Header>> \o t) = k + 1
      /\ (<<Header>> \o t)[1] = Header
      /\ \A i \in 1..k : (<<Header>> \o t)[i + 1] = t[i]
  <2>1. /\ <<Header>> \o t \in Seq(Line) /\ Len(<<Header>> \o t) = 1 + k
        /\ \A i \in 1..(1 + k) :
             (<<Header>> \o t)[i] = IF i <= 1 THEN <<Header>>[i] ELSE t[i - 1]
    BY <1>4, <1>6, ConcatProperties
  <2> QED BY <1>1, <1>6, <2>1
<1> QED BY <1>1, <1>4, <1>5, <1>7 DEF k

LEMMA LoadAnew ==
  ASSUME NEW ms \in Seq(Message), Known(ms)
  PROVE Load(Rewrite(ms).lines).header /\ Load(Rewrite(ms).lines).messages = ms
<1> DEFINE h == Rewrite(ms).lines
           k == Len(ms)
<1>1. /\ h \in Seq(Line) /\ Len(h) = k + 1 /\ h[1] = Header
      /\ k \in Nat /\ DOMAIN ms = 1..k /\ \A i \in 1..k : ms[i] \in Message
      /\ \A i \in 1..k : h[i + 1] = MessageLine(ms[i])
  BY AnewTyped, LenProperties, ElementOfSeq
<1> HIDE DEF h, k
<1>2. PICK f : Reads(f, h, k + 1) /\ Load(h) = f[k + 1]
  BY <1>1, LoadReads
<1> DEFINE S == {n \in Nat : n <= k => f[n + 1] = [header |-> TRUE, messages |-> SubSeq(ms, 1, n)]}
<1>3. 0 \in S
  <2>1. f[1] = Read(Nothing, Header)
    BY <1>1, <1>2, ReadsStep
  <2>2. SubSeq(ms, 1, 0) = <<>>
    BY SubSeqEmpty
  <2>3. f[1] = [header |-> TRUE, messages |-> <<>>]
    BY <2>1, ReadPlain DEF Nothing
  <2>4. f[0 + 1] = [header |-> TRUE, messages |-> SubSeq(ms, 1, 0)]
    <3>1. 0 + 1 = 1
      OBVIOUS
    <3> QED BY <2>2, <2>3, <3>1, Zenon
  <2> QED BY <2>4
<1>4. ASSUME NEW n \in Nat, n \in S PROVE n + 1 \in S
  <2> SUFFICES ASSUME n + 1 <= k
               PROVE f[n + 2] = [header |-> TRUE, messages |-> SubSeq(ms, 1, n + 1)]
    OBVIOUS
  <2> DEFINE g == SubSeq(ms, 1, n)
             m == ms[n + 1]
  <2>1. f[n + 1] = [header |-> TRUE, messages |-> g]
    BY <1>1, <1>4
  <2>2. f[n + 2] = Read(f[n + 1], h[n + 2])
    <3>1. k + 1 \in Nat /\ n + 2 \in 1..(k + 1) /\ (n + 2) - 1 = n + 1
      BY <1>1
    <3>2. \A i \in 1..(k + 1) : f[i] = Read(f[i - 1], h[i])
      BY <1>2, <3>1, ReadsStep
    <3> QED BY <3>1, <3>2
  <2>3. h[n + 2] = MessageLine(m)
    BY <1>1
  <2>4. g \in Seq(Message) /\ DOMAIN g = 1..n /\ \A i \in 1..n : g[i] = ms[i]
    <3>1. g \in Seq(Message) /\ Len(g) = n /\ \A i \in 1..n : g[i] = ms[i]
      BY <1>1, SubSeqProperties DEF k
    <3> QED BY <3>1, LenProperties
  <2>5. ~Has(g, m.id)
    <3>1. \A i \in 1..n : ms[i].id # ms[n + 1].id
      <4>1. \A i \in 1..n : i \in 1..k /\ n + 1 \in 1..k /\ i # n + 1
        BY <1>1
      <4> QED BY <1>1, <4>1 DEF Known, KnownTo
    <3> QED BY <2>4, <3>1 DEF Has
  <2>6. Append(g, m) = SubSeq(ms, 1, n + 1)
    BY <1>1, SubSeqRecursiveSecond DEF k
  <2> HIDE DEF g, m
  <2>7. Read(f[n + 1], h[n + 2]) = [header |-> TRUE, messages |-> Put(g, m)]
    BY <2>1, <2>3, ReadPlain
  <2>8. Put(g, m) = Append(g, m)
    BY <2>5 DEF Put
  <2> QED BY <2>2, <2>6, <2>7, <2>8
<1> HIDE DEF S
<1>5. \A n \in Nat : n \in S
  BY <1>3, <1>4, Induct
<1>6. SubSeq(ms, 1, k) = ms
  BY SubSeqFull DEF k
<1>7. f[k + 1] = [header |-> TRUE, messages |-> ms]
  BY <1>1, <1>5, <1>6 DEF S
<1> QED BY <1>2, <1>7 DEF h

(***************************************************************************)
(* The writes of an operation.                                             *)
(***************************************************************************)
LEMMA StepIs ==
  ASSUME NEW step \in Step
  PROVE /\ step.do \in {"flush", "append", "rewrite"} /\ step.ahead \in BOOLEAN
        /\ step.do = "append" => step.line \in Line
        /\ step.do = "rewrite" => step.lines \in Seq(Line)
        /\ step.do # "append" => ~step.ahead
<1>1. CASE step \in [do: {"flush"}, ahead: {FALSE}]
  BY <1>1
<1>2. CASE step \in [do: {"append"}, ahead: BOOLEAN, line: Line]
  BY <1>2
<1>3. CASE step \in [do: {"rewrite"}, ahead: {FALSE}, lines: Seq(Line)]
  BY <1>3
<1> QED BY <1>1, <1>2, <1>3 DEF Step

LEMMA FlushIs == Flush \in Step /\ Flush.do = "flush" /\ ~Flush.ahead /\ ~Worth(Flush)
BY DEF Flush, Step, Worth

LEMMA WriteIs ==
  ASSUME NEW line \in Line
  PROVE /\ Write(line) \in Step /\ Write(line).do = "append"
        /\ ~Write(line).ahead /\ Write(line).line = line
        /\ Ahead(line) \in Step /\ Ahead(line).do = "append"
        /\ Ahead(line).ahead /\ Ahead(line).line = line
<1>1. /\ Write(line) = [do |-> "append", line |-> line, ahead |-> FALSE]
      /\ Ahead(line) = [do |-> "append", line |-> line, ahead |-> TRUE]
  BY DEF Write, Ahead
<1>2. /\ [do |-> "append", line |-> line, ahead |-> FALSE] \in Step
      /\ [do |-> "append", line |-> line, ahead |-> TRUE] \in Step
  BY DEF Step
<1> QED BY <1>1, <1>2

LEMMA RewriteIs ==
  ASSUME NEW ms \in Seq(Message)
  PROVE /\ Rewrite(ms) \in Step /\ Rewrite(ms).do = "rewrite" /\ ~Rewrite(ms).ahead
        /\ ~Worth(Rewrite(ms))
<1> DEFINE h == Rewrite(ms).lines
<1>1. h \in Seq(Line)
  BY AnewTyped
<1>2. Rewrite(ms) = [do |-> "rewrite", ahead |-> FALSE, lines |-> h]
  BY DEF Rewrite
<1> HIDE DEF h
<1>3. [do |-> "rewrite", ahead |-> FALSE, lines |-> h] \in Step
  BY <1>1 DEF Step
<1> QED BY <1>2, <1>3 DEF Worth

\* What is left when the first write is done.
LEMMA Rest ==
  ASSUME NEW w \in Seq(Step), w # <<>>
  PROVE /\ Len(w) \in Nat \ {0} /\ DOMAIN w = 1..Len(w) /\ Head(w) = w[1] /\ w[1] \in Step
        /\ Last(w) = w[Len(w)]
        /\ Tail(w) \in Seq(Step) /\ Len(Tail(w)) = Len(w) - 1
        /\ DOMAIN Tail(w) = 1..(Len(w) - 1)
        /\ \A i \in DOMAIN Tail(w) : i + 1 \in DOMAIN w /\ Tail(w)[i] = w[i + 1]
        /\ (Len(w) = 1) <=> (Tail(w) = <<>>)
        /\ Tail(w) # <<>> => Last(Tail(w)) = Last(w) /\ Head(Tail(w)) = w[2]
<1>1. Len(w) \in Nat \ {0} /\ DOMAIN w = 1..Len(w)
  BY LenProperties, EmptySeq
<1>2. Head(w) = w[1] /\ w[1] \in Step /\ Last(w) = w[Len(w)]
  BY <1>1, ElementOfSeq DEF Last
<1>3. /\ Tail(w) \in Seq(Step) /\ Len(Tail(w)) = Len(w) - 1
      /\ \A i \in 1..Len(Tail(w)) : Tail(w)[i] = w[i + 1]
  BY HeadTailProperties
<1>4. DOMAIN Tail(w) = 1..(Len(w) - 1)
  BY <1>3, LenProperties
<1>5. (Len(w) = 1) <=> (Tail(w) = <<>>)
  <2>1. Tail(w) = <<>> => Len(w) = 1
    <3>1. Len(<<>>) = 0
      OBVIOUS
    <3>2. Tail(w) = <<>> => Len(Tail(w)) = 0
      BY <3>1, Zenon
    <3>3. Len(Tail(w)) = Len(w) - 1
      BY <1>3
    <3> QED BY <1>1, <3>2, <3>3
  <2>2. Tail(w) # <<>> => Len(Tail(w)) \in Nat \ {0}
    BY <1>3, EmptySeq
  <2> QED BY <1>1, <1>3, <2>1, <2>2
<1>6. ASSUME Tail(w) # <<>>
      PROVE Last(Tail(w)) = Last(w) /\ Head(Tail(w)) = w[2]
  <2>1. Len(w) - 1 \in 1..(Len(w) - 1) /\ 1 \in 1..(Len(w) - 1)
    BY <1>1, <1>5, <1>6
  <2>2. Last(Tail(w)) = Tail(w)[Len(w) - 1] /\ Head(Tail(w)) = Tail(w)[1]
    BY <1>3, <1>6 DEF Last
  <2>3. Tail(w)[Len(w) - 1] = w[(Len(w) - 1) + 1] /\ Tail(w)[1] = w[1 + 1]
    BY <1>3, <2>1
  <2>4. (Len(w) - 1) + 1 = Len(w) /\ 1 + 1 = 2
    BY <1>1
  <2> QED BY <1>2, <2>2, <2>3, <2>4
<1>7. \A i \in DOMAIN Tail(w) : i + 1 \in DOMAIN w /\ Tail(w)[i] = w[i + 1]
  BY <1>1, <1>3, <1>4
<1> QED BY <1>1, <1>2, <1>3, <1>4, <1>5, <1>6, <1>7

\* Lines that are added.
LEMMA LinesAdded ==
  ASSUME NEW a \in Seq(Line), NEW b \in Seq(Line),
         \A i \in DOMAIN a : KnownLine(a[i]), \A i \in DOMAIN b : KnownLine(b[i])
  PROVE /\ a \o b \in Seq(Line) /\ \A i \in DOMAIN (a \o b) : KnownLine((a \o b)[i])
        /\ a # <<>> => a \o b # <<>> /\ (a \o b)[1] = a[1]
        /\ b # <<>> => a \o b # <<>>
<1> DEFINE c == a \o b
<1>1. /\ c \in Seq(Line) /\ Len(c) = Len(a) + Len(b)
      /\ \A i \in 1..(Len(a) + Len(b)) : c[i] = IF i <= Len(a) THEN a[i] ELSE b[i - Len(a)]
  BY ConcatProperties
<1> HIDE DEF c
<1>2. /\ Len(a) \in Nat /\ Len(b) \in Nat
      /\ DOMAIN a = 1..Len(a) /\ DOMAIN b = 1..Len(b) /\ DOMAIN c = 1..Len(c)
  BY <1>1, LenProperties
<1>3. ASSUME NEW i \in DOMAIN c PROVE KnownLine(c[i])
  <2>1. CASE i <= Len(a)
    BY <1>1, <1>2, <2>1
  <2>2. CASE ~(i <= Len(a))
    <3>1. c[i] = b[i - Len(a)] /\ i - Len(a) \in 1..Len(b)
      BY <1>1, <1>2, <2>2
    <3> QED BY <1>2, <3>1
  <2> QED BY <2>1, <2>2
<1>4. (a # <<>> => Len(a) # 0) /\ (b # <<>> => Len(b) # 0) /\ (c = <<>> => Len(c) = 0)
  BY EmptySeq
<1>5. a # <<>> => c # <<>> /\ c[1] = a[1]
  BY <1>1, <1>2, <1>4
<1>6. b # <<>> => c # <<>>
  BY <1>1, <1>2, <1>4
<1> QED BY <1>1, <1>3, <1>5, <1>6 DEF c

LEMMA LineAdded ==
  ASSUME NEW a \in Seq(Line), NEW line \in Line,
         \A i \in DOMAIN a : KnownLine(a[i]), KnownLine(line)
  PROVE /\ Append(a, line) \in Seq(Line) /\ Append(a, line) # <<>>
        /\ \A i \in DOMAIN Append(a, line) : KnownLine(Append(a, line)[i])
        /\ a \o <<line>> = Append(a, line)
        /\ Last(Append(a, line)) = line
        /\ Load(Append(a, line)) = Read(Load(a), line)
<1> DEFINE c == Append(a, line)
<1>1. /\ c \in Seq(Line) /\ c # <<>> /\ Len(c) = Len(a) + 1
      /\ \A i \in 1..Len(a) : c[i] = a[i]
      /\ c[Len(a) + 1] = line
  BY AppendProperties
<1>2. Load(c) = Read(Load(a), line)
  BY LoadAppend
<1>3. a \o <<line>> = c
  BY AppendIsConcat
<1> HIDE DEF c
<1>4. Len(a) \in Nat /\ DOMAIN a = 1..Len(a) /\ DOMAIN c = 1..Len(c)
  BY <1>1, LenProperties
<1>5. \A i \in DOMAIN c : KnownLine(c[i])
  BY <1>1, <1>4
<1>6. Last(c) = line
  BY <1>1 DEF Last
<1> QED BY <1>1, <1>2, <1>3, <1>5, <1>6 DEF c

(***************************************************************************)
(* The histories the recording is compared with have messages of known ids *)
(* and at most the next one, which is then of something that was sent or,  *)
(* at the start, of context.                                               *)
(***************************************************************************)
Given(ms) == IF UsesId(ms) THEN nextId + 1 ELSE nextId

\* A part of the messages.
LEMMA PartKnown ==
  ASSUME NEW ms \in Seq(Message), Known(ms), NEW i \in 1..(Len(ms) + 1), NEW j \in 0..Len(ms)
  PROVE LET h == SubSeq(ms, i, j) IN
        h \in Seq(Message) /\ DOMAIN h = 1..Len(h) /\ Known(h) /\ \A k \in DOMAIN h : h[k].id < nextId
<1> DEFINE h == SubSeq(ms, i, j)
           n == IF i <= j THEN j - i + 1 ELSE 0
<1>1. Len(ms) \in Nat /\ DOMAIN ms = 1..Len(ms) /\ \A k \in i..j : k \in 1..Len(ms) /\ ms[k] \in Message
  BY LenProperties, ElementOfSeq
<1>2. h \in Seq(Message) /\ Len(h) = n /\ \A k \in 1..(j - i + 1) : h[k] = ms[i + k - 1]
  BY <1>1, SubSeqProperties
<1> HIDE DEF h
<1>3. DOMAIN h = 1..Len(h)
  BY <1>2, LenProperties
<1>4. \A k \in 1..Len(h) : h[k] = ms[i + k - 1] /\ i + k - 1 \in DOMAIN ms
  BY <1>1, <1>2
<1>5. \A k \in DOMAIN h : h[k].id < nextId
  BY <1>3, <1>4 DEF Known, KnownTo
<1>6. \A k, l \in DOMAIN h : h[k].id = h[l].id => k = l
  <2> SUFFICES ASSUME NEW k \in 1..Len(h), NEW l \in 1..Len(h), h[k].id = h[l].id PROVE k = l
    BY <1>3
  <2>1. i + k - 1 = i + l - 1
    <3> DEFINE a == i + k - 1
               b == i + l - 1
    <3>1. a \in DOMAIN ms /\ b \in DOMAIN ms /\ ms[a].id = ms[b].id
      BY <1>4
    <3> HIDE DEF a, b
    <3>2. a = b
      BY <3>1 DEF Known, KnownTo
    <3> QED BY <3>2 DEF a, b
  <2>2. Len(h) \in Nat
    BY <1>2, LenProperties
  <2> QED BY <2>1, <2>2
<1> QED BY <1>2, <1>3, <1>5, <1>6 DEF h, Known, KnownTo

LEMMA HistoriesTyped ==
  ASSUME TypeOK, Known(messages), NEW ms \in Histories
  PROVE /\ ms \in Seq(Message) /\ KnownTo(ms, Given(ms))
        /\ UsesId(ms) => nextId <= MaxMessages /\ (messages # <<>> => HasResumable(ms))
        /\ Given(ms) \in 1..(MaxMessages + 1) /\ nextId <= Given(ms)
<1> DEFINE new(kind) == [id |-> nextId, kind |-> kind, more |-> FALSE]
<1>1. messages \in Seq(Message) /\ nextId \in 1..(MaxMessages + 1) /\ MaxMessages \in Nat
  BY RecordingAssumption DEF TypeOK
<1>2. Len(messages) \in Nat
  BY <1>1, LenProperties
<1>3. nextId <= MaxMessages => \A kind \in Kinds : new(kind) \in Message
  BY <1>1 DEF Message, Kinds
<1>4. CASE \E i \in 0..Len(messages) : ms = SubSeq(messages, 1, i)
  <2>1. PICK i \in 0..Len(messages) : ms = SubSeq(messages, 1, i)
    BY <1>4
  <2>2. ms \in Seq(Message) /\ Known(ms) /\ \A k \in DOMAIN ms : ms[k].id < nextId
    BY <1>1, <1>2, <2>1, PartKnown
  <2>3. ~UsesId(ms)
    BY <1>1, <2>2 DEF UsesId, Has
  <2> QED BY <1>1, <2>2, <2>3 DEF Given, Known
<1>5. CASE nextId <= MaxMessages /\ messages = <<>> /\ ms = <<new("context")>>
  <2>1. ms \in Seq(Message) /\ DOMAIN ms = {1} /\ ms[1] = new("context")
    BY <1>3, <1>5 DEF Kinds
  <2>2. ms[1].id = nextId
    BY <2>1
  <2> HIDE DEF new
  <2>3. UsesId(ms)
    BY <2>1, <2>2 DEF UsesId, Has
  <2>4. Given(ms) = nextId + 1
    BY <2>3 DEF Given
  <2>5. KnownTo(ms, nextId + 1)
    BY <1>1, <2>1, <2>2 DEF KnownTo
  <2> QED BY <1>1, <1>5, <2>1, <2>4, <2>5
<1>6. CASE /\ nextId <= MaxMessages
           /\ \E i \in 2..(Len(messages) + 1) :
                ms = <<new("user")>> \o SubSeq(messages, i, Len(messages))
  <2>1. PICK i \in 2..(Len(messages) + 1) :
          ms = <<new("user")>> \o SubSeq(messages, i, Len(messages))
    BY <1>6
  <2> DEFINE h == SubSeq(messages, i, Len(messages))
             u == new("user")
  <2>2. i \in 1..(Len(messages) + 1) /\ Len(messages) \in 0..Len(messages)
    BY <1>2
  <2>3. /\ h \in Seq(Message) /\ DOMAIN h = 1..Len(h) /\ Len(h) \in Nat /\ Known(h)
        /\ \A k \in DOMAIN h : h[k].id < nextId
    BY <1>1, <2>2, PartKnown, LenProperties
  <2>4. u \in Message /\ u.id = nextId /\ IsResumable(u)
    BY <1>3, <1>6 DEF Kinds, IsResumable
  <2> HIDE DEF h, u, new
  <2>5. <<u>> \in Seq(Message) /\ Len(<<u>>) = 1 /\ <<u>>[1] = u
    BY <2>4
  <2>6. /\ ms \in Seq(Message) /\ Len(ms) = 1 + Len(h)
        /\ \A k \in 1..(1 + Len(h)) : ms[k] = IF k <= 1 THEN <<u>>[k] ELSE h[k - 1]
    BY <2>1, <2>3, <2>5, ConcatProperties DEF u, h
  <2>7. DOMAIN ms = 1..(1 + Len(h)) /\ ms[1] = u
    BY <2>3, <2>5, <2>6, LenProperties
  <2>8. \A k \in 1..(1 + Len(h)) : k # 1 => k - 1 \in DOMAIN h /\ ms[k] = h[k - 1]
    BY <2>3, <2>6
  <2>9. UsesId(ms) /\ HasResumable(ms)
    BY <2>3, <2>4, <2>7 DEF UsesId, Has, HasResumable
  <2>10. Given(ms) = nextId + 1
    BY <2>9 DEF Given
  <2>11. \A k \in DOMAIN ms : ms[k].id < nextId + 1
    <3> SUFFICES ASSUME NEW k \in 1..(1 + Len(h)) PROVE ms[k].id < nextId + 1
      BY <2>7
    <3>1. CASE k = 1
      BY <1>1, <2>4, <2>7, <3>1
    <3>2. CASE k # 1
      <4>1. ms[k] = h[k - 1] /\ h[k - 1].id < nextId /\ h[k - 1] \in Message
        <5>1. k - 1 \in DOMAIN h /\ ms[k] = h[k - 1]
          BY <2>8, <3>2
        <5> QED BY <2>3, <5>1, ElementOfSeq
      <4>2. h[k - 1].id \in Int
        BY <4>1 DEF Message
      <4> QED BY <1>1, <4>1, <4>2
    <3> QED BY <3>1, <3>2
  <2>12. \A k, l \in DOMAIN ms : ms[k].id = ms[l].id => k = l
    <3> SUFFICES ASSUME NEW k \in 1..(1 + Len(h)), NEW l \in 1..(1 + Len(h)), ms[k].id = ms[l].id
                 PROVE k = l
      BY <2>7
    <3>1. \A n \in 1..(1 + Len(h)) : n # 1 => ms[n].id # nextId
      <4> SUFFICES ASSUME NEW n \in 1..(1 + Len(h)), n # 1 PROVE ms[n].id # nextId
        OBVIOUS
      <4>1. ms[n].id < nextId
        BY <2>3, <2>8
      <4> QED BY <1>1, <4>1
    <3>2. CASE k = 1 \/ l = 1
      BY <2>4, <2>7, <3>1, <3>2
    <3>3. CASE k # 1 /\ l # 1
      <4>1. h[k - 1].id = h[l - 1].id /\ k - 1 \in DOMAIN h /\ l - 1 \in DOMAIN h
        BY <2>8, <3>3
      <4>2. k - 1 = l - 1
        BY <2>3, <4>1 DEF Known, KnownTo
      <4> QED BY <2>3, <4>2
    <3> QED BY <3>2, <3>3
  <2>13. KnownTo(ms, nextId + 1)
    BY <2>11, <2>12 DEF KnownTo
  <2>14. nextId <= MaxMessages
    BY <1>6
  <2> QED BY <1>1, <2>6, <2>9, <2>10, <2>13, <2>14
<1>7. CASE nextId > MaxMessages
  BY <1>4, <1>7 DEF Histories
<1>8. CASE ~(nextId > MaxMessages) /\ messages = <<>>
  <2>1. \/ \E i \in 0..Len(messages) : ms = SubSeq(messages, 1, i)
        \/ ms = <<[id |-> nextId, kind |-> "context", more |-> FALSE]>>
    BY <1>8 DEF Histories
  <2>2. nextId <= MaxMessages
    BY <1>1, <1>8
  <2> QED BY <1>4, <1>5, <1>8, <2>1, <2>2
<1>9. CASE ~(nextId > MaxMessages) /\ messages # <<>>
  <2>1. \/ \E i \in 0..Len(messages) : ms = SubSeq(messages, 1, i)
        \/ \E i \in 2..(Len(messages) + 1) :
             ms = <<[id |-> nextId, kind |-> "user", more |-> FALSE]>>
                    \o SubSeq(messages, i, Len(messages))
    BY <1>9 DEF Histories
  <2>2. nextId <= MaxMessages
    BY <1>1, <1>9
  <2> QED BY <1>4, <1>6, <2>1, <2>2
<1> QED BY <1>7, <1>8, <1>9

(***************************************************************************)
(* The invariant.                                                          *)
(***************************************************************************)
RecordingInv == TypeOK /\ IdsInv /\ LazyInv /\ WritesInv /\ ReadInv

LEMMA KnownGrows ==
  ASSUME NEW n \in Nat, NEW m \in Nat, n <= m
  PROVE /\ \A ms \in Seq(Message) : KnownTo(ms, n) => KnownTo(ms, m)
        /\ \A line \in Line : LineKnownTo(line, n) => LineKnownTo(line, m)
<1>1. ASSUME NEW ms \in Seq(Message), KnownTo(ms, n) PROVE KnownTo(ms, m)
  <2>1. \A i \in DOMAIN ms : ms[i].id \in Int
    <3>1. DOMAIN ms = 1..Len(ms) /\ \A i \in 1..Len(ms) : ms[i] \in Message
      BY LenProperties, ElementOfSeq
    <3> QED BY <3>1 DEF Message
  <2> QED BY <1>1, <2>1 DEF KnownTo
<1>2. ASSUME NEW line \in Line, LineKnownTo(line, n) PROVE LineKnownTo(line, m)
  <2>1. line.what = "message" => line.message.id \in Int
    BY LineIs DEF Message
  <2>2. line.what = "checkpoint" => KnownTo(line.messages, m)
    BY <1>1, <1>2, LineIs DEF LineKnownTo
  <2> QED BY <1>2, <2>1, <2>2 DEF LineKnownTo
<1> QED BY <1>1, <1>2

\* The lines of a file stay known.
LEMMA LinesStayKnown ==
  ASSUME NEW n \in Nat, NEW m \in Nat, n <= m, NEW h \in Seq(Line),
         \A i \in DOMAIN h : LineKnownTo(h[i], n)
  PROVE \A i \in DOMAIN h : LineKnownTo(h[i], m)
<1>1. \A i \in DOMAIN h : h[i] \in Line
  BY LenProperties, ElementOfSeq
<1> QED BY <1>1, KnownGrows

\* What an operation may set out to write.
Planned(ms, w) ==
  /\ w # <<>> /\ (~Last(w).ahead => ms = messages)
  /\ \A i \in DOMAIN w :
       /\ w[i].ahead => /\ i = Len(w) /\ ms = Follows(messages, w[i].line)
                       /\ w[i].line.what # "header"
       /\ w[i].do = "append" /\ ~w[i].ahead =>
            ~Last(w).ahead /\ w[i].line.what \in {"message", "update"}
       /\ w[i].do = "rewrite" => i = 1 /\ w[i] = Rewrite(messages) /\ HasResumable(ms)
       /\ w[i].do = "flush" =>
            /\ \A j \in 1..(i - 1) : w[j].do = "rewrite"
            /\ HasResumable(ms) \/ \E j \in DOMAIN w : Worth(w[j])
  /\ lazy /\ Head(w).do = "append" /\ ~HasResumable(messages) =>
       ~HasResumable(ms) /\ \A i \in DOMAIN w : ~Worth(w[i])

LEMMA BeginKeeps ==
  ASSUME RecordingInv, Ready, Begin(messages', todo'), kept' = kept,
         messages' \in Seq(Message), KnownTo(messages', nextId'),
         nextId' \in 1..(MaxMessages + 1), nextId <= nextId',
         todo' \in Seq(Step), Planned(messages', todo'),
         \A i \in DOMAIN todo' : todo'[i].do = "append" => LineKnownTo(todo'[i].line, nextId')
  PROVE RecordingInv'
<1>1. /\ UNCHANGED <<file, torn, on, lazy, pending, deleting, up, faults, unsaved>>
      /\ ops' = ops + 1 /\ ops < MaxOps /\ up /\ on /\ todo = <<>> /\ kept' = messages
  <2>1. ~IsAhead
    BY DEF Ready, IsAhead
  <2>2. kept = messages
    BY <2>1 DEF RecordingInv, WritesInv, Ready
  <2> QED BY <2>2 DEF Begin, Ready, disk
<1>2. TypeOK'
  <2>1. \A i, j \in DOMAIN messages' : messages'[i].id = messages'[j].id => i = j
    BY DEF KnownTo
  <2>2. TypeOK
    BY DEF RecordingInv
  <2>3. messages \in Seq(Message) /\ ops + 1 \in 0..MaxOps
    BY <1>1, <2>2, RecordingAssumption DEF TypeOK
  <2>4. HasValidHeader' = HasValidHeader
    BY <1>1 DEF HasValidHeader
  <2> QED BY <1>1, <2>1, <2>2, <2>3, <2>4 DEF TypeOK
<1>3. IdsInv'
  <2>1. nextId \in Nat /\ nextId' \in Nat
    BY <1>1, RecordingAssumption DEF RecordingInv, TypeOK
  <2>2. /\ messages \in Seq(Message) /\ KnownTo(messages, nextId)
        /\ file \in Seq(Line) /\ pending \in Seq(Line)
        /\ \A i \in DOMAIN file : LineKnownTo(file[i], nextId)
        /\ \A i \in DOMAIN pending : LineKnownTo(pending[i], nextId)
    BY DEF RecordingInv, TypeOK, IdsInv, Known, KnownLine
  <2>3. /\ KnownTo(messages, nextId')
        /\ \A i \in DOMAIN file : LineKnownTo(file[i], nextId')
        /\ \A i \in DOMAIN pending : LineKnownTo(pending[i], nextId')
    BY <2>1, <2>2, KnownGrows, LinesStayKnown
  <2> QED BY <1>1, <2>3 DEF IdsInv, Known, KnownLine
<1>4. LazyInv'
  BY <1>1 DEF RecordingInv, LazyInv
<1>5. todo' # <<>> /\ (IsAhead' <=> Last(todo').ahead)
  BY DEF Planned, IsAhead
<1>6. WritesInv'
  <2>1. \A i \in DOMAIN todo' :
          /\ todo'[i].ahead => /\ i = Len(todo') /\ messages' = Follows(kept', todo'[i].line)
                              /\ todo'[i].line.what # "header"
          /\ todo'[i].do = "append" /\ ~todo'[i].ahead =>
               ~IsAhead' /\ todo'[i].line.what \in {"message", "update"}
          /\ todo'[i].do = "rewrite" =>
               i = 1 /\ todo'[i] = Rewrite(kept') /\ HasResumable(messages')
          /\ todo'[i].do = "flush" =>
               /\ \A j \in 1..(i - 1) : todo'[j].do = "rewrite"
               /\ HasResumable(messages') \/ \E j \in DOMAIN todo' : Worth(todo'[j])
    BY <1>1, <1>5 DEF Planned
  <2>2. ~IsAhead' => kept' = messages'
    BY <1>1, <1>5 DEF Planned
  <2> QED BY <2>1, <2>2 DEF WritesInv
<1>7. ReadInv'
  <2> SUFFICES ASSUME up', on', ~unsaved'
               PROVE /\ deleting' = "no" => Written'.header
                     /\ Written'.header =>
                          Written'.messages = IF IsAhead' THEN kept' ELSE messages'
                     /\ lazy' =>
                          /\ ~HasResumable(kept')
                          /\ todo' = <<>> \/ Head(todo').do = "append" =>
                               /\ ~HasResumable(messages')
                               /\ \A i \in DOMAIN todo' : ~Worth(todo'[i])
    BY DEF ReadInv
  <2>1. Written' = Written
    BY <1>1 DEF Written
  <2>2. /\ deleting = "no" => Written.header
        /\ Written.header => Written.messages = messages
        /\ lazy => ~HasResumable(messages)
    BY <1>1 DEF RecordingInv, ReadInv, IsAhead
  <2>3. ~IsAhead' => messages' = messages
    BY <1>5 DEF Planned
  <2>4. lazy' /\ (todo' = <<>> \/ Head(todo').do = "append") =>
                   /\ ~HasResumable(messages')
                   /\ \A i \in DOMAIN todo' : ~Worth(todo'[i])
    BY <1>1, <1>5, <2>2 DEF Planned
  <2> QED BY <1>1, <2>1, <2>2, <2>3, <2>4
<1> QED BY <1>2, <1>3, <1>4, <1>6, <1>7 DEF RecordingInv

(***************************************************************************)
(* The operations.                                                         *)
(***************************************************************************)
LEMMA FlushForIs ==
  ASSUME NEW ms
  PROVE /\ HasResumable(ms) => FlushFor(ms) = <<Flush>>
        /\ ~HasResumable(ms) => FlushFor(ms) = <<>>
BY DEF FlushFor

LEMMA Joined ==
  ASSUME NEW a \in Step, NEW b \in Step, NEW c \in Step
  PROVE /\ <<>> \o <<b>> = <<b>> /\ <<>> \o <<b, c>> = <<b, c>>
        /\ <<a>> \o <<b>> = <<a, b>> /\ <<a>> \o <<b, c>> = <<a, b, c>>
<1>1. /\ <<a>> \in Seq(Step) /\ <<b>> \in Seq(Step) /\ <<b, c>> \in Seq(Step)
      /\ <<a, b>> \in Seq(Step) /\ <<a, b, c>> \in Seq(Step)
  OBVIOUS
<1>2. <<>> \o <<b>> = <<b>> /\ <<>> \o <<b, c>> = <<b, c>>
  BY <1>1, ConcatEmptySeq
<1>3. <<a>> \o <<b>> = <<a, b>>
  <2> DEFINE g == <<a>> \o <<b>>
             h == <<a, b>>
  <2>1. /\ g \in Seq(Step) /\ Len(g) = Len(<<a>>) + Len(<<b>>)
        /\ \A i \in 1..(Len(<<a>>) + Len(<<b>>)) :
             g[i] = IF i <= Len(<<a>>) THEN <<a>>[i] ELSE <<b>>[i - Len(<<a>>)]
    BY <1>1, ConcatProperties
  <2> HIDE DEF g
  <2>2. Len(<<a>>) = 1 /\ Len(<<b>>) = 1 /\ <<a>>[1] = a /\ <<b>>[1] = b
    OBVIOUS
  <2>3. Len(g) = 2 /\ g[1] = a /\ g[2] = b
    BY <2>1, <2>2
  <2>4. Len(h) = 2 /\ h[1] = a /\ h[2] = b /\ h \in Seq(Step)
    BY <1>1
  <2> HIDE DEF h
  <2>5. g = h
    BY <2>1, <2>3, <2>4, SeqEqual
  <2> QED BY <2>5 DEF g, h
<1>4. <<a>> \o <<b, c>> = <<a, b, c>>
  <2> DEFINE g == <<a>> \o <<b, c>>
             h == <<a, b, c>>
  <2>1. /\ g \in Seq(Step) /\ Len(g) = Len(<<a>>) + Len(<<b, c>>)
        /\ \A i \in 1..(Len(<<a>>) + Len(<<b, c>>)) :
             g[i] = IF i <= Len(<<a>>) THEN <<a>>[i] ELSE <<b, c>>[i - Len(<<a>>)]
    BY <1>1, ConcatProperties
  <2> HIDE DEF g
  <2>2. Len(<<a>>) = 1 /\ Len(<<b, c>>) = 2 /\ <<a>>[1] = a /\ <<b, c>>[1] = b /\ <<b, c>>[2] = c
    OBVIOUS
  <2>3. Len(g) = 3 /\ g[1] = a /\ g[2] = b /\ g[3] = c
    BY <2>1, <2>2
  <2>4. Len(h) = 3 /\ h[1] = a /\ h[2] = b /\ h[3] = c /\ h \in Seq(Step)
    BY <1>1
  <2> HIDE DEF h
  <2>5. g = h
    BY <2>1, <2>3, <2>4, SeqEqual
  <2> QED BY <2>5 DEF g, h
<1> QED BY <1>2, <1>3, <1>4

\* What may be assumed when an operation begins.
LEMMA AtBegin ==
  ASSUME RecordingInv
  PROVE /\ messages \in Seq(Message) /\ Known(messages) /\ nextId \in 1..(MaxMessages + 1)
        /\ nextId \in Nat /\ MaxMessages \in Nat
BY RecordingAssumption DEF RecordingInv, TypeOK, IdsInv

\* A message of the next id.
LEMMA NextMessage ==
  ASSUME RecordingInv, nextId <= MaxMessages, NEW kind \in Kinds, NEW more \in BOOLEAN
  PROVE LET m == [id |-> nextId, kind |-> kind, more |-> more] IN
        /\ m \in Message /\ MessageLine(m) \in Line /\ MessageLine(m).what = "message"
        /\ MessageLine(m).message = m
        /\ LineKnownTo(MessageLine(m), nextId + 1) /\ LineKnownTo(Update, nextId + 1)
        /\ nextId + 1 \in 1..(MaxMessages + 1) /\ nextId <= nextId + 1
        /\ KnownTo(messages, nextId + 1)
<1> DEFINE m == [id |-> nextId, kind |-> kind, more |-> more]
<1>1. m \in Message
  BY AtBegin DEF Message
<1>2. m.id < nextId + 1
  BY AtBegin
<1> HIDE DEF m
<1>3. MessageLine(m).what = "message" /\ MessageLine(m).message = m
  BY DEF MessageLine
<1>4. LineKnownTo(MessageLine(m), nextId + 1) /\ LineKnownTo(Update, nextId + 1)
  BY <1>2, <1>3 DEF LineKnownTo, Update
<1>5. nextId + 1 \in 1..(MaxMessages + 1) /\ nextId <= nextId + 1
  BY AtBegin
<1>6. KnownTo(messages, nextId + 1)
  BY AtBegin, KnownGrows DEF Known
<1> QED BY <1>1, <1>3, <1>4, <1>5, <1>6, LinesTyped DEF m

LEMMA KeepRecordMessage ==
  ASSUME RecordingInv, NEW kind \in Kinds, RecordMessage(kind)
  PROVE RecordingInv'
<1> DEFINE m == [id |-> nextId, kind |-> kind, more |-> FALSE]
           W == Write(MessageLine(m))
           U == Write(Update)
<1>1. /\ Ready /\ nextId <= MaxMessages /\ kept' = kept /\ nextId' = nextId + 1
      /\ Begin(messages, FlushFor(<<m>>) \o <<W, U>>)
  BY DEF RecordMessage
<1>2. /\ m \in Message /\ MessageLine(m) \in Line /\ MessageLine(m).what = "message"
      /\ MessageLine(m).message = m
      /\ LineKnownTo(MessageLine(m), nextId') /\ LineKnownTo(Update, nextId')
      /\ nextId' \in 1..(MaxMessages + 1) /\ nextId <= nextId' /\ KnownTo(messages, nextId')
  BY <1>1, NextMessage
<1>3. /\ W \in Step /\ W.do = "append" /\ ~W.ahead /\ W.line = MessageLine(m)
      /\ U \in Step /\ U.do = "append" /\ ~U.ahead /\ U.line = Update /\ Update.what = "update"
  BY <1>2, WriteIs, LinesTyped DEF Update
<1>4. (Worth(W) <=> IsResumable(m)) /\ ~Worth(U)
  BY <1>2, <1>3 DEF Worth
<1>5. HasResumable(<<m>>) <=> IsResumable(m)
  <2>1. DOMAIN <<m>> = {1} /\ <<m>>[1] = m
    OBVIOUS
  <2> HIDE DEF m
  <2> QED BY <2>1 DEF HasResumable
<1> HIDE DEF W, U, m
<1>6. messages' = messages /\ todo' = FlushFor(<<m>>) \o <<W, U>> /\ Begin(messages', todo')
  BY <1>1 DEF Begin
<1>7. CASE IsResumable(m)
  <2>1. todo' = <<Flush, W, U>>
    <3>1. FlushFor(<<m>>) = <<Flush>>
      BY <1>5, <1>7, FlushForIs
    <3>2. <<Flush>> \o <<W, U>> = <<Flush, W, U>>
      BY <1>3, FlushIs, Joined
    <3> QED BY <1>6, <3>1, <3>2, Zenon
  <2>2. /\ DOMAIN todo' = 1..3 /\ Len(todo') = 3 /\ todo' # <<>>
        /\ todo'[1] = Flush /\ todo'[2] = W /\ todo'[3] = U
        /\ Head(todo') = Flush /\ Last(todo') = U
    BY <2>1 DEF Last
  <2>3. todo' \in Seq(Step)
    BY <1>3, <2>1, FlushIs
  <2>4. Planned(messages', todo')
    BY <1>2, <1>3, <1>4, <1>6, <1>7, <2>2, FlushIs DEF Planned
  <2>5. \A i \in DOMAIN todo' : todo'[i].do = "append" => LineKnownTo(todo'[i].line, nextId')
    BY <1>2, <1>3, <2>2, FlushIs
  <2> QED BY <1>1, <1>2, <1>6, <2>3, <2>4, <2>5, AtBegin, BeginKeeps
<1>8. CASE ~IsResumable(m)
  <2>1. todo' = <<W, U>>
    <3>1. FlushFor(<<m>>) = <<>>
      BY <1>5, <1>8, FlushForIs
    <3>2. <<>> \o <<W, U>> = <<W, U>>
      BY <1>3, Joined
    <3> QED BY <1>6, <3>1, <3>2, Zenon
  <2>2. /\ DOMAIN todo' = 1..2 /\ Len(todo') = 2 /\ todo' # <<>>
        /\ todo'[1] = W /\ todo'[2] = U /\ Head(todo') = W /\ Last(todo') = U
    BY <2>1 DEF Last
  <2>3. todo' \in Seq(Step)
    BY <1>3, <2>1
  <2>4. Planned(messages', todo')
    <3>1. \A i \in DOMAIN todo' : todo'[i] = W \/ todo'[i] = U
      BY <2>2
    <3>2. \A step \in {W, U} :
            /\ step.do = "append" /\ ~step.ahead /\ ~Worth(step)
            /\ step.line.what \in {"message", "update"}
      BY <1>2, <1>3, <1>4, <1>8
    <3> QED BY <1>6, <2>2, <3>1, <3>2 DEF Planned
  <2>5. \A i \in DOMAIN todo' : todo'[i].do = "append" => LineKnownTo(todo'[i].line, nextId')
    BY <1>2, <1>3, <2>2
  <2> QED BY <1>1, <1>2, <1>6, <2>3, <2>4, <2>5, AtBegin, BeginKeeps
<1> QED BY <1>7, <1>8

\* One line that memory is not ahead of.
LEMMA KeepOneWrite ==
  ASSUME RecordingInv, Ready, NEW line \in Line, Begin(messages, <<Write(line)>>), kept' = kept,
         line.what \in {"message", "update"}, LineKnownTo(line, nextId'),
         lazy /\ ~HasResumable(messages) => ~Worth(Write(line)),
         nextId' \in 1..(MaxMessages + 1), nextId <= nextId', KnownTo(messages, nextId')
  PROVE RecordingInv'
<1> DEFINE W == Write(line)
<1>1. W \in Step /\ W.do = "append" /\ ~W.ahead /\ W.line = line
  BY WriteIs
<1>2. messages' = messages /\ todo' = <<W>> /\ Begin(messages', todo')
  BY DEF Begin
<1>3. lazy /\ ~HasResumable(messages) => ~Worth(W)
  OBVIOUS
<1> HIDE DEF W
<1>4. /\ DOMAIN todo' = {1} /\ Len(todo') = 1 /\ todo' # <<>>
      /\ todo'[1] = W /\ Head(todo') = W /\ Last(todo') = W
  BY <1>2 DEF Last
<1>5. todo' \in Seq(Step)
  BY <1>1, <1>2
<1>6. Planned(messages', todo')
  BY <1>1, <1>2, <1>3, <1>4 DEF Planned
<1>7. \A i \in DOMAIN todo' : todo'[i].do = "append" => LineKnownTo(todo'[i].line, nextId')
  BY <1>1, <1>4
<1> QED BY <1>2, <1>5, <1>6, <1>7, AtBegin, BeginKeeps

LEMMA KeepSaveSummary == ASSUME RecordingInv, SaveSummary PROVE RecordingInv'
<1>1. Update \in Line /\ Update.what = "update" /\ LineKnownTo(Update, nextId)
  BY LinesTyped DEF Update, LineKnownTo
<1>2. ~Worth(Write(Update))
  BY <1>1, WriteIs DEF Worth
<1>3. Ready /\ Begin(messages, <<Write(Update)>>) /\ nextId' = nextId /\ kept' = kept
  BY DEF SaveSummary
<1> QED BY <1>1, <1>2, <1>3, AtBegin, KeepOneWrite DEF Known

LEMMA KeepRecordToolCalls == ASSUME RecordingInv, RecordToolCalls PROVE RecordingInv'
<1> DEFINE m == [id |-> nextId, kind |-> "model", more |-> TRUE]
<1>1. /\ Ready /\ nextId <= MaxMessages /\ (lazy => HasResumable(messages))
      /\ Begin(messages, <<Write(MessageLine(m))>>) /\ nextId' = nextId + 1 /\ kept' = kept
  BY DEF RecordToolCalls
<1>2. /\ MessageLine(m) \in Line /\ MessageLine(m).what = "message"
      /\ LineKnownTo(MessageLine(m), nextId')
      /\ nextId' \in 1..(MaxMessages + 1) /\ nextId <= nextId' /\ KnownTo(messages, nextId')
  BY <1>1, NextMessage DEF Kinds
<1> HIDE DEF m
<1> QED BY <1>1, <1>2, KeepOneWrite

\* What memory becomes is what a reader makes of the line.
LEMMA FollowsIs ==
  ASSUME NEW ms
  PROVE /\ \A m : Follows(ms, MessageLine(m)) = Put(ms, m)
        /\ \A id : Follows(ms, RewindLine(id)) = Before(ms, id)
        /\ \A h : Follows(ms, Checkpoint(h)) = h
        /\ \A line : line.what \in {"update", "garbage"} => Follows(ms, line) = ms
        /\ \A line : line.what = "message" => Follows(ms, line) = Put(ms, line.message)
        /\ \A line : line.what = "checkpoint" => Follows(ms, line) = line.messages
<1> DEFINE r == [header |-> TRUE, messages |-> ms]
<1>1. ASSUME NEW line, line.what = "message" PROVE Follows(ms, line) = Put(ms, line.message)
  <2>1. Read(r, line) = [r EXCEPT !.messages = Put(ms, line.message)]
    BY <1>1 DEF Read
  <2> QED BY <2>1 DEF Follows
<1>2. ASSUME NEW line, line.what = "rewind" PROVE Follows(ms, line) = Before(ms, line.to)
  <2>1. Read(r, line) = [r EXCEPT !.messages = Before(ms, line.to)]
    BY <1>2 DEF Read
  <2> QED BY <2>1 DEF Follows
<1>3. ASSUME NEW line, line.what = "checkpoint" PROVE Follows(ms, line) = line.messages
  <2>1. Read(r, line) = [r EXCEPT !.messages = line.messages]
    BY <1>3 DEF Read
  <2> QED BY <2>1 DEF Follows
<1>4. ASSUME NEW line, line.what \in {"update", "garbage"} PROVE Follows(ms, line) = ms
  <2>1. Read(r, line) = r
    BY <1>4 DEF Read
  <2> QED BY <2>1 DEF Follows
<1>5. \A m : Follows(ms, MessageLine(m)) = Put(ms, m)
  BY <1>1 DEF MessageLine
<1>6. \A id : Follows(ms, RewindLine(id)) = Before(ms, id)
  BY <1>2 DEF RewindLine
<1>7. \A h : Follows(ms, Checkpoint(h)) = h
  BY <1>3 DEF Checkpoint
<1> QED BY <1>1, <1>3, <1>4, <1>5, <1>6, <1>7

\* One line that memory is ahead of.
LEMMA KeepOneAhead ==
  ASSUME RecordingInv, Ready, NEW line \in Line, Begin(messages', <<Ahead(line)>>), kept' = kept,
         messages' = Follows(messages, line), LineKnownTo(line, nextId), nextId' = nextId,
         messages' \in Seq(Message), KnownTo(messages', nextId), line.what # "header",
         lazy /\ ~HasResumable(messages) => ~HasResumable(messages') /\ ~Worth(Ahead(line))
  PROVE RecordingInv'
<1> DEFINE A == Ahead(line)
<1>1. A \in Step /\ A.do = "append" /\ A.ahead /\ A.line = line
  BY WriteIs
<1>2. todo' = <<A>> /\ Begin(messages', todo')
  BY DEF Begin
<1>3. lazy /\ ~HasResumable(messages) => ~HasResumable(messages') /\ ~Worth(A)
  OBVIOUS
<1> HIDE DEF A
<1>4. /\ DOMAIN todo' = {1} /\ Len(todo') = 1 /\ todo' # <<>>
      /\ todo'[1] = A /\ Head(todo') = A /\ Last(todo') = A
  BY <1>2 DEF Last
<1>5. todo' \in Seq(Step)
  BY <1>1, <1>2
<1>6. Planned(messages', todo')
  BY <1>1, <1>3, <1>4 DEF Planned
<1>7. \A i \in DOMAIN todo' : todo'[i].do = "append" => LineKnownTo(todo'[i].line, nextId')
  BY <1>1, <1>4
<1>8. nextId' \in 1..(MaxMessages + 1) /\ nextId <= nextId'
  BY AtBegin
<1> QED BY <1>2, <1>5, <1>6, <1>7, <1>8, BeginKeeps

LEMMA KeepAmend == ASSUME RecordingInv, Amend PROVE RecordingInv'
<1> DEFINE l == Last(messages)
           m == [l EXCEPT !.more = TRUE]
<1>1. /\ Ready /\ LastIsModel /\ nextId' = nextId /\ kept' = kept
      /\ Begin(Put(messages, m), <<Ahead(MessageLine(m))>>)
  BY DEF Amend
<1>2. /\ messages # <<>> /\ l \in Message /\ l.kind = "model" /\ l.id < nextId
      /\ \E i \in DOMAIN messages : messages[i] = l
  <2>1. messages \in Seq(Message) /\ Known(messages)
    BY AtBegin
  <2>2. messages # <<>> /\ l.kind = "model"
    BY <1>1 DEF LastIsModel
  <2>3. Len(messages) \in DOMAIN messages /\ messages[Len(messages)] \in Message
    BY <2>1, <2>2, EmptySeq, LenProperties, ElementOfSeq
  <2>4. l = messages[Len(messages)]
    BY DEF Last
  <2> QED BY <2>1, <2>2, <2>3, <2>4 DEF Known, KnownTo
<1> HIDE DEF l
<1>3. m \in Message /\ m.id < nextId /\ m.kind = "model"
  BY <1>2 DEF Message
<1> HIDE DEF m
<1>4. HasResumable(messages)
  BY <1>2 DEF HasResumable, IsResumable
<1>5. messages' = Put(messages, m) /\ Begin(messages', <<Ahead(MessageLine(m))>>)
  BY <1>1 DEF Begin
<1>6. messages' \in Seq(Message) /\ KnownTo(messages', nextId)
  BY <1>3, <1>5, AtBegin, PutTyped DEF Known
<1>7. /\ MessageLine(m) \in Line /\ LineKnownTo(MessageLine(m), nextId)
      /\ MessageLine(m).what # "header"
  BY <1>3, LinesTyped DEF LineKnownTo, MessageLine
<1> QED BY <1>1, <1>4, <1>5, <1>6, <1>7, FollowsIs, KeepOneAhead

LEMMA KeepRewindTo ==
  ASSUME RecordingInv, NEW id \in 1..MaxMessages, RewindTo(id)
  PROVE RecordingInv'
<1>1. /\ Ready /\ nextId' = nextId /\ kept' = kept
      /\ Begin(Before(messages, id), <<Ahead(RewindLine(id))>>)
  BY DEF RewindTo, Rewound
<1>2. messages' = Before(messages, id) /\ Begin(messages', <<Ahead(RewindLine(id))>>)
  BY <1>1 DEF Begin
<1>3. /\ messages' \in Seq(Message) /\ KnownTo(messages', nextId)
      /\ HasResumable(messages') => HasResumable(messages)
  BY <1>2, AtBegin, BeforeTyped DEF Known
<1>4. RewindLine(id) \in Line /\ RewindLine(id).what = "rewind"
  BY LinesTyped DEF RewindLine
<1>5. LineKnownTo(RewindLine(id), nextId) /\ ~Worth(Ahead(RewindLine(id)))
  BY <1>4, WriteIs DEF LineKnownTo, Worth
<1> QED BY <1>1, <1>2, <1>3, <1>4, <1>5, FollowsIs, KeepOneAhead

\* What an operation on the whole history writes.
LEMMA SyncIs ==
  ASSUME NEW ms \in Seq(Message), NEW n, KnownTo(ms, n)
  PROVE LET A == Ahead(Checkpoint(ms)) IN
        /\ A \in Step /\ A.do = "append" /\ A.ahead /\ A.line = Checkpoint(ms) /\ ~Worth(A)
        /\ LineKnownTo(A.line, n) /\ A.line.what # "header"
        /\ HasResumable(ms) => Sync(ms) = <<Flush, A>>
        /\ ~HasResumable(ms) => Sync(ms) = <<A>>
<1> DEFINE A == Ahead(Checkpoint(ms))
<1>1. Checkpoint(ms) \in Line /\ Checkpoint(ms).what = "checkpoint" /\ Checkpoint(ms).messages = ms
  BY LinesTyped DEF Checkpoint
<1>2. A \in Step /\ A.do = "append" /\ A.ahead /\ A.line = Checkpoint(ms)
  BY <1>1, WriteIs
<1>3. Sync(ms) = FlushFor(ms) \o <<A>>
  BY DEF Sync
<1> HIDE DEF A
<1>4. ~Worth(A) /\ LineKnownTo(A.line, n) /\ A.line.what # "header"
  BY <1>1, <1>2 DEF Worth, LineKnownTo
<1>5. ASSUME HasResumable(ms) PROVE Sync(ms) = <<Flush, A>>
  <2>1. FlushFor(ms) = <<Flush>>
    BY <1>5, FlushForIs
  <2>2. <<Flush>> \o <<A>> = <<Flush, A>>
    BY <1>2, FlushIs, Joined
  <2> QED BY <1>3, <2>1, <2>2, Zenon
<1>6. ASSUME ~HasResumable(ms) PROVE Sync(ms) = <<A>>
  <2>1. FlushFor(ms) = <<>>
    BY <1>6, FlushForIs
  <2>2. <<>> \o <<A>> = <<A>>
    BY <1>2, Joined
  <2> QED BY <1>3, <2>1, <2>2, Zenon
<1> QED BY <1>2, <1>4, <1>5, <1>6 DEF A

LEMMA KeepSync ==
  ASSUME RecordingInv, Ready, Begin(messages', Sync(messages')), kept' = kept,
         messages' \in Seq(Message), KnownTo(messages', nextId'),
         nextId' \in 1..(MaxMessages + 1), nextId <= nextId'
  PROVE RecordingInv'
<1> DEFINE A == Ahead(Checkpoint(messages'))
<1>1. /\ A \in Step /\ A.do = "append" /\ A.ahead /\ A.line = Checkpoint(messages') /\ ~Worth(A)
      /\ LineKnownTo(A.line, nextId') /\ A.line.what # "header"
      /\ HasResumable(messages') => Sync(messages') = <<Flush, A>>
      /\ ~HasResumable(messages') => Sync(messages') = <<A>>
  BY SyncIs
<1> HIDE DEF A
<1>2. messages' = Follows(messages, A.line)
  BY <1>1, FollowsIs
<1>3. todo' = Sync(messages') /\ Begin(messages', todo')
  BY DEF Begin
<1>4. CASE HasResumable(messages')
  <2>1. todo' = <<Flush, A>>
    BY <1>1, <1>3, <1>4
  <2>2. /\ DOMAIN todo' = 1..2 /\ Len(todo') = 2 /\ todo' # <<>>
        /\ todo'[1] = Flush /\ todo'[2] = A /\ Head(todo') = Flush /\ Last(todo') = A
    BY <2>1 DEF Last
  <2>3. todo' \in Seq(Step)
    BY <1>1, <2>1, FlushIs
  <2>4. Planned(messages', todo')
    BY <1>1, <1>2, <1>4, <2>2, FlushIs DEF Planned
  <2>5. \A i \in DOMAIN todo' : todo'[i].do = "append" => LineKnownTo(todo'[i].line, nextId')
    BY <1>1, <2>2, FlushIs
  <2> QED BY <1>3, <2>3, <2>4, <2>5, BeginKeeps
<1>5. CASE ~HasResumable(messages')
  <2>1. todo' = <<A>>
    BY <1>1, <1>3, <1>5
  <2>2. /\ DOMAIN todo' = {1} /\ Len(todo') = 1 /\ todo' # <<>>
        /\ todo'[1] = A /\ Head(todo') = A /\ Last(todo') = A
    BY <2>1 DEF Last
  <2>3. todo' \in Seq(Step)
    BY <1>1, <2>1
  <2>4. Planned(messages', todo')
    BY <1>1, <1>2, <1>5, <2>2 DEF Planned
  <2>5. \A i \in DOMAIN todo' : todo'[i].do = "append" => LineKnownTo(todo'[i].line, nextId')
    BY <1>1, <2>2
  <2> QED BY <1>3, <2>3, <2>4, <2>5, BeginKeeps
<1> QED BY <1>4, <1>5

LEMMA KeepUpdateMessages ==
  ASSUME RecordingInv, NEW ms \in Histories, UpdateMessagesFromHistory(ms)
  PROVE RecordingInv'
<1>1. Ready /\ Begin(ms, Sync(ms)) /\ kept' = kept /\ nextId' = Given(ms)
  BY DEF UpdateMessagesFromHistory, Given
<1>2. messages' = ms
  BY <1>1 DEF Begin
<1>3. /\ ms \in Seq(Message) /\ KnownTo(ms, Given(ms))
      /\ Given(ms) \in 1..(MaxMessages + 1) /\ nextId <= Given(ms)
  BY HistoriesTyped DEF RecordingInv, IdsInv
<1> QED BY <1>1, <1>2, <1>3, KeepSync

LEMMA KeepCompress ==
  ASSUME RecordingInv, NEW ms \in Histories, Compress(ms)
  PROVE RecordingInv'
<1>1. /\ Ready /\ UsesId(ms) /\ HasResumable(messages) /\ kept' = kept /\ nextId' = nextId + 1
      /\ Begin(ms, (IF HasValidHeader THEN <<>> ELSE <<Rewrite(messages)>>) \o Sync(ms))
  BY DEF Compress
<1>2. messages' = ms
  BY <1>1 DEF Begin
<1>3. messages # <<>>
  BY <1>1 DEF HasResumable
<1>4. /\ ms \in Seq(Message) /\ KnownTo(ms, nextId') /\ HasResumable(ms)
      /\ nextId' \in 1..(MaxMessages + 1) /\ nextId <= nextId'
  BY <1>1, <1>3, HistoriesTyped DEF RecordingInv, IdsInv, Given
<1> DEFINE A == Ahead(Checkpoint(ms))
           R == Rewrite(messages)
<1>5. /\ A \in Step /\ A.do = "append" /\ A.ahead /\ A.line = Checkpoint(ms) /\ ~Worth(A)
      /\ LineKnownTo(A.line, nextId') /\ A.line.what # "header" /\ Sync(ms) = <<Flush, A>>
  BY <1>4, SyncIs
<1>6. R \in Step /\ R.do = "rewrite" /\ ~R.ahead /\ ~Worth(R)
  BY AtBegin, RewriteIs
<1>7. todo' = (IF HasValidHeader THEN <<>> ELSE <<R>>) \o <<Flush, A>>
  BY <1>1, <1>5 DEF Begin
<1> HIDE DEF A
<1>8. ms = Follows(messages, A.line)
  BY <1>5, FollowsIs
<1>9. CASE HasValidHeader
  <2>1. todo' = Sync(messages')
    <3>1. <<>> \o <<Flush, A>> = <<Flush, A>>
      BY <1>5, FlushIs, Joined
    <3>2. todo' = <<>> \o <<Flush, A>>
      BY <1>7, <1>9
    <3> QED BY <1>2, <1>5, <3>1, <3>2
  <2>2. Begin(messages', Sync(messages'))
    BY <1>1, <1>2, <2>1 DEF Begin
  <2> QED BY <1>1, <1>2, <1>4, <2>2, KeepSync
<1>10. CASE ~HasValidHeader
  <2>1. todo' = <<R, Flush, A>>
    <3>1. <<R>> \o <<Flush, A>> = <<R, Flush, A>>
      BY <1>5, <1>6, FlushIs, Joined
    <3>2. todo' = <<R>> \o <<Flush, A>>
      BY <1>7, <1>10
    <3> QED BY <3>1, <3>2
  <2>2. R = Rewrite(messages)
    OBVIOUS
  <2> HIDE DEF R
  <2>3. /\ DOMAIN todo' = 1..3 /\ Len(todo') = 3 /\ todo' # <<>>
        /\ todo'[1] = R /\ todo'[2] = Flush /\ todo'[3] = A
        /\ Head(todo') = R /\ Last(todo') = A
    BY <2>1 DEF Last
  <2>4. todo' \in Seq(Step)
    BY <1>5, <1>6, <2>1, FlushIs
  <2>5. Planned(messages', todo')
    BY <1>2, <1>4, <1>5, <1>6, <1>8, <2>2, <2>3, FlushIs DEF Planned
  <2>6. \A i \in DOMAIN todo' : todo'[i].do = "append" => LineKnownTo(todo'[i].line, nextId')
    BY <1>5, <1>6, <2>3, FlushIs
  <2>7. Begin(messages', todo')
    BY <1>1, <1>2 DEF Begin
  <2> QED BY <1>1, <1>2, <1>4, <2>4, <2>5, <2>6, <2>7, BeginKeeps
<1> QED BY <1>9, <1>10

(***************************************************************************)
(* Sessions that end and begin.                                            *)
(***************************************************************************)
\* Nothing is said there of a recording that is off.
LEMMA ReadInvOff == (~up' \/ ~on') => ReadInv'
BY DEF ReadInv

LEMMA NothingLeft ==
  ASSUME todo' = <<>>, on' => kept' = messages'
  PROVE WritesInv'
<1>1. DOMAIN todo' = {} /\ ~IsAhead'
  BY DEF IsAhead
<1> QED BY <1>1 DEF WritesInv

LEMMA KeepDeleteCurrentSession ==
  ASSUME RecordingInv, DeleteCurrentSession PROVE RecordingInv'
<1>1. /\ UNCHANGED <<file, torn, on, lazy, pending, messages, up, todo, nextId, faults, kept, unsaved>>
      /\ deleting' = "asked" /\ ops' = ops + 1 /\ ops < MaxOps /\ up
  BY DEF DeleteCurrentSession, Ready, disk, memory
<1>2. TypeOK'
  <2>1. ops + 1 \in 0..MaxOps
    BY <1>1, RecordingAssumption DEF RecordingInv, TypeOK
  <2> QED BY <1>1, <2>1 DEF RecordingInv, TypeOK, HasValidHeader
<1>3. IdsInv' /\ LazyInv'
  BY <1>1 DEF RecordingInv, IdsInv, Known, KnownLine, LazyInv
<1>4. WritesInv'
  BY <1>1 DEF RecordingInv, WritesInv, IsAhead
<1>5. ReadInv'
  <2>1. Written' = Written /\ (IsAhead' <=> IsAhead)
    BY <1>1 DEF Written, IsAhead
  <2> QED BY <1>1, <2>1 DEF RecordingInv, ReadInv
<1> QED BY <1>2, <1>3, <1>4, <1>5 DEF RecordingInv

LEMMA KeepUnlinked == ASSUME RecordingInv, Unlinked PROVE RecordingInv'
<1>1. /\ UNCHANGED <<on, lazy, pending, messages, up, todo, nextId, ops, faults, kept, unsaved>>
      /\ file' = <<>> /\ torn' = FALSE /\ deleting = "asked" /\ deleting' = "unlinked"
  BY DEF Unlinked, memory, bounds
<1>2. <<>> \in Seq(Line) /\ DOMAIN <<>> = {}
  BY EmptySeq
<1>3. TypeOK'
  BY <1>1, <1>2 DEF RecordingInv, TypeOK, HasValidHeader
<1>4. IdsInv' /\ LazyInv'
  BY <1>1, <1>2 DEF RecordingInv, IdsInv, Known, KnownLine, LazyInv
<1>5. WritesInv'
  BY <1>1 DEF RecordingInv, WritesInv, IsAhead
<1>6. ReadInv'
  <2>1. IsAhead' <=> IsAhead
    BY <1>1 DEF IsAhead
  <2>2. lazy => Written' = Written
    BY <1>1 DEF Written
  <2>3. ~lazy => ~Written'.header
    <3>1. ~lazy => Written' = Load(<<>>)
      BY <1>1 DEF Written
    <3> QED BY <3>1, LoadEmpty DEF Nothing
  <2> QED BY <1>1, <2>1, <2>2, <2>3 DEF RecordingInv, ReadInv
<1> QED BY <1>3, <1>4, <1>5, <1>6 DEF RecordingInv

LEMMA KeepDeleted == ASSUME RecordingInv, Deleted PROVE RecordingInv'
<1>1. /\ UNCHANGED <<file, torn, up, todo, nextId, ops, faults, unsaved>>
      /\ todo = <<>> /\ deleting' = "no" /\ on' = FALSE /\ lazy' = FALSE
      /\ pending' = <<>> /\ messages' = <<>> /\ kept' = <<>>
  BY DEF Deleted, disk, bounds
<1>2. DOMAIN <<>> = {} /\ <<>> \in Seq(Line) /\ <<>> \in Seq(Message)
  BY EmptySeq
<1>3. TypeOK'
  BY <1>1, <1>2 DEF RecordingInv, TypeOK
<1>4. IdsInv' /\ LazyInv'
  BY <1>1, <1>2 DEF RecordingInv, IdsInv, Known, KnownTo, KnownLine, LazyInv
<1> QED BY <1>1, <1>3, <1>4, NothingLeft, ReadInvOff DEF RecordingInv

LEMMA KeepCrash == ASSUME RecordingInv, Crash PROVE RecordingInv'
<1>1. /\ UNCHANGED <<file, torn, messages, nextId, ops, kept, unsaved>>
      /\ up' = FALSE /\ deleting' = "no" /\ todo' = <<>> /\ faults < MaxFaults
      /\ faults' = faults + 1 /\ on' = FALSE /\ lazy' = FALSE /\ pending' = <<>>
  BY DEF Crash, disk
<1>2. DOMAIN <<>> = {} /\ <<>> \in Seq(Line) /\ <<>> \in Seq(Step)
  BY EmptySeq
<1>3. TypeOK'
  <2>1. faults + 1 \in 0..MaxFaults
    BY <1>1, RecordingAssumption DEF RecordingInv, TypeOK
  <2> QED BY <1>1, <1>2, <2>1 DEF RecordingInv, TypeOK
<1>4. IdsInv' /\ LazyInv'
  BY <1>1, <1>2 DEF RecordingInv, IdsInv, Known, KnownLine, LazyInv
<1> QED BY <1>1, <1>3, <1>4, NothingLeft, ReadInvOff DEF RecordingInv

LEMMA KeepRecordAnew ==
  ASSUME RecordingInv, NEW ms \in Histories, RecordAnew(ms)
  PROVE RecordingInv'
<1> DEFINE A == Ahead(Checkpoint(ms))
<1>1. /\ up /\ ~on /\ deleting = "no" /\ ops < MaxOps
      /\ file' = <<>> /\ torn' = FALSE /\ on' = TRUE /\ lazy' = TRUE /\ pending' = <<>>
      /\ messages' = ms /\ todo' = (IF ms = <<>> THEN <<>> ELSE Sync(ms))
      /\ nextId' = Given(ms) /\ kept' = <<>> /\ unsaved' = FALSE /\ ops' = ops + 1
      /\ UNCHANGED <<deleting, up, faults>>
  BY DEF RecordAnew, Given
<1>2. /\ ms \in Seq(Message) /\ KnownTo(ms, Given(ms)) /\ Given(ms) \in 1..(MaxMessages + 1)
  BY HistoriesTyped DEF RecordingInv, IdsInv
<1>3. DOMAIN <<>> = {} /\ <<>> \in Seq(Line) /\ <<>> \in Seq(Step) /\ <<>> \in Seq(Message)
  BY EmptySeq
<1>4. /\ A \in Step /\ A.do = "append" /\ A.ahead /\ A.line = Checkpoint(ms) /\ ~Worth(A)
      /\ LineKnownTo(A.line, Given(ms)) /\ A.line.what # "header"
      /\ HasResumable(ms) => Sync(ms) = <<Flush, A>>
      /\ ~HasResumable(ms) => Sync(ms) = <<A>>
  BY <1>2, SyncIs
<1> HIDE DEF A
<1>5. messages' = Follows(kept', A.line)
  BY <1>1, <1>4, FollowsIs
<1>6. \/ todo' = <<>> /\ ms = <<>>
      \/ todo' = <<Flush, A>> /\ HasResumable(ms)
      \/ todo' = <<A>> /\ ~HasResumable(ms)
  BY <1>1, <1>4
<1>7. /\ todo' \in Seq(Step)
      /\ \A i \in DOMAIN todo' : todo'[i].do = "append" => LineKnownTo(todo'[i].line, nextId')
  <2>1. CASE todo' = <<>>
    BY <1>3, <2>1
  <2>2. CASE todo' = <<Flush, A>>
    <3>1. DOMAIN todo' = {1, 2} /\ todo'[1] = Flush /\ todo'[2] = A
      BY <2>2
    <3>2. todo' \in Seq(Step)
      BY <1>4, <2>2, FlushIs
    <3>3. nextId' = Given(ms)
      BY <1>1
    <3> QED BY <1>4, <3>1, <3>2, <3>3, FlushIs
  <2>3. CASE todo' = <<A>>
    <3>1. DOMAIN todo' = {1} /\ todo'[1] = A
      BY <2>3
    <3>2. todo' \in Seq(Step)
      BY <1>4, <2>3
    <3>3. nextId' = Given(ms)
      BY <1>1
    <3> QED BY <1>4, <3>1, <3>2, <3>3
  <2> QED BY <1>6, <2>1, <2>2, <2>3, Zenon
<1>8. TypeOK'
  <2>1. ops + 1 \in 0..MaxOps
    BY <1>1, RecordingAssumption DEF RecordingInv, TypeOK
  <2>2. \A i, j \in DOMAIN messages' : messages'[i].id = messages'[j].id => i = j
    BY <1>1, <1>2 DEF KnownTo
  <2> QED BY <1>1, <1>2, <1>3, <1>7, <2>1, <2>2 DEF RecordingInv, TypeOK, HasValidHeader
<1>9. IdsInv'
  BY <1>1, <1>2, <1>3, <1>7 DEF IdsInv, Known, KnownTo, KnownLine
<1>10. LazyInv'
  BY <1>1 DEF LazyInv
<1>11. WritesInv'
  <2>1. CASE todo' = <<>> /\ ms = <<>>
    BY <1>1, <2>1, NothingLeft
  <2>2. CASE todo' = <<Flush, A>> /\ HasResumable(ms)
    <3>1. /\ DOMAIN todo' = 1..2 /\ Len(todo') = 2 /\ todo' # <<>>
          /\ todo'[1] = Flush /\ todo'[2] = A /\ Head(todo') = Flush /\ Last(todo') = A
      BY <2>2 DEF Last
    <3>2. IsAhead'
      BY <1>4, <3>1 DEF IsAhead
    <3>3. HasResumable(messages')
      BY <1>1, <2>2
    <3> QED BY <1>4, <1>5, <3>1, <3>2, <3>3, FlushIs DEF WritesInv
  <2>3. CASE todo' = <<A>>
    <3>1. /\ DOMAIN todo' = {1} /\ Len(todo') = 1 /\ todo' # <<>>
          /\ todo'[1] = A /\ Head(todo') = A /\ Last(todo') = A
      BY <2>3 DEF Last
    <3>2. IsAhead'
      BY <1>4, <3>1 DEF IsAhead
    <3> QED BY <1>4, <1>5, <3>1, <3>2 DEF WritesInv
  <2> QED BY <1>6, <2>1, <2>2, <2>3, Zenon
<1>12. ReadInv'
  <2>1. Written' = Load(<<Header>>)
    <3>1. <<Header>> \o <<>> = <<Header>>
      BY LinesTyped, ConcatEmptySeq
    <3> QED BY <1>1, <3>1 DEF Written
  <2>2. Load(<<Header>>).header /\ Load(<<Header>>).messages = <<>>
    <3>1. <<Header>> = Append(<<>>, Header)
      OBVIOUS
    <3>2. Load(<<Header>>) = Read(Nothing, Header)
      BY <1>3, <3>1, LinesTyped, LoadAppend, LoadEmpty
    <3>3. Read(Nothing, Header) = [header |-> TRUE, messages |-> <<>>]
      BY ReadPlain DEF Nothing
    <3> QED BY <3>2, <3>3
  <2>3. ~HasResumable(<<>>)
    BY <1>3 DEF HasResumable
  <2>4. CASE todo' = <<>> /\ ms = <<>>
    BY <1>1, <1>3, <2>1, <2>2, <2>3, <2>4 DEF ReadInv, IsAhead
  <2>5. CASE todo' = <<Flush, A>> /\ HasResumable(ms)
    <3>1. todo' # <<>> /\ Head(todo') = Flush /\ Last(todo') = A
      BY <2>5 DEF Last
    <3> QED BY <1>1, <1>4, <2>1, <2>2, <2>3, <3>1, FlushIs DEF ReadInv, IsAhead
  <2>6. CASE todo' = <<A>> /\ ~HasResumable(ms)
    <3>1. todo' # <<>> /\ DOMAIN todo' = {1} /\ todo'[1] = A /\ Last(todo') = A
      BY <2>6 DEF Last
    <3> QED BY <1>1, <1>4, <2>1, <2>2, <2>3, <2>6, <3>1 DEF ReadInv, IsAhead
  <2> QED BY <1>6, <2>4, <2>5, <2>6
<1> QED BY <1>8, <1>9, <1>10, <1>11, <1>12 DEF RecordingInv

LEMMA KeepResume == ASSUME RecordingInv, Resume PROVE RecordingInv'
<1> DEFINE ms == Load(file).messages
           R == Rewrite(ms)
<1>1. /\ ~up /\ ops < MaxOps /\ Load(file).header /\ HasResumable(ms)
      /\ up' = TRUE /\ on' = TRUE /\ messages' = ms /\ kept' = ms
      /\ todo' = (IF HasValidHeader THEN <<>> ELSE <<R>>)
      /\ unsaved' = FALSE /\ ops' = ops + 1
      /\ UNCHANGED <<file, torn, lazy, pending, deleting, nextId, faults>>
  BY DEF Resume, disk
<1>2. /\ file \in Seq(Line) /\ \A i \in DOMAIN file : KnownLine(file[i])
      /\ \A i \in DOMAIN pending : KnownLine(pending[i])
  BY DEF RecordingInv, TypeOK, IdsInv
<1>3. ms \in Seq(Message) /\ Known(ms)
  BY <1>2, LoadReadable DEF Readable
<1>4. file # <<>>
  BY <1>1, LoadEmpty DEF Nothing
<1>5. ~lazy /\ deleting = "no"
  BY <1>1 DEF RecordingInv, LazyInv, TypeOK
<1>6. R \in Step /\ R.do = "rewrite" /\ ~R.ahead /\ ~Worth(R) /\ R = Rewrite(messages')
  BY <1>1, <1>3, RewriteIs
<1> HIDE DEF ms, R
<1>7. todo' = <<>> \/ todo' = <<R>>
  BY <1>1
<1>8. /\ todo' \in Seq(Step) /\ ~IsAhead'
      /\ \A i \in DOMAIN todo' : i = 1 /\ todo'[i] = R
  <2>1. CASE todo' = <<>>
    <3>1. DOMAIN todo' = {} /\ todo' \in Seq(Step)
      BY <2>1, EmptySeq
    <3> QED BY <2>1, <3>1 DEF IsAhead
  <2>2. CASE todo' = <<R>>
    <3>1. todo' \in Seq(Step) /\ DOMAIN todo' = {1} /\ todo'[1] = R /\ Last(todo') = R
      BY <1>6, <2>2 DEF Last
    <3> QED BY <1>6, <3>1 DEF IsAhead
  <2> QED BY <1>7, <2>1, <2>2, Zenon
<1>9. TypeOK'
  <2>1. ops + 1 \in 0..MaxOps
    BY <1>1, RecordingAssumption DEF RecordingInv, TypeOK
  <2>2. \A i, j \in DOMAIN ms : ms[i].id = ms[j].id => i = j
    BY <1>3 DEF Known, KnownTo
  <2> QED BY <1>1, <1>3, <1>5, <1>8, <2>1, <2>2 DEF RecordingInv, TypeOK
<1>10. IdsInv'
  <2>1. KnownTo(ms, nextId) /\ nextId' = nextId
    BY <1>1, <1>3 DEF Known
  <2>2. \A i \in DOMAIN todo' : todo'[i].do # "append"
    BY <1>6, <1>8
  <2> QED BY <1>1, <1>2, <2>1, <2>2 DEF IdsInv, Known, KnownLine
<1>11. LazyInv'
  BY <1>1, <1>4, <1>5 DEF LazyInv
<1>12. WritesInv'
  <2>1. \A i \in DOMAIN todo' : i = 1 /\ todo'[i] = R
    BY <1>8
  <2>2. kept' = messages' /\ HasResumable(messages')
    BY <1>1
  <2> QED BY <1>6, <2>1, <2>2 DEF WritesInv
<1>13. ReadInv'
  <2>1. Written' = Load(file)
    BY <1>1, <1>5 DEF Written
  <2> QED BY <1>1, <1>5, <1>8, <2>1 DEF ReadInv, ms
<1> QED BY <1>9, <1>10, <1>11, <1>12, <1>13 DEF RecordingInv

(***************************************************************************)
(* Writes that fail.                                                       *)
(***************************************************************************)
LEMMA PartialIs ==
  ASSUME RecordingInv, Partial
  PROVE /\ file' \in Seq(Line) /\ Load(file') = Load(file)
        /\ \A i \in DOMAIN file' : KnownLine(file'[i])
        /\ torn' \in BOOLEAN /\ (torn' => file' # <<>> /\ Last(file') = Garbage)
        /\ file = <<>> => file' = <<>> \/ (torn' /\ file' = <<Garbage>>)
        /\ torn /\ file = <<Garbage>> => torn' /\ file' = <<Garbage>>
        /\ file # <<>> => file' # <<>>
<1>1. /\ file \in Seq(Line) /\ \A i \in DOMAIN file : KnownLine(file[i])
      /\ torn \in BOOLEAN /\ (torn => file # <<>> /\ Last(file) = Garbage)
  BY DEF RecordingInv, TypeOK, IdsInv
<1>2. CASE UNCHANGED disk
  BY <1>1, <1>2 DEF disk
<1>3. CASE torn /\ file' = file /\ torn' = TRUE
  BY <1>1, <1>3
<1>4. CASE ~torn /\ file' = Append(file, Garbage) /\ torn' = TRUE
  <2>1. Garbage \in Line /\ KnownLine(Garbage) /\ Garbage.what = "garbage"
    BY LinesTyped DEF Garbage, KnownLine, LineKnownTo
  <2>2. /\ file' \in Seq(Line) /\ file' # <<>> /\ Last(file') = Garbage
        /\ \A i \in DOMAIN file' : KnownLine(file'[i])
        /\ Load(file') = Read(Load(file), Garbage)
    BY <1>1, <1>4, <2>1, LineAdded
  <2>3. Read(Load(file), Garbage) = Load(file)
    BY <2>1 DEF Read
  <2>4. file = <<>> => file' = <<Garbage>>
    BY <1>4
  <2> QED BY <1>4, <2>2, <2>3, <2>4
<1> QED BY <1>2, <1>3, <1>4 DEF Partial

LEMMA KeepDiskFull == ASSUME RecordingInv, DiskFull PROVE RecordingInv'
<1>1. /\ Partial /\ faults < MaxFaults /\ faults' = faults + 1
      /\ on' = FALSE /\ lazy' = FALSE /\ pending' = <<>> /\ todo' = <<>>
      /\ UNCHANGED <<messages, deleting, up, nextId, ops, kept, unsaved>>
  BY DEF DiskFull, Faulty
<1>2. DOMAIN <<>> = {} /\ <<>> \in Seq(Line) /\ <<>> \in Seq(Step)
  BY EmptySeq
<1>3. TypeOK'
  <2>1. faults + 1 \in 0..MaxFaults
    BY <1>1, RecordingAssumption DEF RecordingInv, TypeOK
  <2>2. file' \in Seq(Line) /\ torn' \in BOOLEAN /\ (torn' => file' # <<>> /\ Last(file') = Garbage)
    BY <1>1, PartialIs
  <2> QED BY <1>1, <1>2, <2>1, <2>2 DEF RecordingInv, TypeOK
<1>4. IdsInv' /\ LazyInv'
  <2>1. \A i \in DOMAIN file' : KnownLine(file'[i])
    BY <1>1, PartialIs
  <2> QED BY <1>1, <1>2, <2>1 DEF RecordingInv, IdsInv, Known, KnownLine, LazyInv
<1> QED BY <1>1, <1>3, <1>4, NothingLeft, ReadInvOff DEF RecordingInv

LEMMA KeepWriteThrows == ASSUME RecordingInv, WriteThrows PROVE RecordingInv'
<1> DEFINE step == Head(todo)
<1>1. /\ Partial /\ up /\ todo # <<>> /\ TouchesDisk(step) /\ faults < MaxFaults
      /\ todo' = <<>> /\ faults' = faults + 1 /\ kept' = messages'
      /\ messages' = (IF step.do = "rewrite" THEN kept ELSE messages)
      /\ UNCHANGED <<on, lazy, pending, deleting, up, nextId, ops>>
  BY DEF WriteThrows, Faulty
<1>2. IF step.do = "rewrite" THEN unsaved' = unsaved
      ELSE unsaved' = (unsaved \/ \E i \in DOMAIN todo : todo[i].ahead)
  BY DEF WriteThrows
<1>3. /\ todo \in Seq(Step) /\ messages \in Seq(Message) /\ kept \in Seq(Message)
      /\ unsaved \in BOOLEAN /\ on
  BY <1>1 DEF RecordingInv, TypeOK
<1>4. /\ Len(todo) \in DOMAIN todo /\ step \in Step /\ Last(todo) = todo[Len(todo)]
      /\ step.do \in {"flush", "append", "rewrite"}
  BY <1>1, <1>3, Rest, StepIs
<1> HIDE DEF step
<1>5. DOMAIN <<>> = {} /\ <<>> \in Seq(Line) /\ <<>> \in Seq(Step)
  BY EmptySeq
<1>6. /\ file' \in Seq(Line) /\ torn' \in BOOLEAN /\ (torn' => file' # <<>> /\ Last(file') = Garbage)
      /\ \A i \in DOMAIN file' : KnownLine(file'[i])
      /\ Load(file') = Load(file) /\ (file # <<>> => file' # <<>>)
      /\ lazy => file' = <<>> \/ (torn' /\ file' = <<Garbage>>)
  BY <1>1, PartialIs DEF RecordingInv, LazyInv
<1>7. messages' \in Seq(Message) /\ Known(messages')
  BY <1>1, <1>3 DEF RecordingInv, IdsInv, Known
<1>8. unsaved' \in BOOLEAN
  BY <1>2, <1>3
<1>9. TypeOK'
  <2>1. faults + 1 \in 0..MaxFaults
    BY <1>1, RecordingAssumption DEF RecordingInv, TypeOK
  <2>2. lazy' => ~HasValidHeader'
    <3>1. Garbage # Header
      BY DEF Garbage, Header
    <3> QED BY <1>1, <1>6, <3>1 DEF HasValidHeader
  <2>3. \A i, j \in DOMAIN messages' : messages'[i].id = messages'[j].id => i = j
    BY <1>7 DEF Known, KnownTo
  <2>4. todo' \in Seq(Step)
    BY <1>1, <1>5
  <2> QED BY <1>1, <1>3, <1>6, <1>7, <1>8, <2>1, <2>2, <2>3, <2>4 DEF RecordingInv, TypeOK
<1>10. IdsInv'
  BY <1>1, <1>5, <1>6, <1>7 DEF RecordingInv, IdsInv, Known, KnownLine
<1>11. LazyInv'
  BY <1>1, <1>6 DEF RecordingInv, LazyInv
<1>12. ReadInv'
  <2> SUFFICES ASSUME ~unsaved'
               PROVE /\ deleting = "no" => Written'.header
                     /\ Written'.header => Written'.messages = messages'
                     /\ lazy => ~HasResumable(messages')
    BY <1>1, <1>5 DEF ReadInv, IsAhead
  <2>1. Written' = Written
    BY <1>1, <1>6 DEF Written
  <2>2. ~unsaved
    BY <1>2
  <2>3. /\ deleting = "no" => Written.header
        /\ Written.header => Written.messages = IF IsAhead THEN kept ELSE messages
        /\ lazy => ~HasResumable(kept)
    BY <1>1, <1>3, <2>2 DEF RecordingInv, ReadInv
  <2>4. ~IsAhead /\ step.do # "append" => kept = messages
    BY <1>3 DEF RecordingInv, WritesInv, step
  <2>5. CASE step.do = "rewrite"
    BY <1>1, <2>1, <2>3, <2>4, <2>5
  <2>6. CASE step.do # "rewrite"
    <3>1. ~IsAhead
      BY <1>2, <1>4, <2>6 DEF IsAhead
    <3>2. lazy => step.do = "flush"
      BY <1>1, <1>4, <2>6 DEF TouchesDisk
    <3>3. lazy => kept = messages
      BY <2>4, <3>1, <3>2
    <3> QED BY <1>1, <2>1, <2>3, <2>6, <3>1, <3>3
  <2> QED BY <2>5, <2>6
<1> QED BY <1>1, <1>9, <1>10, <1>11, <1>12, NothingLeft DEF RecordingInv

(***************************************************************************)
(* Writes that are done.                                                   *)
(***************************************************************************)
\* What is left of the operation.
LEMMA RestKeeps ==
  ASSUME RecordingInv, todo # <<>>, Advance, Head(todo).do # "append" => messages' = messages
  PROVE /\ WritesInv'
        /\ todo' \in Seq(Step)
        /\ \A i \in DOMAIN todo' : todo'[i].do = "append" => KnownLine(todo'[i].line)
        /\ IsAhead' => IsAhead /\ kept' = kept /\ ~Head(todo).ahead
        /\ ~IsAhead' => (IsAhead <=> Head(todo).ahead)
        /\ kept' = messages' \/ kept' = kept
        /\ \A i \in DOMAIN todo' : \E j \in DOMAIN todo : todo'[i] = todo[j]
<1> DEFINE n == Len(todo)
           t == Tail(todo)
<1>1. todo \in Seq(Step) /\ messages \in Seq(Message) /\ kept \in Seq(Message) /\ on
  BY DEF RecordingInv, TypeOK
<1>2. /\ n \in Nat \ {0} /\ DOMAIN todo = 1..n /\ Head(todo) = todo[1] /\ todo[1] \in Step
      /\ Last(todo) = todo[n]
      /\ t \in Seq(Step) /\ Len(t) = n - 1 /\ DOMAIN t = 1..(n - 1)
      /\ \A i \in DOMAIN t : i + 1 \in DOMAIN todo /\ t[i] = todo[i + 1]
      /\ (n = 1) <=> (t = <<>>)
      /\ t # <<>> => Last(t) = Last(todo) /\ Head(t) = todo[2]
  BY <1>1, Rest
<1>3. todo' = t /\ kept' = (IF n = 1 THEN messages' ELSE kept) /\ on' = on
  BY DEF Advance
<1> HIDE DEF n, t
<1>4. /\ t = <<>> => ~IsAhead'
      /\ t # <<>> => (IsAhead' <=> IsAhead)
      /\ IsAhead <=> todo[n].ahead
  BY <1>2, <1>3 DEF IsAhead
<1>5. \A i \in DOMAIN todo :
        /\ todo[i].ahead => /\ i = n /\ messages = Follows(kept, todo[i].line)
                           /\ todo[i].line.what # "header"
        /\ todo[i].do = "append" /\ ~todo[i].ahead =>
             ~IsAhead /\ todo[i].line.what \in {"message", "update"}
        /\ todo[i].do = "rewrite" => i = 1 /\ todo[i] = Rewrite(kept) /\ HasResumable(messages)
        /\ todo[i].do = "flush" =>
             /\ \A j \in 1..(i - 1) : todo[j].do = "rewrite"
             /\ HasResumable(messages) \/ \E j \in DOMAIN todo : Worth(todo[j])
  BY DEF RecordingInv, WritesInv, n
<1>6. ~IsAhead /\ Head(todo).do # "append" => kept = messages
  BY <1>1 DEF RecordingInv, WritesInv
<1>7. \A i \in DOMAIN todo : todo[i] \in Step
  BY <1>1, <1>2, ElementOfSeq DEF n
<1>8. todo[1].ahead \in BOOLEAN /\ (todo[1].do # "append" => ~todo[1].ahead)
  BY <1>2, StepIs
<1>9. todo[1].ahead => n = 1
  BY <1>2, <1>5
<1>10. IsAhead /\ t # <<>> => messages' = messages
  BY <1>2, <1>5, <1>8, <1>9
<1>11. ASSUME NEW i \in DOMAIN t
       PROVE /\ t[i].ahead => /\ i = Len(t) /\ messages' = Follows(kept', t[i].line)
                              /\ t[i].line.what # "header"
             /\ t[i].do = "append" /\ ~t[i].ahead =>
                  ~IsAhead' /\ t[i].line.what \in {"message", "update"}
             /\ t[i].do # "rewrite"
             /\ t[i].do = "flush" =>
                  /\ \A j \in 1..(i - 1) : t[j].do = "rewrite"
                  /\ HasResumable(messages') \/ \E j \in DOMAIN t : Worth(t[j])
  <2> DEFINE k == i + 1
  <2>1. k \in DOMAIN todo /\ t[i] = todo[k] /\ k # 1 /\ i \in 1..(n - 1)
    BY <1>2
  <2>2. n # 1 /\ t # <<>> /\ kept' = kept
    BY <1>2, <1>3, <2>1
  <2> HIDE DEF k
  <2>3. todo[k].ahead => /\ k = n /\ messages' = Follows(kept', todo[k].line)
                         /\ todo[k].line.what # "header"
    <3>1. todo[k].ahead => /\ k = n /\ IsAhead /\ messages = Follows(kept, todo[k].line)
                           /\ todo[k].line.what # "header"
      BY <1>4, <1>5, <2>1
    <3> QED BY <1>10, <2>2, <3>1
  <2>4. todo[k].do = "append" /\ ~todo[k].ahead =>
          ~IsAhead' /\ todo[k].line.what \in {"message", "update"}
    BY <1>4, <1>5, <2>1, <2>2
  <2>5. todo[k].do # "rewrite"
    BY <1>5, <2>1
  <2>6. ASSUME todo[k].do = "flush"
        PROVE /\ \A j \in 1..(i - 1) : t[j].do = "rewrite"
              /\ HasResumable(messages') \/ \E j \in DOMAIN t : Worth(t[j])
    <3>1. /\ \A j \in 1..(k - 1) : todo[j].do = "rewrite"
          /\ HasResumable(messages) \/ \E j \in DOMAIN todo : Worth(todo[j])
      BY <1>5, <2>1, <2>6
    <3>2. 1 \in 1..(k - 1)
      BY <1>2, <2>1
    <3>3. todo[1].do = "rewrite"
      BY <3>1, <3>2
    <3>4. messages' = messages
      BY <1>2, <3>3
    <3>5. ~Worth(todo[1])
      BY <3>3 DEF Worth
    <3>6. \A j \in DOMAIN todo : j # 1 => j - 1 \in DOMAIN t /\ t[j - 1] = todo[j]
      <4> SUFFICES ASSUME NEW j \in DOMAIN todo, j # 1 PROVE j - 1 \in DOMAIN t /\ t[j - 1] = todo[j]
        OBVIOUS
      <4>1. j - 1 \in DOMAIN t /\ (j - 1) + 1 = j
        BY <1>2
      <4>2. t[j - 1] = todo[(j - 1) + 1]
        BY <1>2, <4>1
      <4> QED BY <4>1, <4>2
    <3>7. HasResumable(messages') \/ \E j \in DOMAIN t : Worth(t[j])
      BY <3>1, <3>4, <3>5, <3>6
    <3>8. \A j \in 1..(i - 1) : j \in DOMAIN t /\ j + 1 \in 1..(k - 1)
      BY <1>2, <2>1 DEF k
    <3>9. \A j \in 1..(i - 1) : t[j].do = "rewrite"
      BY <1>2, <3>1, <3>8
    <3> QED BY <3>7, <3>9
  <2>7. k = n => i = Len(t)
    BY <1>2 DEF k
  <2> QED BY <2>1, <2>3, <2>4, <2>5, <2>6, <2>7
<1>12. ASSUME ~IsAhead', t = <<>> \/ Head(t).do # "append" PROVE kept' = messages'
  <2>1. CASE t = <<>>
    BY <1>2, <1>3, <2>1
  <2>2. CASE t # <<>>
    <3>1. Head(t) = t[1] /\ 1 \in DOMAIN t /\ t[1] = todo[2] /\ 2 \in DOMAIN todo /\ n # 1
      <4>1. 1 \in DOMAIN t /\ 1 + 1 = 2 /\ n # 1
        BY <1>2, <2>2
      <4> QED BY <1>2, <2>2, <4>1
    <3>2. t[1].do = "flush"
      <4>1. todo[2] \in Step
        BY <1>7, <3>1
      <4> QED BY <1>11, <1>12, <2>2, <3>1, <4>1, StepIs
    <3>3. 1 \in 1..(2 - 1)
      OBVIOUS
    <3>4. todo[1].do = "rewrite"
      BY <1>5, <3>1, <3>2, <3>3
    <3> QED BY <1>2, <1>3, <1>4, <1>6, <1>12, <2>2, <3>1, <3>4
  <2> QED BY <2>1, <2>2
<1>13. WritesInv'
  BY <1>3, <1>11, <1>12 DEF WritesInv
<1>14. \A i \in DOMAIN todo : todo[i].do = "append" => KnownLine(todo[i].line)
  BY DEF RecordingInv, IdsInv
<1>15. IsAhead' => IsAhead /\ kept' = kept /\ ~todo[1].ahead
  BY <1>2, <1>3, <1>4, <1>8, <1>9
<1>16. ~IsAhead' => (IsAhead <=> todo[1].ahead)
  <2>1. CASE t = <<>>
    BY <1>2, <1>4, <2>1
  <2>2. CASE t # <<>>
    BY <1>2, <1>4, <1>9, <2>2
  <2> QED BY <2>1, <2>2
<1>17. \A i \in DOMAIN t : \E j \in DOMAIN todo : t[i] = todo[j]
  BY <1>2
<1>18. \A i \in DOMAIN t : t[i].do = "append" => KnownLine(t[i].line)
  BY <1>14, <1>17
<1> QED BY <1>2, <1>3, <1>13, <1>15, <1>16, <1>17, <1>18

\* What is written is what it says, or what is left of it after a torn line.
LEMMA AppendLinesIs ==
  ASSUME RecordingInv, NEW ls \in Seq(Line), ls # <<>>, \A i \in DOMAIN ls : KnownLine(ls[i]),
         AppendLines(ls)
  PROVE /\ file' \in Seq(Line) /\ file' # <<>> /\ torn' = FALSE /\ unsaved' \in BOOLEAN
        /\ \A i \in DOMAIN file' : KnownLine(file'[i])
<1>1. /\ file \in Seq(Line) /\ \A i \in DOMAIN file : KnownLine(file[i])
      /\ torn \in BOOLEAN /\ (torn => file # <<>>) /\ unsaved \in BOOLEAN
  BY DEF RecordingInv, TypeOK, IdsInv
<1>2. torn' = FALSE /\ unsaved' \in BOOLEAN
  BY <1>1 DEF AppendLines
<1>3. CASE ~torn
  <2>1. file' = file \o ls
    BY <1>3 DEF AppendLines
  <2> QED BY <1>1, <1>2, <2>1, LinesAdded
<1>4. CASE torn
  <2>1. file' = file \o Tail(ls)
    BY <1>4 DEF AppendLines
  <2>2. /\ Tail(ls) \in Seq(Line) /\ Len(Tail(ls)) = Len(ls) - 1 /\ Len(ls) \in Nat \ {0}
        /\ \A i \in 1..Len(Tail(ls)) : Tail(ls)[i] = ls[i + 1]
    BY HeadTailProperties, EmptySeq, LenProperties
  <2>3. DOMAIN Tail(ls) = 1..(Len(ls) - 1) /\ DOMAIN ls = 1..Len(ls)
    BY <2>2, LenProperties
  <2>4. \A i \in DOMAIN Tail(ls) : KnownLine(Tail(ls)[i])
    BY <2>2, <2>3
  <2> QED BY <1>1, <1>2, <1>4, <2>1, <2>2, <2>4, LinesAdded
<1> QED BY <1>3, <1>4

LEMMA KeepDoFlush == ASSUME RecordingInv, DoFlush PROVE RecordingInv'
<1> DEFINE ls == <<Header>> \o pending
<1>1. /\ up /\ todo # <<>> /\ Head(todo).do = "flush" /\ Advance /\ messages' = messages
      /\ (IF lazy THEN AppendLines(ls) ELSE UNCHANGED <<disk, unsaved>>)
      /\ lazy' = FALSE /\ pending' = <<>>
      /\ UNCHANGED <<on, deleting, up, nextId, ops, faults>>
  BY DEF DoFlush, Advance, bounds
<1>2. /\ todo \in Seq(Step) /\ messages \in Seq(Message) /\ kept \in Seq(Message)
      /\ file \in Seq(Line) /\ pending \in Seq(Line) /\ on
      /\ \A i \in DOMAIN file : KnownLine(file[i])
      /\ \A i \in DOMAIN pending : KnownLine(pending[i])
  BY <1>1 DEF RecordingInv, TypeOK, IdsInv
<1>3. Head(todo) \in Step /\ ~Head(todo).ahead
  BY <1>1, <1>2, Rest, StepIs
<1>4. /\ WritesInv' /\ todo' \in Seq(Step)
      /\ \A i \in DOMAIN todo' : todo'[i].do = "append" => KnownLine(todo'[i].line)
      /\ (IsAhead' <=> IsAhead) /\ (IsAhead' => kept' = kept)
      /\ kept' = messages' \/ kept' = kept
  <2>1. IsAhead' => IsAhead /\ kept' = kept
    BY <1>1, RestKeeps
  <2>2. ~IsAhead' => ~IsAhead
    BY <1>1, <1>3, RestKeeps
  <2> QED BY <1>1, <2>1, <2>2, RestKeeps
<1>5. DOMAIN <<>> = {} /\ <<>> \in Seq(Line)
  BY EmptySeq
<1>6. /\ Header \in Line /\ KnownLine(Header) /\ <<Header>> \in Seq(Line) /\ <<Header>> # <<>>
      /\ DOMAIN <<Header>> = {1} /\ <<Header>>[1] = Header
  BY LinesTyped DEF Header, KnownLine, LineKnownTo
<1>7. /\ ls \in Seq(Line) /\ ls # <<>> /\ ls[1] = Header
      /\ \A i \in DOMAIN ls : KnownLine(ls[i])
  BY <1>2, <1>6, LinesAdded
<1>8. Head(ls) = Header
  BY <1>7
<1> HIDE DEF ls
<1>9. /\ file' \in Seq(Line) /\ torn' \in BOOLEAN /\ unsaved' \in BOOLEAN
      /\ (torn' => file' # <<>> /\ Last(file') = Garbage)
      /\ \A i \in DOMAIN file' : KnownLine(file'[i])
      /\ lazy => file' # <<>>
      /\ ~lazy => file' = file
  <2>1. CASE lazy
    BY <1>1, <1>7, <2>1, AppendLinesIs
  <2>2. CASE ~lazy
    BY <1>1, <1>2, <2>2 DEF disk, RecordingInv, TypeOK
  <2> QED BY <2>1, <2>2
<1>10. kept' \in Seq(Message) /\ Known(messages) /\ KnownTo(kept', nextId)
  BY <1>1, <1>2, <1>4 DEF RecordingInv, IdsInv, Known
<1>11. TypeOK'
  BY <1>1, <1>2, <1>4, <1>5, <1>9, <1>10 DEF RecordingInv, TypeOK
<1>12. IdsInv'
  BY <1>1, <1>4, <1>5, <1>9, <1>10 DEF IdsInv, Known, KnownLine
<1>13. LazyInv'
  BY <1>1, <1>2, <1>9 DEF RecordingInv, LazyInv
<1>14. ReadInv'
  <2> SUFFICES ASSUME ~unsaved'
               PROVE /\ deleting = "no" => Written'.header
                     /\ Written'.header =>
                          Written'.messages = IF IsAhead' THEN kept' ELSE messages'
    BY <1>1 DEF ReadInv
  <2>1. Written' = Written /\ ~unsaved
    <3>1. CASE lazy
      <4>1. ~torn
        <5>1. Header.what # Update.what
          BY DEF Header, Update
        <5>2. Header # Update
          BY <5>1
        <5>3. torn => unsaved' = (unsaved \/ Header # Update)
          BY <1>1, <1>8, <3>1 DEF AppendLines
        <5> QED BY <5>2, <5>3
      <4>2. file = <<>> /\ ~HasValidHeader
        BY <3>1, <4>1 DEF RecordingInv, LazyInv, HasValidHeader
      <4>3. file' = file \o ls /\ unsaved' = unsaved
        BY <1>1, <1>2, <3>1, <4>1, <4>2 DEF AppendLines, RecordingInv, TypeOK
      <4>4. file' = ls
        BY <1>7, <4>2, <4>3, ConcatEmptySeq
      <4> QED BY <1>1, <3>1, <4>3, <4>4 DEF Written, ls
    <3>2. CASE ~lazy
      BY <1>1, <3>2 DEF Written, disk
    <3> QED BY <3>1, <3>2
  <2>2. /\ deleting = "no" => Written.header
        /\ Written.header => Written.messages = IF IsAhead THEN kept ELSE messages
    BY <1>1, <1>2, <2>1 DEF RecordingInv, ReadInv
  <2> QED BY <1>1, <1>4, <2>1, <2>2
<1> QED BY <1>4, <1>11, <1>12, <1>13, <1>14 DEF RecordingInv

LEMMA KeepDoRewrite == ASSUME RecordingInv, DoRewrite PROVE RecordingInv'
<1> DEFINE h == Rewrite(kept).lines
<1>1. /\ up /\ todo # <<>> /\ Head(todo).do = "rewrite" /\ Advance /\ messages' = messages
      /\ file' = Head(todo).lines /\ torn' = FALSE /\ unsaved' = FALSE
      /\ lazy' = FALSE /\ pending' = <<>>
      /\ UNCHANGED <<on, deleting, up, nextId, ops, faults>>
  BY DEF DoRewrite, Advance, bounds
<1>2. /\ todo \in Seq(Step) /\ messages \in Seq(Message) /\ kept \in Seq(Message) /\ on
      /\ Known(kept) /\ Known(messages)
  BY <1>1 DEF RecordingInv, TypeOK, IdsInv
<1>3. Head(todo) \in Step /\ ~Head(todo).ahead /\ Head(todo) = todo[1] /\ 1 \in DOMAIN todo
  BY <1>1, <1>2, Rest, StepIs
<1>4. /\ WritesInv' /\ todo' \in Seq(Step)
      /\ \A i \in DOMAIN todo' : todo'[i].do = "append" => KnownLine(todo'[i].line)
      /\ (IsAhead' <=> IsAhead) /\ (IsAhead' => kept' = kept)
      /\ kept' = messages' \/ kept' = kept
  <2>1. IsAhead' => IsAhead /\ kept' = kept
    BY <1>1, RestKeeps
  <2>2. ~IsAhead' => ~IsAhead
    BY <1>1, <1>3, RestKeeps
  <2> QED BY <1>1, <2>1, <2>2, RestKeeps
<1>5. file' = h
  <2>1. Head(todo) = Rewrite(kept)
    BY <1>1, <1>3 DEF RecordingInv, WritesInv
  <2> QED BY <1>1, <2>1
<1>6. /\ h \in Seq(Line) /\ h # <<>> /\ \A i \in DOMAIN h : KnownLine(h[i])
  <2>1. /\ h \in Seq(Line) /\ Len(h) = Len(kept) + 1 /\ h[1] = Header
        /\ \A i \in 1..Len(kept) : h[i + 1] = MessageLine(kept[i])
    BY <1>2, AnewTyped
  <2> HIDE DEF h
  <2>2. Len(kept) \in Nat /\ DOMAIN kept = 1..Len(kept) /\ DOMAIN h = 1..Len(h)
    BY <1>2, <2>1, LenProperties
  <2>3. h # <<>>
    BY <2>1, <2>2
  <2>4. ASSUME NEW i \in DOMAIN h PROVE KnownLine(h[i])
    <3>1. CASE i = 1
      BY <2>1, <3>1 DEF Header, KnownLine, LineKnownTo
    <3>2. CASE i # 1
      <4>1. i - 1 \in DOMAIN kept /\ (i - 1) + 1 = i
        BY <2>1, <2>2, <3>2
      <4>2. h[i] = MessageLine(kept[i - 1])
        BY <2>1, <2>2, <4>1
      <4>3. kept[i - 1].id < nextId
        BY <1>2, <4>1 DEF Known, KnownTo
      <4> QED BY <4>2, <4>3 DEF MessageLine, KnownLine, LineKnownTo
    <3> QED BY <3>1, <3>2
  <2> QED BY <2>1, <2>3, <2>4
<1>7. Load(h).header /\ Load(h).messages = kept
  BY <1>2, LoadAnew
<1> HIDE DEF h
<1>8. DOMAIN <<>> = {} /\ <<>> \in Seq(Line)
  BY EmptySeq
<1>9. kept' \in Seq(Message) /\ KnownTo(kept', nextId)
  BY <1>1, <1>2, <1>4 DEF Known
<1>10. TypeOK'
  BY <1>1, <1>2, <1>4, <1>5, <1>6, <1>8, <1>9 DEF RecordingInv, TypeOK
<1>11. IdsInv'
  BY <1>1, <1>2, <1>4, <1>5, <1>6, <1>8, <1>9 DEF IdsInv, Known, KnownLine
<1>12. LazyInv'
  BY <1>1, <1>2, <1>5, <1>6 DEF RecordingInv, LazyInv
<1>13. ReadInv'
  <2>1. Written' = Load(h)
    BY <1>1, <1>5 DEF Written
  <2>2. ~IsAhead => kept = messages
    BY <1>1, <1>2 DEF RecordingInv, WritesInv
  <2> QED BY <1>1, <1>4, <1>7, <2>1, <2>2 DEF ReadInv
<1> QED BY <1>4, <1>10, <1>11, <1>12, <1>13 DEF RecordingInv

\* What is written or held back, as a reader takes it.
LEMMA WrittenReadable ==
  ASSUME RecordingInv
  PROVE Readable(Written) /\ (lazy => Written.header)
<1> DEFINE ls == <<Header>> \o pending
<1>1. /\ file \in Seq(Line) /\ pending \in Seq(Line)
      /\ \A i \in DOMAIN file : KnownLine(file[i])
      /\ \A i \in DOMAIN pending : KnownLine(pending[i])
  BY DEF RecordingInv, TypeOK, IdsInv
<1>2. /\ <<Header>> \in Seq(Line) /\ \A i \in DOMAIN <<Header>> : KnownLine(<<Header>>[i])
      /\ <<Header>> # <<>> /\ <<Header>>[1] = Header
  BY LinesTyped DEF Header, KnownLine, LineKnownTo
<1>3. /\ ls \in Seq(Line) /\ ls # <<>> /\ ls[1] = Header
      /\ \A i \in DOMAIN ls : KnownLine(ls[i])
  BY <1>1, <1>2, LinesAdded
<1>4. Written = IF lazy THEN Load(ls) ELSE Load(file)
  BY DEF Written
<1> HIDE DEF ls
<1> QED BY <1>1, <1>3, <1>4, LoadReadable, LoadHeader

\* A line that is added where the session has got to says what memory becomes.
LEMMA LineFollows ==
  ASSUME RecordingInv, DoAppend, Written.header, ~unsaved
  PROVE Read(Written, Head(todo).line).messages = messages'
<1> DEFINE step == Head(todo)
           line == step.line
<1>1. up /\ todo # <<>> /\ step.do = "append" /\ messages' = Remembered(step)
  BY DEF DoAppend
<1>2. /\ todo \in Seq(Step) /\ on /\ file \in Seq(Line) /\ pending \in Seq(Line)
      /\ \A i \in DOMAIN file : KnownLine(file[i])
      /\ \A i \in DOMAIN pending : KnownLine(pending[i])
  BY <1>1 DEF RecordingInv, TypeOK, IdsInv
<1>3. /\ step \in Step /\ step = todo[1] /\ 1 \in DOMAIN todo /\ step.ahead \in BOOLEAN
      /\ line \in Line /\ Last(todo) = todo[Len(todo)]
  BY <1>1, <1>2, Rest, StepIs
<1>4. KnownLine(line)
  BY <1>1, <1>3 DEF RecordingInv, IdsInv
<1>5. /\ step.ahead => 1 = Len(todo) /\ messages = Follows(kept, line)
      /\ ~step.ahead => ~IsAhead /\ line.what \in {"message", "update"}
  BY <1>1, <1>3 DEF RecordingInv, WritesInv
<1>6. Readable(Written)
  BY WrittenReadable
<1>7. Written.messages = IF IsAhead THEN kept ELSE messages
  BY <1>1, <1>2 DEF RecordingInv, ReadInv
<1> HIDE DEF step, line
<1>8. Read(Written, line).messages = Follows(Written.messages, line)
  BY <1>3, <1>4, <1>6, ReadTyped DEF line
<1>9. Follows(Written.messages, line) = messages'
  <2>1. CASE step.ahead
    <3>1. IsAhead
      BY <1>1, <1>3, <1>5, <2>1 DEF IsAhead
    <3>2. messages' = messages
      BY <1>1, <2>1 DEF Remembered
    <3> QED BY <1>5, <1>7, <2>1, <3>1, <3>2
  <2>2. CASE ~step.ahead
    <3>1. Written.messages = messages
      BY <1>5, <1>7, <2>2
    <3>2. CASE line.what = "message"
      <4>1. messages' = Put(messages, line.message)
        BY <1>1, <2>2, <3>2 DEF Remembered, line
      <4>2. Follows(messages, line) = Put(messages, line.message)
        BY <3>2 DEF Follows, Read
      <4> QED BY <3>1, <4>1, <4>2
    <3>3. CASE line.what = "update"
      <4>1. messages' = messages
        BY <1>1, <2>2, <3>3 DEF Remembered, line
      <4>2. Follows(messages, line) = messages
        BY <3>3 DEF Follows, Read
      <4> QED BY <3>1, <4>1, <4>2
    <3> QED BY <1>5, <2>2, <3>2, <3>3
  <2> QED BY <2>1, <2>2
<1> QED BY <1>8, <1>9 DEF step, line

LEMMA KeepDoAppend == ASSUME RecordingInv, DoAppend PROVE RecordingInv'
<1> DEFINE step == Head(todo)
           line == step.line
<1>1. /\ up /\ todo # <<>> /\ step.do = "append" /\ Advance /\ messages' = Remembered(step)
      /\ lazy => pending' = Append(pending, line) /\ UNCHANGED <<disk, unsaved>>
      /\ ~lazy => AppendLines(<<line>>) /\ UNCHANGED pending
      /\ UNCHANGED <<lazy, on, deleting, up, nextId, ops, faults>>
  BY DEF DoAppend, Advance, bounds
<1>2. /\ todo \in Seq(Step) /\ messages \in Seq(Message) /\ kept \in Seq(Message)
      /\ file \in Seq(Line) /\ pending \in Seq(Line) /\ on /\ lazy \in BOOLEAN
      /\ \A i \in DOMAIN file : KnownLine(file[i])
      /\ \A i \in DOMAIN pending : KnownLine(pending[i])
      /\ Known(messages) /\ Known(kept)
  BY <1>1 DEF RecordingInv, TypeOK, IdsInv
<1>3. /\ step \in Step /\ step = todo[1] /\ 1 \in DOMAIN todo /\ step.ahead \in BOOLEAN
      /\ line \in Line
  BY <1>1, <1>2, Rest, StepIs
<1>4. KnownLine(line)
  BY <1>1, <1>3 DEF RecordingInv, IdsInv
<1>5. /\ step.ahead => 1 = Len(todo) /\ messages = Follows(kept, line)
      /\ ~step.ahead => ~IsAhead /\ line.what \in {"message", "update"}
      /\ line.what # "header"
  BY <1>1, <1>3 DEF RecordingInv, WritesInv
<1>6. /\ WritesInv' /\ todo' \in Seq(Step) /\ ~IsAhead'
      /\ \A i \in DOMAIN todo' : todo'[i].do = "append" => KnownLine(todo'[i].line)
      /\ kept' = messages' \/ kept' = kept
      /\ \A i \in DOMAIN todo' : \E j \in DOMAIN todo : todo'[i] = todo[j]
  <2>1. IsAhead' => IsAhead /\ ~step.ahead
    BY <1>1, RestKeeps
  <2>2. ~IsAhead'
    BY <1>5, <2>1
  <2> QED BY <1>1, <2>2, RestKeeps
<1>7. <<line>> \in Seq(Line) /\ <<line>> # <<>> /\ DOMAIN <<line>> = {1} /\ <<line>>[1] = line
  BY <1>3
<1>8. Head(<<line>>) = line /\ Tail(<<line>>) = <<>> /\ Last(<<line>>) = line
  BY <1>3 DEF Last
<1> HIDE DEF step, line
<1>9. /\ file' \in Seq(Line) /\ torn' \in BOOLEAN /\ unsaved' \in BOOLEAN
      /\ (torn' => file' # <<>> /\ Last(file') = Garbage)
      /\ \A i \in DOMAIN file' : KnownLine(file'[i])
      /\ lazy => file' = file /\ torn' = torn
      /\ ~lazy => file' # <<>>
  <2>1. CASE ~lazy
    BY <1>1, <1>4, <1>7, <2>1, AppendLinesIs
  <2>2. CASE lazy
    BY <1>1, <1>2, <2>2 DEF disk, RecordingInv, TypeOK
  <2> QED BY <2>1, <2>2
<1>10. /\ pending' \in Seq(Line) /\ \A i \in DOMAIN pending' : KnownLine(pending'[i])
  BY <1>1, <1>2, <1>3, <1>4, LineAdded DEF line
<1>11. messages' \in Seq(Message) /\ Known(messages')
       /\ (HasResumable(messages') => HasResumable(messages) \/ Worth(step))
  <2>1. CASE ~step.ahead /\ line.what = "message"
    <3>1. messages' = Put(messages, line.message) /\ line.message \in Message
      BY <1>1, <1>3, <2>1, LineIs DEF Remembered, line
    <3>2. line.message.id < nextId
      BY <1>4, <2>1 DEF KnownLine, LineKnownTo
    <3>3. /\ Put(messages, line.message) \in Seq(Message)
          /\ Known(Put(messages, line.message))
          /\ HasResumable(Put(messages, line.message)) =>
               HasResumable(messages) \/ IsResumable(line.message)
      BY <1>2, <3>1, <3>2, PutTyped
    <3>4. IsResumable(line.message) => Worth(step)
      BY <1>1, <2>1 DEF Worth, line
    <3>5. KnownTo(messages', nextId)
      BY <3>1, <3>3 DEF Known
    <3>6. nextId' = nextId
      BY <1>1
    <3> QED BY <3>1, <3>3, <3>4, <3>5, <3>6
  <2>2. CASE ~(~step.ahead /\ line.what = "message")
    <3>1. messages' = messages
      BY <1>1, <2>2 DEF Remembered, line
    <3> QED BY <1>2, <3>1
  <2> QED BY <2>1, <2>2
<1>12. kept' \in Seq(Message) /\ KnownTo(kept', nextId) /\ KnownTo(messages', nextId)
  <2>1. KnownTo(messages', nextId)
    BY <1>11 DEF Known
  <2>2. KnownTo(kept, nextId)
    BY <1>2 DEF Known
  <2> QED BY <1>2, <1>6, <1>11, <2>1, <2>2
<1>13. TypeOK'
  <2>1. lazy' => ~HasValidHeader'
    <3>1. lazy => ~HasValidHeader
      BY DEF RecordingInv, TypeOK
    <3> QED BY <1>1, <1>9, <3>1 DEF HasValidHeader
  <2>2. \A i, j \in DOMAIN messages' : messages'[i].id = messages'[j].id => i = j
    BY <1>12 DEF KnownTo
  <2> QED BY <1>1, <1>2, <1>6, <1>9, <1>10, <1>11, <1>12, <2>1, <2>2 DEF RecordingInv, TypeOK
<1>14. IdsInv'
  BY <1>1, <1>6, <1>9, <1>10, <1>12 DEF IdsInv, Known, KnownLine
<1>15. LazyInv'
  BY <1>1, <1>2, <1>9 DEF RecordingInv, LazyInv
<1>16. ASSUME ~unsaved'
       PROVE /\ Written' = Read(Written, line)
             /\ unsaved => ~lazy /\ HasValidHeader /\ line.what = "checkpoint"
  <2>1. CASE lazy
    <3>1. ~unsaved /\ lazy' /\ pending' = Append(pending, line)
      BY <1>1, <1>16, <2>1
    <3>2. <<Header>> \in Seq(Line) /\ \A i \in DOMAIN <<Header>> : KnownLine(<<Header>>[i])
      BY LinesTyped DEF Header, KnownLine, LineKnownTo
    <3>3. <<Header>> \o pending \in Seq(Line)
      BY <1>2, <3>2, LinesAdded
    <3>4. <<Header>> \o Append(pending, line) = Append(<<Header>> \o pending, line)
      <4>1. /\ Append(pending, line) = pending \o <<line>>
            /\ Append(<<Header>> \o pending, line) = (<<Header>> \o pending) \o <<line>>
        BY <1>2, <1>3, <3>3, AppendIsConcat DEF line
      <4>2. <<Header>> \o (pending \o <<line>>) = (<<Header>> \o pending) \o <<line>>
        BY <1>2, <1>7, <3>2, ConcatAssociative
      <4> QED BY <4>1, <4>2
    <3>5. Written' = Load(Append(<<Header>> \o pending, line))
      BY <3>1, <3>4 DEF Written
    <3>6. Load(Append(<<Header>> \o pending, line)) = Read(Load(<<Header>> \o pending), line)
      BY <1>3, <3>3, LoadAppend DEF line
    <3>7. Written = Load(<<Header>> \o pending)
      BY <2>1 DEF Written
    <3> QED BY <3>1, <3>5, <3>6, <3>7
  <2>2. CASE ~lazy /\ torn
    <3>1. file' = file \o <<>> /\ unsaved' = (unsaved \/ line # Update)
      BY <1>1, <1>8, <2>2 DEF AppendLines
    <3>2. ~unsaved /\ line = Update
      BY <1>16, <3>1
    <3>3. Written' = Written
      <4>1. file' = file
        BY <1>2, <3>1, ConcatEmptySeq
      <4> QED BY <1>1, <2>2, <4>1 DEF Written
    <3>4. Read(Written, line) = Written
      BY <3>2 DEF Read, Update
    <3> QED BY <3>2, <3>3, <3>4
  <2>3. CASE ~lazy /\ ~torn
    <3>1. /\ file' = file \o <<line>>
          /\ unsaved' = (unsaved /\ ~(HasValidHeader /\ line.what = "checkpoint"))
      BY <1>1, <1>8, <2>3 DEF AppendLines
    <3>2. file' = Append(file, line) /\ Load(Append(file, line)) = Read(Load(file), line)
      BY <1>2, <1>3, <1>4, <3>1, LineAdded DEF line
    <3>3. Written' = Read(Written, line)
      BY <1>1, <2>3, <3>2 DEF Written
    <3> QED BY <1>16, <2>3, <3>1, <3>3
  <2> QED BY <2>1, <2>2, <2>3
<1>17. ASSUME ~unsaved'
       PROVE /\ deleting = "no" => Written'.header
             /\ Written'.header => Written'.messages = messages'
  <2>1. /\ Written'.header = Written.header
        /\ Written'.messages = Follows(Written.messages, line)
    BY <1>3, <1>4, <1>5, <1>16, <1>17, WrittenReadable, ReadTyped DEF line
  <2>2. CASE ~unsaved
    <3>1. deleting = "no" => Written.header
      BY <1>1, <1>2, <2>2 DEF RecordingInv, ReadInv
    <3>2. Written.header => Read(Written, line).messages = messages'
      BY <2>2, LineFollows DEF line, step
    <3> QED BY <1>16, <1>17, <2>1, <3>1, <3>2
  <2>3. CASE ~lazy /\ HasValidHeader /\ line.what = "checkpoint"
    <3>1. Load(file).header
      BY <1>2, <2>3, LoadHeader DEF HasValidHeader
    <3>2. Written = Load(file)
      BY <2>3 DEF Written
    <3>3. \A ms : Follows(ms, line) = line.messages
      BY <2>3 DEF Follows, Read
    <3>4. messages' = messages /\ messages = Follows(kept, line)
      BY <1>1, <1>3, <1>5, <2>3 DEF Remembered, line
    <3> QED BY <2>1, <3>1, <3>2, <3>3, <3>4
  <2> QED BY <1>16, <1>17, <2>2, <2>3
<1>18. ASSUME ~unsaved', lazy
       PROVE /\ ~HasResumable(kept') /\ ~HasResumable(messages')
             /\ \A i \in DOMAIN todo' : ~Worth(todo'[i])
  <2>1. ~unsaved
    BY <1>16, <1>18
  <2>2. /\ ~HasResumable(kept) /\ ~HasResumable(messages)
        /\ \A i \in DOMAIN todo : ~Worth(todo[i])
    BY <1>1, <1>2, <1>18, <2>1 DEF RecordingInv, ReadInv, step
  <2>3. ~Worth(step)
    BY <1>3, <2>2
  <2> QED BY <1>6, <1>11, <2>2, <2>3
<1>19. ReadInv'
  BY <1>1, <1>6, <1>17, <1>18 DEF ReadInv
<1> QED BY <1>6, <1>13, <1>14, <1>15, <1>19 DEF RecordingInv

(***************************************************************************)
(* The invariant holds.                                                    *)
(***************************************************************************)
LEMMA InvBegins == Init => RecordingInv
<1> SUFFICES ASSUME Init PROVE RecordingInv
  OBVIOUS
<1>1. /\ file = <<>> /\ torn = FALSE /\ on = TRUE /\ lazy = TRUE /\ pending = <<>>
      /\ messages = <<>> /\ deleting = "no" /\ up = TRUE /\ todo = <<>>
      /\ nextId = 1 /\ ops = 0 /\ faults = 0 /\ kept = <<>> /\ unsaved = FALSE
  BY DEF Init
<1>2. /\ DOMAIN <<>> = {} /\ <<>> \in Seq(Line) /\ <<>> \in Seq(Message) /\ <<>> \in Seq(Step)
  BY EmptySeq
<1>3. TypeOK
  <2>1. file \in Seq(Line) /\ pending \in Seq(Line) /\ todo \in Seq(Step)
        /\ messages \in Seq(Message) /\ kept \in Seq(Message)
    BY <1>1, <1>2
  <2>2. {torn, on, lazy, up, unsaved} \subseteq BOOLEAN
    BY <1>1
  <2>3. nextId \in 1..(MaxMessages + 1) /\ ops \in 0..MaxOps /\ faults \in 0..MaxFaults
    BY <1>1, RecordingAssumption
  <2>4. ~HasValidHeader
    BY <1>1 DEF HasValidHeader
  <2>5. \A i, j \in DOMAIN messages : messages[i].id = messages[j].id => i = j
    BY <1>1, <1>2
  <2> QED BY <1>1, <2>1, <2>2, <2>3, <2>4, <2>5 DEF TypeOK
<1>4. IdsInv /\ LazyInv
  BY <1>1, <1>2 DEF IdsInv, Known, KnownTo, LazyInv
<1>5. ~IsAhead
  BY <1>1 DEF IsAhead
<1>6. WritesInv
  BY <1>1, <1>2, <1>5 DEF WritesInv
<1>7. ReadInv
  <2>1. Written = Load(<<Header>>)
    <3>1. <<Header>> \o <<>> = <<Header>>
      BY LinesTyped, ConcatEmptySeq
    <3> QED BY <1>1, <3>1 DEF Written
  <2>2. Load(<<Header>>) = [header |-> TRUE, messages |-> <<>>]
    <3>1. <<Header>> = Append(<<>>, Header)
      OBVIOUS
    <3>2. Load(<<Header>>) = Read(Nothing, Header)
      BY <1>2, <3>1, LinesTyped, LoadAppend, LoadEmpty
    <3> QED BY <3>2, ReadPlain DEF Nothing
  <2>3. ~HasResumable(<<>>)
    BY <1>2 DEF HasResumable
  <2> QED BY <1>1, <1>2, <1>5, <2>1, <2>2, <2>3 DEF ReadInv
<1> QED BY <1>3, <1>4, <1>6, <1>7 DEF RecordingInv

LEMMA InvKept == RecordingInv /\ [Next]_vars => RecordingInv'
<1> SUFFICES ASSUME RecordingInv, [Next]_vars PROVE RecordingInv'
  OBVIOUS
<1>1. CASE \E kind \in Kinds : RecordMessage(kind)
  BY <1>1, KeepRecordMessage
<1>2. CASE Amend \/ RecordToolCalls \/ SaveSummary
  BY <1>2, KeepAmend, KeepRecordToolCalls, KeepSaveSummary
<1>3. CASE DeleteCurrentSession \/ Unlinked \/ Deleted
  BY <1>3, KeepDeleteCurrentSession, KeepUnlinked, KeepDeleted
<1>4. CASE \E id \in 1..MaxMessages : RewindTo(id)
  BY <1>4, KeepRewindTo
<1>5. CASE \E ms \in Histories : UpdateMessagesFromHistory(ms) \/ Compress(ms) \/ RecordAnew(ms)
  BY <1>5, KeepUpdateMessages, KeepCompress, KeepRecordAnew
<1>6. CASE DoFlush \/ DoAppend \/ DoRewrite
  BY <1>6, KeepDoFlush, KeepDoAppend, KeepDoRewrite
<1>7. CASE WriteThrows \/ DiskFull \/ Crash \/ Resume
  BY <1>7, KeepWriteThrows, KeepDiskFull, KeepCrash, KeepResume
<1>8. CASE UNCHANGED vars
  <2>1. /\ UNCHANGED <<file, torn, on, lazy, pending, messages, deleting, up, todo>>
        /\ UNCHANGED <<nextId, ops, faults, kept, unsaved>>
    BY <1>8 DEF vars, disk, memory, bounds
  <2>2. TypeOK' /\ IdsInv' /\ LazyInv'
    BY <2>1 DEF RecordingInv, TypeOK, HasValidHeader, IdsInv, Known, KnownLine, LazyInv
  <2>3. WritesInv'
    BY <2>1 DEF RecordingInv, WritesInv, IsAhead
  <2>4. ReadInv'
    <3>1. Written' = Written /\ (IsAhead' <=> IsAhead)
      BY <2>1 DEF Written, IsAhead
    <3> QED BY <2>1, <3>1 DEF RecordingInv, ReadInv
  <2> QED BY <2>2, <2>3, <2>4 DEF RecordingInv
<1> QED BY <1>1, <1>2, <1>3, <1>4, <1>5, <1>6, <1>7, <1>8 DEF Next

LEMMA RecordingHolds == Spec => []RecordingInv
BY InvBegins, InvKept, PTL DEF Spec

(***************************************************************************)
(* The types, that ids are given to one message each and that a torn line  *)
(* is the file's last, for any number of messages, operations and faults.  *)
(***************************************************************************)
THEOREM RecordingTyped == Spec => []TypeOK
<1>1. RecordingInv => TypeOK
  BY DEF RecordingInv
<1> QED BY <1>1, RecordingHolds, PTL

(***************************************************************************)
(* What loadConversationRecord makes of the file is what the session has   *)
(* in memory, before or after the operation that is under way, once there  *)
(* is something worth resuming: for any number of records, rewinds,        *)
(* compressions, deletions, failed and torn writes, crashes and resumed    *)
(* sessions, and however long the file.  Except when a write has failed    *)
(* after memory was changed, or was swallowed by a torn line, and unless   *)
(* the user has the session deleted.                                       *)
(***************************************************************************)
THEOREM SessionRecoverable == Spec => []Recoverable
<1>1. RecordingInv => Recoverable
  <2> SUFFICES ASSUME RecordingInv, up, on, deleting = "no", ~unsaved, HasResumable(kept)
               PROVE Load(file).header /\ Load(file).messages \in {kept, messages}
    BY DEF Recoverable
  <2>1. /\ Written.header /\ Written.messages = (IF IsAhead THEN kept ELSE messages)
        /\ ~lazy
    BY DEF RecordingInv, ReadInv
  <2>2. Written = Load(file)
    BY <2>1 DEF Written
  <2> QED BY <2>1, <2>2
<1> QED BY <1>1, RecordingHolds, PTL

(***************************************************************************)
(* A session that is resumed.                                              *)
(***************************************************************************)
\* What has not been written yet cannot be resumed.
LEMMA LazyUnread == ASSUME RecordingInv, lazy PROVE ~Load(file).header
<1>1. file = <<>> \/ file = <<Garbage>>
  BY DEF RecordingInv, LazyInv
<1>2. ~Load(<<>>).header
  BY LoadEmpty DEF Nothing
<1>3. ~Load(<<Garbage>>).header
  <2>1. <<Garbage>> = Append(<<>>, Garbage) /\ <<>> \in Seq(Line)
    BY EmptySeq
  <2>2. Load(<<Garbage>>) = Read(Nothing, Garbage)
    BY <2>1, LinesTyped, LoadAppend, LoadEmpty
  <2> QED BY <2>2 DEF Read, Garbage, Nothing
<1> QED BY <1>1, <1>2, <1>3

\* What a recording that ends leaves behind.
LEMMA LeftBehind ==
  ASSUME RecordingInv, up, on, ~unsaved, Load(file).header
  PROVE Load(file).messages \in {kept, messages}
<1>1. ~lazy
  BY LazyUnread
<1>2. Written = Load(file)
  BY <1>1 DEF Written
<1> QED BY <1>2 DEF RecordingInv, ReadInv

\* It stays as it was while the recording is off.
LEMMA OffKept == RecordingInv /\ OffInv /\ [Next]_vars => OffInv'
<1> SUFFICES ASSUME RecordingInv, OffInv, [Next]_vars,
                    ~on', ~unsaved', ~Dropped', Load(file').header
             PROVE Load(file').messages \in {kept', messages'}
  BY DEF OffInv
<1>1. CASE ~on /\ UNCHANGED <<file, kept, messages, unsaved>>
  BY <1>1 DEF OffInv, Dropped
<1>2. CASE Unlinked
  BY <1>2, LoadEmpty DEF Unlinked, Nothing
<1>3. CASE Deleted
  BY <1>3 DEF Deleted, Dropped
<1>4. CASE Crash
  <2>1. up /\ UNCHANGED <<file, kept, messages, unsaved>>
    BY <1>4 DEF Crash, disk
  <2>2. CASE on
    BY <2>1, <2>2, LeftBehind
  <2>3. CASE ~on
    BY <1>1, <2>1, <2>3
  <2> QED BY <2>2, <2>3
<1>5. CASE DiskFull
  <2>1. Partial /\ up /\ todo # <<>> /\ UNCHANGED <<kept, messages, unsaved>>
    BY <1>5 DEF DiskFull, Faulty
  <2>2. on
    BY <2>1 DEF RecordingInv, TypeOK
  <2>3. Load(file') = Load(file)
    BY <2>1, PartialIs
  <2> QED BY <2>1, <2>2, <2>3, LeftBehind
<1>6. CASE DoFlush \/ DoAppend \/ DoRewrite \/ WriteThrows
  <2>1. todo # <<>> /\ on' = on
    BY <1>6 DEF DoFlush, DoAppend, DoRewrite, WriteThrows, Faulty, Advance
  <2> QED BY <2>1 DEF RecordingInv, TypeOK
<1>7. CASE Resume \/ \E ms \in Histories : RecordAnew(ms)
  BY <1>7 DEF Resume, RecordAnew
<1>8. ASSUME Ready, on' = on PROVE FALSE
  BY <1>8 DEF Ready
<1>9. ASSUME NEW ms, NEW w, Ready, Begin(ms, w) PROVE FALSE
  BY <1>8, <1>9 DEF Begin
<1>10. CASE DeleteCurrentSession
  BY <1>8, <1>10 DEF DeleteCurrentSession, memory
<1>11. CASE UNCHANGED vars
  <2>1. UNCHANGED <<file, on, kept, messages, unsaved>>
    BY <1>11 DEF vars, disk, memory
  <2> QED BY <1>1, <2>1
<1>12. CASE Next
  <2>1. ASSUME NEW kind \in Kinds, RecordMessage(kind) PROVE FALSE
    BY <1>9, <2>1 DEF RecordMessage
  <2>2. Amend \/ RecordToolCalls \/ SaveSummary => FALSE
    BY <1>9 DEF Amend, RecordToolCalls, SaveSummary
  <2>3. ASSUME NEW id \in 1..MaxMessages, RewindTo(id) PROVE FALSE
    BY <1>9, <2>3 DEF RewindTo
  <2>4. ASSUME NEW ms \in Histories, UpdateMessagesFromHistory(ms) \/ Compress(ms)
        PROVE FALSE
    BY <1>9, <2>4 DEF UpdateMessagesFromHistory, Compress
  <2> QED BY <1>2, <1>3, <1>4, <1>5, <1>6, <1>7, <1>10, <1>12, <2>1, <2>2, <2>3, <2>4 DEF Next
<1> QED BY <1>11, <1>12

LEMMA OffHolds == Spec => []OffInv
<1>1. Init => OffInv
  BY DEF Init, OffInv
<1> QED BY <1>1, OffKept, RecordingHolds, PTL DEF Spec

\* The process comes up again only to resume the session.
LEMMA ResumesWhat ==
  ASSUME RecordingInv, OffInv, [Next]_vars, ~up, up', ~unsaved,
         messages # <<>> \/ kept # <<>>
  PROVE messages' \in {kept, messages}
<1>1. Resume
  <2>2. ASSUME NEW kind \in Kinds, RecordMessage(kind) PROVE FALSE
    BY <2>2 DEF RecordMessage, Ready
  <2>3. Amend \/ RecordToolCalls \/ SaveSummary \/ DeleteCurrentSession => FALSE
    BY DEF Amend, RecordToolCalls, SaveSummary, DeleteCurrentSession, Ready
  <2>4. ASSUME NEW id \in 1..MaxMessages, RewindTo(id) PROVE FALSE
    BY <2>4 DEF RewindTo, Ready
  <2>5. ASSUME NEW ms \in Histories,
               UpdateMessagesFromHistory(ms) \/ Compress(ms) \/ RecordAnew(ms)
        PROVE FALSE
    BY <2>5 DEF UpdateMessagesFromHistory, Compress, RecordAnew, Ready
  <2>6. Unlinked \/ Deleted => FALSE
    BY DEF Unlinked, Deleted, RecordingInv, TypeOK
  <2>7. DoFlush \/ DoAppend \/ DoRewrite \/ WriteThrows \/ DiskFull \/ Crash => FALSE
    BY DEF DoFlush, DoAppend, DoRewrite, WriteThrows, DiskFull, Crash, Faulty
  <2>8. ~UNCHANGED vars
    BY DEF vars
  <2> QED BY <2>2, <2>3, <2>4, <2>5, <2>6, <2>7, <2>8 DEF Next
<1>2. Load(file).header /\ messages' = Load(file).messages
  BY <1>1 DEF Resume
<1>3. ~on
  BY DEF RecordingInv, LazyInv
<1> QED BY <1>2, <1>3 DEF OffInv, Dropped

(***************************************************************************)
(* The session that --resume brings back is the one that was in memory     *)
(* when the process ended, before or after the operation that was under    *)
(* way: however it ended, also when the recording had been switched off    *)
(* for want of space long before, when the file was being deleted and what *)
(* was written after that made a file of it again, or when the last line   *)
(* is torn.  Except when a write had failed after memory was changed, or   *)
(* was swallowed by a torn line, and unless memory had been dropped.       *)
(***************************************************************************)
THEOREM ResumesAsItWas == Spec => ResumedAsItWas
<1>1. RecordingInv /\ OffInv /\ [Next]_vars =>
        [~up /\ up' /\ ~unsaved /\ (messages # <<>> \/ kept # <<>>) =>
           messages' \in {kept, messages}]_vars
  BY ResumesWhat
<1> QED BY <1>1, RecordingHolds, OffHolds, PTL DEF Spec, ResumedAsItWas

\* A file comes to be only when something worth resuming is in it.
LEMMA FileWorth ==
  ASSUME RecordingInv, [Next]_vars, deleting = "no", file = <<>>, file' # <<>>
  PROVE HasResumable(messages) \/ \E i \in DOMAIN todo : Worth(todo[i])
<1>1. ASSUME todo # <<>>, Head(todo).do \in {"flush", "rewrite"}
      PROVE HasResumable(messages) \/ \E i \in DOMAIN todo : Worth(todo[i])
  <2>1. todo \in Seq(Step)
    BY DEF RecordingInv, TypeOK
  <2>2. Head(todo) = todo[1] /\ 1 \in DOMAIN todo
    BY <1>1, <2>1, Rest
  <2> QED BY <1>1, <2>2 DEF RecordingInv, WritesInv
<1>2. ASSUME up, todo # <<>> PROVE lazy
  BY <1>2 DEF RecordingInv, LazyInv, TypeOK
<1>3. CASE DoFlush
  BY <1>1, <1>3 DEF DoFlush
<1>4. CASE DoRewrite
  BY <1>1, <1>4 DEF DoRewrite
<1>5. CASE DoAppend
  <2>1. lazy /\ UNCHANGED disk
    BY <1>2, <1>5 DEF DoAppend
  <2> QED BY <2>1 DEF disk
<1>6. CASE Faulty
  <2>1. up /\ todo # <<>> /\ TouchesDisk(Head(todo)) /\ lazy
    BY <1>2, <1>6 DEF Faulty
  <2>2. Head(todo) \in Step /\ Head(todo).do \in {"flush", "append", "rewrite"}
    <3>1. todo \in Seq(Step)
      BY DEF RecordingInv, TypeOK
    <3> QED BY <2>1, <3>1, Rest, StepIs
  <2>3. Head(todo).do # "append"
    BY <2>1 DEF TouchesDisk
  <2> QED BY <1>1, <2>1, <2>2, <2>3
<1>7. CASE WriteThrows \/ DiskFull
  BY <1>6, <1>7 DEF WriteThrows, DiskFull
<1>8. CASE Unlinked \/ \E ms \in Histories : RecordAnew(ms)
  BY <1>8 DEF Unlinked, RecordAnew
<1>9. CASE UNCHANGED disk
  BY <1>9 DEF disk
<1>10. CASE Next
  <2>1. ASSUME NEW kind \in Kinds, RecordMessage(kind) PROVE UNCHANGED disk
    BY <2>1 DEF RecordMessage, Begin
  <2>2. Amend \/ RecordToolCalls \/ SaveSummary => UNCHANGED disk
    BY DEF Amend, RecordToolCalls, SaveSummary, Begin
  <2>3. DeleteCurrentSession \/ Deleted \/ Crash \/ Resume => UNCHANGED disk
    BY DEF DeleteCurrentSession, Deleted, Crash, Resume
  <2>4. ASSUME NEW id \in 1..MaxMessages, RewindTo(id) PROVE UNCHANGED disk
    BY <2>4 DEF RewindTo, Begin
  <2>5. ASSUME NEW ms \in Histories, UpdateMessagesFromHistory(ms) \/ Compress(ms)
        PROVE UNCHANGED disk
    BY <2>5 DEF UpdateMessagesFromHistory, Compress, Begin
  <2> QED BY <1>3, <1>4, <1>5, <1>7, <1>8, <1>9, <1>10, <2>1, <2>2, <2>3, <2>4, <2>5 DEF Next
<1>11. CASE UNCHANGED vars
  BY <1>9, <1>11 DEF vars
<1> QED BY <1>10, <1>11

(***************************************************************************)
(* A session leaves a file only when there is something worth resuming in  *)
(* it, whatever fails: the first bytes of a file are written by a flush    *)
(* that a resumable message has asked for, or by a rewrite of messages     *)
(* that are worth it; a single record is never the first.  But for what is *)
(* written while the session is being deleted.                             *)
(***************************************************************************)
THEOREM NoEmptyFile == Spec => NoEmptySession
<1>1. RecordingInv /\ [Next]_vars =>
        [deleting = "no" /\ file = <<>> /\ file' # <<>> =>
           HasResumable(messages) \/ \E i \in DOMAIN todo : Worth(todo[i])]_vars
  BY FileWorth
<1> QED BY <1>1, RecordingHolds, PTL DEF Spec, NoEmptySession
=============================================================================
