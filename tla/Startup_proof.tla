---------------------------- MODULE Startup_proof ----------------------------
(***************************************************************************)
(* Proofs about Arguments and Startup, for every command line, number of   *)
(* attempts, buffer size, queue capacity and set of jobs.                  *)
(***************************************************************************)
EXTENDS Startup, CountingLemmas

LedProof == INSTANCE LedQueue_proof

-----------------------------------------------------------------------------
(* The command line, of any words and any length, whatever the library makes of
   a word: first the loop of get_parameters. *)

Parsed(s) == FoldLeft(Take, Begin, s)

\* FoldLeft goes through the words from the first on.
LEMMA ParsedUnfold ==
  ASSUME NEW T, NEW s \in Seq(T)
  PROVE  \E g : /\ g[0] = Begin
                /\ \A k \in 1..Len(s) : g[k] = Take(g[k - 1], s[k])
                /\ Parsed(s) = g[Len(s)]
  <1> DEFINE Step(G, d) ==
               IF d = {} THEN Begin ELSE Take(G[d \ {Max(d)}], s[Max(d)])
             Iter(G, n) == G = [d \in SUBSET (1..n) |-> Step(G, d)]
             F == CHOOSE G : Iter(G, Len(s))
             S == {n \in Nat : \E G : Iter(G, n)}
  <1>1. Len(s) \in Nat /\ DOMAIN s = 1..Len(s)
    OBVIOUS
  <1>2. 0 \in S
    <2>1. \A d \in SUBSET (1..0) : d = {}
      OBVIOUS
    <2> DEFINE G0 == [d \in SUBSET (1..0) |-> Begin]
    <2>2. G0 = [d \in SUBSET (1..0) |-> Step(G0, d)]
      BY <2>1
    <2> QED
      BY <2>2
  <1>3. ASSUME NEW n \in Nat, n \in S PROVE n + 1 \in S
    <2>1. PICK G : Iter(G, n)
      BY <1>3
    <2> DEFINE H == [d \in SUBSET (1..n + 1) |->
                       IF n + 1 \in d THEN Take(G[d \ {n + 1}], s[n + 1]) ELSE G[d]]
    <2>2. ASSUME NEW d \in SUBSET (1..n + 1) PROVE H[d] = Step(H, d)
      <3>1. CASE n + 1 \in d
        <4>1. Max(d) = n + 1
          BY <3>1, MaxOfInterval
        <4>2. d \ {n + 1} \in SUBSET (1..n + 1) /\ n + 1 \notin d \ {n + 1}
          OBVIOUS
        <4>3. H[d \ {n + 1}] = G[d \ {n + 1}]
          BY <4>2
        <4>4. H[d] = Take(G[d \ {n + 1}], s[n + 1])
          BY <3>1
        <4> HIDE DEF H
        <4> QED
          BY <3>1, <4>1, <4>3, <4>4
      <3>2. CASE n + 1 \notin d
        <4>1. d \in SUBSET (1..n)
          BY <3>2
        <4>2. H[d] = Step(G, d)
          BY <2>1, <3>2, <4>1
        <4>3. CASE d # {}
          <5>1. d \ {Max(d)} \in SUBSET (1..n)
            BY <4>1
          <5>2. H[d \ {Max(d)}] = G[d \ {Max(d)}]
            BY <3>2, <5>1
          <5> QED
            BY <4>2, <4>3, <5>2
        <4> QED
          BY <4>2, <4>3
      <3> QED
        BY <3>1, <3>2
    <2>3. H = [d \in SUBSET (1..n + 1) |-> H[d]]
      OBVIOUS
    <2>4. Iter(H, n + 1)
      <3> HIDE DEF H
      <3> QED
        BY <2>2, <2>3
    <2> HIDE DEF H, Iter
    <2> QED
      BY <2>4
  <1>4. \A n \in Nat : n \in S
    <2> HIDE DEF S
    <2> QED
      BY <1>2, <1>3, CountingUp
  <1>5. Iter(F, Len(s))
    <2>1. \E G : Iter(G, Len(s))
      BY <1>1, <1>4
    <2> HIDE DEF Iter
    <2> QED
      BY <2>1
  <1>6. Parsed(s) = F[1..Len(s)]
    BY <1>1 DEF Parsed, FoldLeft, MapThenFoldSet
  <1> DEFINE g == [k \in 0..Len(s) |-> F[1..k]]
  <1>7. g[0] = Begin
    <2>1. 1..0 = {} /\ 1..0 \in SUBSET (1..Len(s))
      OBVIOUS
    <2> HIDE DEF F
    <2>2. F[1..0] = Begin
      BY <1>5, <2>1
    <2> QED
      BY <1>1, <2>2
  <1>8. ASSUME NEW k \in 1..Len(s) PROVE g[k] = Take(g[k - 1], s[k])
    <2>1. /\ 1..k \in SUBSET (1..Len(s)) /\ 1..k # {}
          /\ (1..k) \ {k} = 1..k - 1
      <3>1. k \in Nat \ {0} /\ k <= Len(s)
        BY <1>1
      <3> QED
        BY <3>1, <1>1
    <2>2. Max(1..k) = k
      BY <1>1, MaxOfInterval
    <2> HIDE DEF F
    <2>3. F[1..k] = Take(F[1..k - 1], s[k])
      BY <1>5, <2>1, <2>2
    <2> QED
      BY <1>1, <2>3
  <1>9. Parsed(s) = g[Len(s)]
    BY <1>1, <1>6
  <1> HIDE DEF g
  <1> QED
    BY <1>7, <1>8, <1>9

-----------------------------------------------------------------------------
(* One word. *)

\* What log_level keeps of a number.
Byte(word) == Atoi(word) % 256

\* The field an option is stored in, and what is stored there of a word.
Field(a, option) ==
    IF option = "-b" THEN a.baudrate
    ELSE IF option = "-s" THEN a.serial_port ELSE a.log_level

Stored(option, word) ==
    IF option = "-b" THEN Atoi(word)
    ELSE IF option = "-s" THEN Cut(word) ELSE Byte(word)

ArgsOf(b, p, l, d) ==
    [baudrate |-> b, serial_port |-> p, log_level |-> l, disable_log_file |-> d]

IsArgs(a) == \E b, p, l, d : a = ArgsOf(b, p, l, d)

\* The loop goes on, with the option whose value is expected, those given, and the
\* arguments stored.
On(s, expect, got, taken) ==
    /\ s = [expect |-> expect, got |-> got, ok |-> TRUE, args |-> taken]
    /\ IsArgs(taken)

LEMMA OnFields ==
  ASSUME NEW s, NEW expect, NEW got, NEW taken, On(s, expect, got, taken)
  PROVE  s.ok /\ s.expect = expect /\ s.args = taken /\ IsArgs(taken)
  BY DEF On

LEMMA FieldsOf ==
  ASSUME NEW b, NEW p, NEW l, NEW d
  PROVE  /\ IsArgs(ArgsOf(b, p, l, d))
         /\ ArgsOf(b, p, l, d).disable_log_file = d
         /\ Field(ArgsOf(b, p, l, d), "-b") = b
         /\ Field(ArgsOf(b, p, l, d), "-s") = p
         /\ Field(ArgsOf(b, p, l, d), "-l") = l
  <1>1. IsArgs(ArgsOf(b, p, l, d))
    BY Zenon DEF IsArgs
  <1> QED
    BY <1>1 DEF Field, ArgsOf

LEMMA Disabled ==
  ASSUME NEW a, IsArgs(a), NEW e
  PROVE  /\ IsArgs([a EXCEPT !.disable_log_file = e])
         /\ [a EXCEPT !.disable_log_file = e].disable_log_file = e
         /\ \A o \in Valued : Field([a EXCEPT !.disable_log_file = e], o) = Field(a, o)
  <1>1. PICK b, p, l, d : a = ArgsOf(b, p, l, d)
    BY DEF IsArgs
  <1>2. [a EXCEPT !.disable_log_file = e] = ArgsOf(b, p, l, e)
    BY <1>1 DEF ArgsOf
  <1>3. \A o \in Valued : Field(ArgsOf(b, p, l, e), o) = Field(ArgsOf(b, p, l, d), o)
    BY FieldsOf DEF Valued
  <1> QED
    BY <1>1, <1>2, <1>3, FieldsOf

LEMMA PutStores ==
  ASSUME NEW a, IsArgs(a), NEW option \in Valued, NEW word
  PROVE  LET put == Put(a, option, word)
         IN  /\ IsArgs(put)
             /\ put.disable_log_file = a.disable_log_file
             /\ \A o \in Valued :
                   Field(put, o) = IF o = option THEN Stored(option, word) ELSE Field(a, o)
  <1>1. PICK b, p, l, d :
           a = ArgsOf(b, p, l, d)
    BY DEF IsArgs
  <1> DEFINE put == Put(a, option, word)
  <1>2. CASE option = "-b"
    <2>1. put = ArgsOf(Atoi(word), p, l, d)
      BY <1>1, <1>2 DEF Put, ArgsOf
    <2> HIDE DEF put
    <2> QED
      <3>1. /\ IsArgs(put)
            /\ put.disable_log_file = d
            /\ Field(put, "-b") = Atoi(word) /\ Field(put, "-s") = p /\ Field(put, "-l") = l
        BY <2>1, FieldsOf
      <3>2. /\ a.disable_log_file = d
            /\ Field(a, "-b") = b /\ Field(a, "-s") = p /\ Field(a, "-l") = l
        BY <1>1, FieldsOf
      <3>3. \A o \in Valued :
               Field(put, o) = IF o = option THEN Stored(option, word) ELSE Field(a, o)
        BY <1>2, <3>1, <3>2 DEF Stored, Valued
      <3> QED
        BY <3>1, <3>2, <3>3 DEF put
  <1>3. CASE option = "-s"
    <2>1. put = ArgsOf(b, Cut(word), l, d)
      BY <1>1, <1>3 DEF Put, ArgsOf
    <2> HIDE DEF put
    <2> QED
      <3>1. /\ IsArgs(put)
            /\ put.disable_log_file = d
            /\ Field(put, "-b") = b /\ Field(put, "-s") = Cut(word) /\ Field(put, "-l") = l
        BY <2>1, FieldsOf
      <3>2. /\ a.disable_log_file = d
            /\ Field(a, "-b") = b /\ Field(a, "-s") = p /\ Field(a, "-l") = l
        BY <1>1, FieldsOf
      <3>3. \A o \in Valued :
               Field(put, o) = IF o = option THEN Stored(option, word) ELSE Field(a, o)
        BY <1>3, <3>1, <3>2 DEF Stored, Valued
      <3> QED
        BY <3>1, <3>2, <3>3 DEF put
  <1>4. CASE option = "-l"
    <2>1. put = ArgsOf(b, p, Byte(word), d)
      BY <1>1, <1>4 DEF Put, Byte, ArgsOf
    <2> HIDE DEF put
    <2> QED
      <3>1. /\ IsArgs(put)
            /\ put.disable_log_file = d
            /\ Field(put, "-b") = b /\ Field(put, "-s") = p /\ Field(put, "-l") = Byte(word)
        BY <2>1, FieldsOf
      <3>2. /\ a.disable_log_file = d
            /\ Field(a, "-b") = b /\ Field(a, "-s") = p /\ Field(a, "-l") = l
        BY <1>1, FieldsOf
      <3>3. \A o \in Valued :
               Field(put, o) = IF o = option THEN Stored(option, word) ELSE Field(a, o)
        BY <1>4, <3>1, <3>2 DEF Stored, Valued
      <3> QED
        BY <3>1, <3>2, <3>3 DEF put
  <1> QED
    BY <1>2, <1>3, <1>4 DEF Valued

LEMMA TakeValue ==
  ASSUME NEW s, NEW option \in Valued, NEW got, NEW taken, NEW word,
         On(s, option, got, taken)
  PROVE  On(Take(s, word), "", got \union {option}, Put(taken, option, word))
  <1>1. option # ""
    BY DEF Valued
  <1>2. s = [expect |-> option, got |-> got, ok |-> TRUE, args |-> taken]
    BY DEF On
  <1> DEFINE p == Put(taken, option, word)
  <1>3. IsArgs(p)
    BY PutStores DEF On
  <1>4. Take(s, word) = [expect |-> "", got |-> got \union {option}, ok |-> TRUE, args |-> p]
    <2>1. Take(s, word) = [s EXCEPT !.args = p, !.got = got \union {option}, !.expect = ""]
      BY <1>1, <1>2 DEF Take
    <2> HIDE DEF p
    <2> QED
      BY <1>2, <2>1
  <1> QED
    BY <1>3, <1>4 DEF On

LEMMA TakeWord ==
  ASSUME NEW s, NEW got, NEW taken, NEW word, On(s, "", got, taken)
  PROVE  /\ word \in Valued \ got => On(Take(s, word), word, got, taken)
         /\ word = "-n" =>
               On(Take(s, word), "", got, [taken EXCEPT !.disable_log_file = TRUE])
         /\ word \notin Valued \ got /\ word # "-n" => ~Take(s, word).ok
  <1>1. s = [expect |-> "", got |-> got, ok |-> TRUE, args |-> taken] /\ IsArgs(taken)
    BY DEF On
  <1> DEFINE t == Take(s, word)
  <1>2. CASE word \in Valued \ got
    <2>1. t = [s EXCEPT !.expect = word]
      BY <1>1, <1>2 DEF Take
    <2>2. t = [expect |-> word, got |-> got, ok |-> TRUE, args |-> taken]
      BY <1>1, <2>1
    <2>3. word # "-n"
      BY <1>2 DEF Valued
    <2> QED
      BY <1>1, <1>2, <2>2, <2>3 DEF On
  <1>3. CASE word = "-n"
    <2>1. word \notin Valued
      BY <1>3 DEF Valued
    <2>2. t = [s EXCEPT !.args.disable_log_file = TRUE]
      BY <1>1, <1>3, <2>1 DEF Take
    <2> DEFINE a == [taken EXCEPT !.disable_log_file = TRUE]
    <2>3. t = [expect |-> "", got |-> got, ok |-> TRUE, args |-> a]
      BY <1>1, <2>2
    <2>4. IsArgs(a)
      BY <1>1, Disabled, Zenon
    <2> QED
      BY <1>3, <2>1, <2>3, <2>4 DEF On
  <1>4. CASE word \notin Valued \ got /\ word # "-n"
    <2>1. t = [s EXCEPT !.ok = FALSE]
      BY <1>1, <1>4 DEF Take
    <2>2. ~t.ok
      BY <1>1, <2>1
    <2> QED
      BY <1>4, <2>2
  <1> QED
    BY <1>2, <1>3, <1>4

\* Once get_parameters has met an error it looks at no other word.
LEMMA TakeStops ==
  ASSUME NEW s, ~s.ok, NEW word
  PROVE  Take(s, word) = s
  BY DEF Take

-----------------------------------------------------------------------------
(* The first words of a command line. *)

Kinds == {"option", "flag", "value"}

\* The word at i plays its role as it is allowed to after those before it.
RoleAt(line, role, i) ==
    /\ role[i] = "value" <=> i > 1 /\ role[i - 1] = "option"
    /\ role[i] = "option" => line[i] \in Valued
    /\ role[i] = "flag" => line[i] = "-n"
    /\ \A j \in 1..i - 1 : role[i] = "option" /\ role[j] = "option" => line[i] # line[j]

Follows(line, role, k) == \A i \in 1..k : RoleAt(line, role, i)

\* What the first k words say.
Says(line, role, k, taken) ==
    /\ taken.disable_log_file = (\E i \in 1..k : role[i] = "flag")
    /\ \A o \in Valued :
          /\ \A i \in 1..k - 1 : role[i] = "option" /\ line[i] = o
                => Field(taken, o) = Stored(o, line[i + 1])
          /\ (\A i \in 1..k - 1 : ~(role[i] = "option" /\ line[i] = o))
                => Field(taken, o) = Field(DefaultArgs, o)

OpenOption(line, role, k) == IF k >= 1 /\ role[k] = "option" THEN line[k] ELSE ""

Seen(line, role, k) == {line[i] : i \in {j \in 1..k - 1 : role[j] = "option"}}

\* The state of the loop after the first k words.
Reached(line, role, k, s) ==
    \E taken : /\ On(s, OpenOption(line, role, k), Seen(line, role, k), taken)
              /\ Says(line, role, k, taken)

LEMMA NothingRead == ASSUME NEW line, NEW role PROVE Reached(line, role, 0, Begin)
  <1>1. IsArgs(DefaultArgs)
    <2> DEFINE b == DefaultArgs.baudrate
    <2>1. DefaultArgs = ArgsOf(b, "/dev/ttyS1", 1, FALSE)
      BY SMT DEF DefaultArgs, ArgsOf
    <2> HIDE DEF b
    <2> QED
      BY <2>1, Zenon DEF IsArgs
  <1>2. OpenOption(line, role, 0) = "" /\ Seen(line, role, 0) = {}
    BY DEF OpenOption, Seen
  <1>3. On(Begin, "", {}, DefaultArgs)
    BY <1>1 DEF On, Begin
  <1>4. Says(line, role, 0, DefaultArgs)
    <2>1. DefaultArgs.disable_log_file = FALSE
      BY DEF DefaultArgs
    <2>2. \A i : i \notin 1..0 /\ i \notin 1..0 - 1
      OBVIOUS
    <2> QED
      BY <2>1, <2>2 DEF Says
  <1> QED
    BY <1>2, <1>3, <1>4, Zenon DEF Reached

\* A word that plays a role is taken in that role.
LEMMA WordTaken ==
  ASSUME NEW W, NEW line \in Seq(W), NEW k \in Nat, k + 1 <= Len(line),
         NEW role \in [1..Len(line) -> Kinds], Follows(line, role, k + 1),
         NEW s, Reached(line, role, k, s)
  PROVE  Reached(line, role, k + 1, Take(s, line[k + 1]))
  <1> DEFINE word == line[k + 1]
             t == Take(s, word)
             seen == Seen(line, role, k)
  <1>1. PICK taken : On(s, OpenOption(line, role, k), seen, taken) /\ Says(line, role, k, taken)
    BY DEF Reached
  <1>2. k + 1 \in 1..Len(line) /\ Len(line) \in Nat
    OBVIOUS
  <1>3. role[k + 1] \in Kinds /\ RoleAt(line, role, k + 1)
    BY <1>2 DEF Follows
  <1>4. role[k + 1] = "value" <=> k >= 1 /\ role[k] = "option"
    <2>1. (k + 1) - 1 = k /\ (k + 1 > 1 <=> k >= 1)
      OBVIOUS
    <2> QED
      BY <1>3, <2>1 DEF RoleAt
  <1>5. (k + 1) - 1 = k /\ \A i \in 1..k : i \in 1..k - 1 \/ i = k
    OBVIOUS
  <1>6. \A i \in 1..k + 1 : i \in 1..k \/ i = k + 1
    OBVIOUS
  <1>7. ASSUME role[k] # "option" \/ k = 0
        PROVE  Seen(line, role, k + 1) = seen
    <2>1. \A i \in 1..k : role[i] = "option" => i \in 1..k - 1
      BY <1>5, <1>7
    <2>2. {i \in 1..k : role[i] = "option"} = {i \in 1..k - 1 : role[i] = "option"}
      BY <2>1
    <2> QED
      BY <1>5, <2>2 DEF Seen
  <1>8. ASSUME role[k] # "option" \/ k = 0, NEW a,
               \A o \in Valued : Field(a, o) = Field(taken, o),
               a.disable_log_file = (\E i \in 1..k + 1 : role[i] = "flag")
        PROVE  Says(line, role, k + 1, a)
    <2>1. ASSUME NEW o \in Valued, NEW i \in 1..k, role[i] = "option", line[i] = o
          PROVE  Field(a, o) = Stored(o, line[i + 1])
      <3>1. i \in 1..k - 1
        BY <1>5, <1>8, <2>1
      <3> QED
        BY <1>1, <1>8, <2>1, <3>1 DEF Says
    <2>2. ASSUME NEW o \in Valued, \A i \in 1..k : ~(role[i] = "option" /\ line[i] = o)
          PROVE  Field(a, o) = Field(DefaultArgs, o)
      <3>1. \A i \in 1..k - 1 : i \in 1..k
        OBVIOUS
      <3> QED
        BY <1>1, <1>8, <2>2, <3>1 DEF Says
    <2> QED
      BY <1>5, <1>8, <2>1, <2>2 DEF Says
  <1>9. CASE role[k + 1] = "value"
    <2>1. k >= 1 /\ role[k] = "option" /\ k \in 1..k
      BY <1>4, <1>9
    <2> DEFINE option == line[k]
    <2>2. option \in Valued /\ \A j \in 1..k - 1 : role[j] = "option" => line[j] # option
      <3>1. RoleAt(line, role, k)
        BY <2>1 DEF Follows
      <3> QED
        BY <2>1, <3>1 DEF RoleAt
    <2> HIDE DEF option
    <2>3. On(s, option, seen, taken)
      BY <1>1, <2>1 DEF OpenOption, option
    <2> DEFINE a == Put(taken, option, word)
    <2>4. On(t, "", seen \union {option}, a)
      BY <2>2, <2>3, TakeValue
    <2>5. /\ a.disable_log_file = taken.disable_log_file
          /\ \A o \in Valued :
                Field(a, o) = IF o = option THEN Stored(option, word) ELSE Field(taken, o)
      BY <2>2, <2>3, PutStores DEF On
    <2> HIDE DEF a
    <2>6. Seen(line, role, k + 1) = seen \union {option}
      BY <1>5, <2>1 DEF Seen, option
    <2>7. OpenOption(line, role, k + 1) = ""
      BY <1>9 DEF OpenOption
    <2>8. a.disable_log_file = (\E i \in 1..k + 1 : role[i] = "flag")
      <3>1. (\E i \in 1..k + 1 : role[i] = "flag") <=> (\E i \in 1..k : role[i] = "flag")
        <4>1. \A i \in 1..k : i \in 1..k + 1
          OBVIOUS
        <4> QED
          BY <1>6, <1>9, <4>1
      <3> QED
        BY <1>1, <2>5, <3>1 DEF Says
    <2>9. ASSUME NEW o \in Valued, NEW i \in 1..k, role[i] = "option", line[i] = o
          PROVE  Field(a, o) = Stored(o, line[i + 1])
      <3>1. CASE i = k
        BY <2>5, <2>9, <3>1 DEF option
      <3>2. CASE i \in 1..k - 1
        <4>1. o # option
          BY <2>2, <2>9, <3>2
        <4> QED
          BY <1>1, <2>5, <2>9, <3>2, <4>1 DEF Says
      <3> QED
        BY <1>5, <3>1, <3>2
    <2>10. ASSUME NEW o \in Valued, \A i \in 1..k : ~(role[i] = "option" /\ line[i] = o)
           PROVE  Field(a, o) = Field(DefaultArgs, o)
      <3>1. o # option /\ \A i \in 1..k - 1 : i \in 1..k
        BY <2>1, <2>10 DEF option
      <3> QED
        BY <1>1, <2>5, <2>10, <3>1 DEF Says
    <2>11. Says(line, role, k + 1, a)
      BY <1>5, <2>8, <2>9, <2>10 DEF Says
    <2> QED
      BY <2>4, <2>6, <2>7, <2>11 DEF Reached
  <1>10. ASSUME role[k + 1] # "value"
         PROVE  (role[k] # "option" \/ k = 0) /\ On(s, "", seen, taken)
    <2>1. ~(k >= 1 /\ role[k] = "option")
      BY <1>4, <1>10
    <2>2. OpenOption(line, role, k) = ""
      BY <2>1 DEF OpenOption
    <2>3. k >= 1 \/ k = 0
      OBVIOUS
    <2> HIDE DEF seen
    <2>4. On(s, "", seen, taken)
      BY <1>1, <2>2
    <2> QED
      BY <2>1, <2>3, <2>4
  <1>11. CASE role[k + 1] = "option"
    <2>1. word \in Valued /\ \A j \in 1..k : role[j] = "option" => line[j] # word
      BY <1>3, <1>5, <1>11 DEF RoleAt
    <2>2. word \notin seen
      <3>1. \A j \in 1..k - 1 : j \in 1..k
        OBVIOUS
      <3> QED
        BY <2>1, <3>1 DEF Seen
    <2>3. On(t, word, seen, taken)
      BY <1>10, <1>11, <2>1, <2>2, TakeWord
    <2>4. OpenOption(line, role, k + 1) = word
      <3>1. k + 1 >= 1
        OBVIOUS
      <3> QED
        BY <1>11, <3>1 DEF OpenOption
    <2>5. taken.disable_log_file = (\E i \in 1..k + 1 : role[i] = "flag")
      <3>1. (\E i \in 1..k + 1 : role[i] = "flag") <=> (\E i \in 1..k : role[i] = "flag")
        <4>1. \A i \in 1..k : i \in 1..k + 1
          OBVIOUS
        <4> QED
          BY <1>6, <1>11, <4>1
      <3> QED
        BY <1>1, <3>1 DEF Says
    <2>6. Says(line, role, k + 1, taken)
      BY <1>8, <1>10, <1>11, <2>5
    <2> QED
      BY <1>7, <1>10, <1>11, <2>3, <2>4, <2>6 DEF Reached
  <1>12. CASE role[k + 1] = "flag"
    <2>1. word = "-n"
      BY <1>3, <1>12 DEF RoleAt
    <2> DEFINE a == [taken EXCEPT !.disable_log_file = TRUE]
    <2>2. On(t, "", seen, a)
      BY <1>10, <1>12, <2>1, TakeWord
    <2>3. a.disable_log_file = TRUE /\ \A o \in Valued : Field(a, o) = Field(taken, o)
      BY <1>1, Disabled, Zenon DEF On
    <2> HIDE DEF a
    <2>4. OpenOption(line, role, k + 1) = ""
      BY <1>12 DEF OpenOption
    <2>5. a.disable_log_file = (\E i \in 1..k + 1 : role[i] = "flag")
      <3>1. k + 1 \in 1..k + 1
        OBVIOUS
      <3> QED
        BY <1>12, <2>3, <3>1
    <2>6. Says(line, role, k + 1, a)
      BY <1>8, <1>10, <1>12, <2>3, <2>5
    <2> QED
      BY <1>7, <1>10, <1>12, <2>2, <2>4, <2>6 DEF Reached
  <1> QED
    BY <1>3, <1>9, <1>11, <1>12 DEF Kinds

\* What has been read depends on the roles of the words read only.
LEMMA SameRoles ==
  ASSUME NEW line, NEW k \in Nat, NEW role, NEW r, \A i \in 1..k : r[i] = role[i]
  PROVE  /\ Follows(line, role, k) => Follows(line, r, k)
         /\ \A s : Reached(line, role, k, s) => Reached(line, r, k, s)
  <1>1. \A i \in 1..k : /\ i > 1 => i - 1 \in 1..k
                        /\ \A j \in 1..i - 1 : j \in 1..k
    OBVIOUS
  <1>2. ASSUME Follows(line, role, k), NEW i \in 1..k PROVE RoleAt(line, r, i)
    <2>1. RoleAt(line, role, i)
      BY <1>2 DEF Follows
    <2> QED
      BY <1>1, <2>1 DEF RoleAt
  <1>3. ASSUME NEW s, Reached(line, role, k, s) PROVE Reached(line, r, k, s)
    <2>1. PICK taken : /\ On(s, OpenOption(line, role, k), Seen(line, role, k), taken)
                      /\ Says(line, role, k, taken)
      BY <1>3 DEF Reached
    <2>2. \A i \in 1..k - 1 : i \in 1..k
      OBVIOUS
    <2>3. OpenOption(line, r, k) = OpenOption(line, role, k)
      <3>1. k >= 1 => k \in 1..k
        OBVIOUS
      <3> QED
        BY <3>1 DEF OpenOption
    <2>4. Seen(line, r, k) = Seen(line, role, k)
      <3>1. {j \in 1..k - 1 : r[j] = "option"} = {j \in 1..k - 1 : role[j] = "option"}
        BY <2>2
      <3> QED
        BY <3>1 DEF Seen
    <2>5. Says(line, r, k, taken)
      BY <2>1, <2>2 DEF Says
    <2> QED
      BY <2>1, <2>3, <2>4, <2>5 DEF Reached
  <1> QED
    BY <1>2, <1>3 DEF Follows

\* A word that is taken plays a role.
LEMMA WordPlays ==
  ASSUME NEW W, NEW line \in Seq(W), NEW k \in Nat, k + 1 <= Len(line),
         NEW role \in [1..Len(line) -> Kinds], Follows(line, role, k),
         NEW s, Reached(line, role, k, s), Take(s, line[k + 1]).ok
  PROVE  \E r \in [1..Len(line) -> Kinds] :
            Follows(line, r, k + 1) /\ Reached(line, r, k, s)
  <1> DEFINE word == line[k + 1]
             kind == IF k >= 1 /\ role[k] = "option" THEN "value"
                     ELSE IF word \in Valued THEN "option" ELSE "flag"
             r == [role EXCEPT ![k + 1] = kind]
  <1>1. k + 1 \in 1..Len(line) /\ Len(line) \in Nat
    OBVIOUS
  <1>2. r \in [1..Len(line) -> Kinds] /\ r[k + 1] = kind
    BY <1>1 DEF Kinds
  <1>3. \A i \in 1..k : r[i] = role[i]
    BY <1>1
  <1> HIDE DEF r
  <1>4. Follows(line, r, k) /\ Reached(line, r, k, s)
    BY <1>3, SameRoles
  <1>5. (k + 1) - 1 = k /\ (k + 1 > 1 <=> k >= 1) /\ (k >= 1 => k \in 1..k)
    OBVIOUS
  <1>6. CASE k >= 1 /\ role[k] = "option"
    <2>1. r[k + 1] = "value" /\ r[k] = "option"
      BY <1>2, <1>3, <1>5, <1>6
    <2>2. RoleAt(line, r, k + 1)
      BY <1>5, <1>6, <2>1 DEF RoleAt
    <2> QED
      <3>1. \A i \in 1..k + 1 : i \in 1..k \/ i = k + 1
        OBVIOUS
      <3> QED
        BY <1>2, <1>4, <2>2, <3>1 DEF Follows
  <1>7. CASE ~(k >= 1 /\ role[k] = "option")
    <2>1. PICK taken : On(s, OpenOption(line, role, k), Seen(line, role, k), taken)
      BY DEF Reached
    <2>2. OpenOption(line, role, k) = ""
      BY <1>7 DEF OpenOption
    <2>3. On(s, "", Seen(line, role, k), taken)
      BY <2>1, <2>2
    <2>4. word \in Valued \ Seen(line, role, k) \/ word = "-n"
      <3>1. ~ (word \notin Valued \ Seen(line, role, k) /\ word # "-n")
        BY <2>3, TakeWord
      <3> QED
        BY <3>1
    <2>5. word = "-n" => word \notin Valued
      BY DEF Valued
    <2>6. r[k + 1] # "value" /\ (k >= 1 => r[k] # "option")
      BY <1>2, <1>3, <1>5, <1>7
    <2>7. /\ r[k + 1] = "option" => word \in Valued /\ word \notin Seen(line, role, k)
          /\ r[k + 1] = "flag" => word = "-n"
      BY <1>2, <1>7, <2>4, <2>5
    <2>8. ASSUME r[k + 1] = "option", NEW j \in 1..k, r[j] = "option"
          PROVE  line[j] # word
      <3>1. j \in 1..k - 1
        BY <1>5, <2>6, <2>8
      <3>2. line[j] \in Seen(line, role, k)
        BY <1>3, <2>8, <3>1 DEF Seen
      <3> QED
        BY <2>7, <2>8, <3>2
    <2>9. RoleAt(line, r, k + 1)
      BY <1>5, <2>6, <2>7, <2>8 DEF RoleAt
    <2> QED
      <3>1. \A i \in 1..k + 1 : i \in 1..k \/ i = k + 1
        OBVIOUS
      <3> QED
        BY <1>2, <1>4, <2>9, <3>1 DEF Follows
  <1> QED
    BY <1>6, <1>7

-----------------------------------------------------------------------------
(* The whole command line. *)

\* The roles that get_parameters allows: only -n may be repeated.
Allowed(line) == Roles(line, {"-n"})

\* They are those that a word may play after those before it, with no option at the end.
LEMMA RolesFollow ==
  ASSUME NEW W, NEW line \in Seq(W), NEW role \in [1..Len(line) -> Kinds]
  PROVE  role \in Allowed(line) <=> /\ Follows(line, role, Len(line))
                                    /\ Len(line) >= 1 => role[Len(line)] # "option"
  <1>1. DOMAIN line = 1..Len(line) /\ Len(line) \in Nat
    OBVIOUS
  <1> USE DEF Allowed
  <1>2. ASSUME role \in Allowed(line)
        PROVE  Follows(line, role, Len(line)) /\ (Len(line) >= 1 => role[Len(line)] # "option")
    <2>1. ASSUME NEW i \in 1..Len(line) PROVE RoleAt(line, role, i)
      <3>1. \A j \in 1..i - 1 : j \in DOMAIN line \ {i}
        BY <1>1
      <3>2. role[i] = "option" => line[i] \in Valued /\ line[i] \notin {"-n"}
        BY <1>1, <1>2 DEF Roles, Valued
      <3> QED
        BY <1>1, <1>2, <3>1, <3>2 DEF RoleAt, Roles
    <2>2. Len(line) >= 1 => role[Len(line)] # "option"
      BY <1>1, <1>2 DEF Roles
    <2> QED
      BY <2>1, <2>2 DEF Follows
  <1>3. ASSUME Follows(line, role, Len(line)), Len(line) >= 1 => role[Len(line)] # "option"
        PROVE  role \in Allowed(line)
    <2>1. \A i \in 1..Len(line) : RoleAt(line, role, i)
      BY <1>3 DEF Follows
    <2>2. \A i \in 1..Len(line) : role[i] = "option" => i < Len(line)
      BY <1>1, <1>3
    <2>3. ASSUME NEW i \in 1..Len(line), NEW j \in 1..Len(line), i # j,
                 role[i] = "option", role[j] = "option"
          PROVE  line[i] # line[j]
      <3>1. i \in 1..j - 1 \/ j \in 1..i - 1
        BY <1>1, <2>3
      <3> QED
        BY <2>1, <2>3, <3>1 DEF RoleAt
    <2>4. ASSUME NEW i \in 1..Len(line), NEW j \in 1..Len(line), i # j,
                 role[i] # "value", role[j] # "value", line[i] \notin {"-n"}
          PROVE  line[i] # line[j]
      <3>1. role[i] = "option" /\ role[j] \in {"option", "flag"}
        BY <2>1, <2>4 DEF RoleAt, Kinds
      <3>2. role[j] = "flag" => line[j] = "-n"
        BY <2>1 DEF RoleAt
      <3> QED
        BY <2>3, <2>4, <3>1, <3>2
    <2> QED
      BY <1>1, <2>1, <2>2, <2>4 DEF Roles, RoleAt, Kinds
  <1> QED
    BY <1>2, <1>3

\* What get_parameters makes of the words in their roles.
TakenFrom(line, role) ==
    [baudrate |-> Given(line, role, "-b", Atoi, DefaultArgs.baudrate),
     serial_port |-> Given(line, role, "-s", Cut, DefaultArgs.serial_port),
     log_level |-> Given(line, role, "-l", Byte, DefaultArgs.log_level),
     disable_log_file |-> \E i \in DOMAIN line : role[i] = "flag"]

LEMMA SaysTaken ==
  ASSUME NEW W, NEW line \in Seq(W), NEW role \in Allowed(line),
         NEW taken, IsArgs(taken), Says(line, role, Len(line), taken)
  PROVE  taken = TakenFrom(line, role)
  <1> DEFINE Named(o, i) == role[i] = "option" /\ line[i] = o
             first(o) == CHOOSE i \in DOMAIN line : Named(o, i)
  <1>1. DOMAIN line = 1..Len(line) /\ Len(line) \in Nat
    OBVIOUS
  <1>2. ASSUME NEW o \in Valued
        PROVE  Field(taken, o) = IF \E i \in DOMAIN line : Named(o, i)
                                THEN Stored(o, line[1 + first(o)])
                                ELSE Field(DefaultArgs, o)
    <2>1. CASE \E i \in DOMAIN line : Named(o, i)
      <3>1. first(o) \in DOMAIN line /\ Named(o, first(o))
        BY <2>1
      <3> HIDE DEF first
      <3>2. first(o) < Len(line)
        BY <1>1, <3>1 DEF Allowed, Roles
      <3>3. first(o) \in 1..Len(line) - 1 /\ first(o) + 1 = 1 + first(o)
        BY <1>1, <3>1, <3>2
      <3> QED
        BY <2>1, <3>1, <3>3 DEF Says
    <2>2. CASE ~ \E i \in DOMAIN line : Named(o, i)
      <3>1. \A i \in 1..Len(line) - 1 : i \in DOMAIN line
        BY <1>1
      <3> QED
        BY <2>2, <3>1 DEF Says
    <2> QED
      BY <2>1, <2>2
  <1>3. Field(taken, "-b") = Given(line, role, "-b", Atoi, DefaultArgs.baudrate)
    BY <1>2, SMT DEF Given, Stored, Field, Valued
  <1>4. Field(taken, "-s") = Given(line, role, "-s", Cut, DefaultArgs.serial_port)
    BY <1>2, SMT DEF Given, Stored, Field, Valued
  <1>5. Field(taken, "-l") = Given(line, role, "-l", Byte, DefaultArgs.log_level)
    BY <1>2, SMT DEF Given, Stored, Field, Valued, Byte
  <1>6. taken.disable_log_file = (\E i \in DOMAIN line : role[i] = "flag")
    BY <1>1 DEF Says
  <1>7. taken = ArgsOf(Field(taken, "-b"), Field(taken, "-s"), Field(taken, "-l"),
                      taken.disable_log_file)
    <2>1. PICK b, p, l, d : taken = ArgsOf(b, p, l, d)
      BY DEF IsArgs
    <2> QED
      BY <2>1, FieldsOf
  <1> QED
    BY <1>3, <1>4, <1>5, <1>6, <1>7 DEF TakenFrom, ArgsOf

\* get_parameters accepts the command lines whose words have roles that it allows.
LEMMA AllowedIsParsed ==
  ASSUME NEW W, NEW line \in Seq(W)
  PROVE  /\ get_parameters(line).ok <=> Allowed(line) # {}
         /\ \A role \in Allowed(line) : get_parameters(line).args = TakenFrom(line, role)
  <1> DEFINE n == Len(line)
  <1>1. PICK g : /\ g[0] = Begin
                 /\ \A k \in 1..n : g[k] = Take(g[k - 1], line[k])
                 /\ Parsed(line) = g[n]
    BY ParsedUnfold
  <1>2. n \in Nat /\ DOMAIN line = 1..n
    OBVIOUS
  <1>3. ASSUME NEW k \in Nat, k + 1 <= n PROVE g[k + 1] = Take(g[k], line[k + 1])
    <2>1. k + 1 \in 1..n /\ (k + 1) - 1 = k
      BY <1>2, <1>3
    <2> QED
      BY <1>1, <2>1
  <1>4. /\ get_parameters(line).ok = (g[n].ok /\ g[n].expect = "")
        /\ get_parameters(line).args = g[n].args
    BY <1>1 DEF get_parameters, Parsed
  <1>5. ASSUME NEW role \in Allowed(line)
        PROVE  g[n].ok /\ g[n].expect = "" /\ g[n].args = TakenFrom(line, role)
    <2>1. role \in [1..n -> Kinds]
      BY <1>2 DEF Allowed, Roles, Kinds
    <2>2. Follows(line, role, n) /\ (n >= 1 => role[n] # "option")
      BY <2>1, RolesFollow
    <2> DEFINE S == {k \in Nat : k <= n => Reached(line, role, k, g[k])}
    <2>3. 0 \in S
      BY <1>1, NothingRead
    <2>4. ASSUME NEW k \in Nat, k \in S PROVE k + 1 \in S
      <3> SUFFICES ASSUME k + 1 <= n PROVE Reached(line, role, k + 1, g[k + 1])
        OBVIOUS
      <3>1. Reached(line, role, k, g[k])
        BY <1>2, <2>4
      <3>2. Follows(line, role, k + 1)
        <4>1. \A i \in 1..k + 1 : i \in 1..n
          BY <1>2
        <4> QED
          BY <2>2, <4>1 DEF Follows
      <3>3. Reached(line, role, k + 1, Take(g[k], line[k + 1]))
        BY <2>1, <3>1, <3>2, WordTaken
      <3> QED
        BY <1>3, <3>3
    <2>5. \A k \in Nat : k \in S
      <3> HIDE DEF S
      <3> QED
        BY <2>3, <2>4, CountingUp
    <2>6. Reached(line, role, n, g[n])
      BY <1>2, <2>5
    <2>7. PICK taken : /\ On(g[n], OpenOption(line, role, n), Seen(line, role, n), taken)
                      /\ Says(line, role, n, taken)
      BY <2>6 DEF Reached
    <2>8. OpenOption(line, role, n) = ""
      BY <2>2 DEF OpenOption
    <2>9. g[n].ok /\ g[n].expect = "" /\ g[n].args = taken /\ IsArgs(taken)
      <3> HIDE DEF n
      <3>1. On(g[n], "", Seen(line, role, n), taken)
        BY <2>7, <2>8
      <3> QED
        BY <3>1, OnFields
    <2>10. taken = TakenFrom(line, role)
      BY <2>7, <2>9, SaysTaken
    <2> QED
      BY <2>9, <2>10
  <1>6. ASSUME g[n].ok, g[n].expect = "" PROVE Allowed(line) # {}
    <2> DEFINE Plays(k, role) == Follows(line, role, k) /\ Reached(line, role, k, g[k])
               S == {k \in Nat : k <= n /\ g[k].ok => \E role \in [1..n -> Kinds] : Plays(k, role)}
    <2>1. 0 \in S
      <3> DEFINE role == [i \in 1..n |-> "flag"]
      <3>1. role \in [1..n -> Kinds]
        BY DEF Kinds
      <3>2. Follows(line, role, 0)
        BY DEF Follows
      <3>3. Reached(line, role, 0, g[0])
        BY <1>1, NothingRead
      <3> QED
        BY <3>1, <3>2, <3>3
    <2>2. ASSUME NEW k \in Nat, k \in S PROVE k + 1 \in S
      <3> SUFFICES ASSUME k + 1 <= n, g[k + 1].ok
                   PROVE  \E role \in [1..n -> Kinds] : Plays(k + 1, role)
        OBVIOUS
      <3>1. g[k + 1] = Take(g[k], line[k + 1])
        BY <1>3
      <3>2. g[k].ok
        BY <3>1, TakeStops
      <3>3. PICK role \in [1..n -> Kinds] : Plays(k, role)
        BY <1>2, <2>2, <3>2
      <3>4. PICK r \in [1..n -> Kinds] :
               Follows(line, r, k + 1) /\ Reached(line, r, k, g[k])
        BY <3>1, <3>3, WordPlays
      <3>5. Reached(line, r, k + 1, g[k + 1])
        BY <3>1, <3>4, WordTaken
      <3> QED
        BY <3>4, <3>5
    <2>3. \A k \in Nat : k \in S
      <3> HIDE DEF S
      <3> QED
        BY <2>1, <2>2, CountingUp
    <2>4. PICK role \in [1..n -> Kinds] : Plays(n, role)
      <3>1. n \in S
        BY <1>2, <2>3
      <3>2. n <= n
        BY <1>2
      <3> HIDE DEF Plays, n
      <3> QED
        BY <1>6, <3>1, <3>2, Zenon
    <2>5. PICK taken : On(g[n], OpenOption(line, role, n), Seen(line, role, n), taken)
      BY <2>4 DEF Reached
    <2>6. OpenOption(line, role, n) = ""
      <3> HIDE DEF n
      <3>1. g[n].expect = OpenOption(line, role, n)
        BY <2>5, OnFields
      <3> QED
        BY <1>6, <3>1
    <2>7. n >= 1 => role[n] # "option"
      <3> SUFFICES ASSUME n >= 1, role[n] = "option" PROVE FALSE
        OBVIOUS
      <3>1. n \in 1..n
        BY <1>2
      <3>2. line[n] \in Valued
        BY <2>4, <3>1 DEF Follows, RoleAt
      <3>3. line[n] = ""
        BY <2>6 DEF OpenOption
      <3> QED
        BY <3>2, <3>3 DEF Valued
    <2>8. role \in Allowed(line)
      BY <2>4, <2>7, RolesFollow
    <2> QED
      BY <2>8
  <1> HIDE DEF n
  <1> QED
    BY <1>4, <1>5, <1>6

\* A value that fits is stored as it is.
LEMMA FittingIsTaken ==
  ASSUME NEW W, NEW line \in Seq(W), NEW role \in Allowed(line), AllFit(line, role)
  PROVE  TakenFrom(line, role) = Meaning(line, role)
  <1> DEFINE Named(o, i) == role[i] = "option" /\ line[i] = o
             first(o) == CHOOSE i \in DOMAIN line : Named(o, i)
             word(o) == line[1 + first(o)]
  <1>1. ASSUME NEW o, \E i \in DOMAIN line : Named(o, i)
        PROVE  Suits(o, word(o))
    <2>1. first(o) \in DOMAIN line /\ Named(o, first(o))
      BY <1>1
    <2> HIDE DEF first
    <2>2. first(o) + 1 = 1 + first(o)
      BY <2>1
    <2> QED
      BY <2>1, <2>2 DEF AllFit
  <1> HIDE DEF first
  <1>2. Given(line, role, "-s", Cut, DefaultArgs.serial_port)
           = Given(line, role, "-s", Itself, DefaultArgs.serial_port)
    <2>1. CASE \E i \in DOMAIN line : Named("-s", i)
      <3>1. Cut(word("-s")) = Itself(word("-s"))
        BY <1>1, <2>1 DEF Suits, Itself
      <3> QED
        BY <2>1, <3>1, SMT DEF Given, first, Itself
    <2>2. CASE ~ \E i \in DOMAIN line : Named("-s", i)
      BY <2>2, SMT DEF Given
    <2> QED
      BY <2>1, <2>2
  <1>3. Given(line, role, "-l", Byte, DefaultArgs.log_level)
           = Given(line, role, "-l", Atoi, DefaultArgs.log_level)
    <2>1. CASE \E i \in DOMAIN line : Named("-l", i)
      <3>1. Byte(word("-l")) = Atoi(word("-l"))
        <4> DEFINE a == Atoi(word("-l"))
        <4>1. a \in 0..5
          BY <1>1, <2>1 DEF Suits, LogLevels
        <4>2. Byte(word("-l")) = a % 256
          BY DEF Byte
        <4> HIDE DEF a
        <4>3. a % 256 = a
          BY <4>1
        <4> QED
          BY <4>2, <4>3 DEF a
      <3> QED
        BY <2>1, <3>1, SMT DEF Given, first, Byte
    <2>2. CASE ~ \E i \in DOMAIN line : Named("-l", i)
      BY <2>2, SMT DEF Given
    <2> QED
      BY <2>1, <2>2
  <1> QED
    BY <1>2, <1>3 DEF TakenFrom, Meaning

\* get_parameters accepts every command line of USAGE and takes from it what it says, if
\* the values fit; and it accepts no others than those that repeat -n.
THEOREM UsageIsParsed ==
  ASSUME NEW W, NEW line \in Seq(W)
  PROVE  ParsedAsUsage(line)
  <1>1. ASSUME NEW role \in Roles(line, {})
        PROVE  role \in Allowed(line)
    BY DEF Allowed, Roles
  <1>2. ASSUME NEW role \in Roles(line, {})
        PROVE  /\ get_parameters(line).ok
               /\ AllFit(line, role) => get_parameters(line).args = Meaning(line, role)
    BY <1>1, AllowedIsParsed, FittingIsTaken
  <1> QED
    BY <1>2, AllowedIsParsed DEF ParsedAsUsage, Allowed

-----------------------------------------------------------------------------
(* The LED queue. *)

\* Every step of Startup is one of LedQueue, or leaves its variables alone.
LEMMA StepOfLed == [Next]_vars => [Led!Next]_(Led!vars)
  <1> SUFFICES ASSUME [Next]_vars PROVE [Led!Next]_(Led!vars)
    OBVIOUS
  <1> USE DEF Led!vars, Led!queueVars
  <1>1. CASE UNCHANGED ledVars
    BY <1>1 DEF ledVars
  <1>2. ASSUME NEW step, NEW next, NEW j \in Led!DemoJobs, PushAt(step, next, j)
        PROVE  Led!Next
    BY <1>2 DEF PushAt, Led!Next, Led!Main
  <1>3. ASSUME NEW step, NEW next, NEW failed, Returned(step, next, failed)
        PROVE  UNCHANGED ledVars
    BY <1>3 DEF Returned, Main
  <1>4. CASE StartUp
    <2>1. CASE PushFirstJob \/ PushNetworkJob \/ PushScanJob
      BY <1>2, <2>1, JobsAssumption
      DEF PushFirstJob, PushNetworkJob, PushScanJob, Led!DemoJobs, Led!Colours
    <2>2. CASE ReadArguments \/ CreateThread \/ OpenLog \/ InitCurl \/ OpenPort
      BY <1>1, <2>2 DEF ReadArguments, CreateThread, OpenLog, InitCurl, OpenPort, Main
    <2>3. CASE CheckNetwork \/ Provision \/ RunAzure
      BY <1>1, <2>3 DEF CheckNetwork, Provision, RunAzure, CallAzure, Main
    <2>4. CASE NetworkChecked \/ Provisioned
      BY <1>1, <1>3, <2>4 DEF NetworkChecked, Provisioned
    <2> QED
      BY <1>4, <2>1, <2>2, <2>3, <2>4 DEF StartUp
  <1>5. CASE Loop
    <2>1. CASE Upload \/ DemoFails
      BY <1>1, <2>1 DEF Upload, CallAzure, DemoFails, Main
    <2>2. CASE Uploaded
      BY <1>1, <1>3, <2>2 DEF Uploaded
    <2>3. ASSUME NEW j \in Led!DemoJobs, PushDemoJob(j) PROVE Led!Next
      BY <1>2, <2>3 DEF PushDemoJob
    <2> QED
      BY <1>5, <2>1, <2>2, <2>3 DEF Loop
  <1>6. CASE FlashLed
    BY <1>1, <1>6 DEF FlashLed, CloseLog, Main, FlashRed, Shutdown,
                      Led!Next, Led!Main, Led!FlashLed
  <1>7. CASE Worker
    BY <1>7 DEF Worker, Led!Next
  <1>8. CASE UseClosedLog
    BY <1>1, <1>8 DEF UseClosedLog
  <1>9. CASE UNCHANGED vars
    BY <1>1, <1>9 DEF vars
  <1> QED
    BY <1>4, <1>5, <1>6, <1>7, <1>8, <1>9 DEF Next

LEMMA NullIsNoSlot == \A n \in Nat : n # Led!Null
  BY SMT DEF Led!Null

\* What the worker and a push do to start, and to what else main looks at.
LEMMA WorkerKeepsStart ==
  ASSUME start \in Nat \cup {Led!Null}, Led!Worker
  PROVE  /\ start' \in Nat \cup {Led!Null}
         /\ start' = Led!Null <=> start = Led!Null
         /\ mpc' = mpc
         /\ crashed' => crashed \/ start = Led!Null
  <1> USE SMT DEF Led!Null
  <1>1. start \in Nat => Led!After(start) \in Nat
    BY DEF Led!After
  <1>2. CASE Led!Get
    BY <1>1, <1>2 DEF Led!Get, Led!queueVars
  <1>3. CASE Led!CheckCrash \/ Led!Check \/ Led!Work
    BY <1>3 DEF Led!CheckCrash, Led!Check, Led!Work, Led!queueVars
  <1> QED
    BY <1>2, <1>3 DEF Led!Worker

LEMMA PushSetsStart ==
  ASSUME start \in Nat \cup {Led!Null}, NEW j, Led!Push(j)
  PROVE  start' \in Nat
  BY SMT DEF Led!Push, Led!Null, Led!queueVars

-----------------------------------------------------------------------------
(* Requests and their responses. *)

\* A request belongs to one of the three calls that make one.
RequestInv ==
    /\ call \in Calls \cup {"none"}
    /\ buffer \in Seq(Calls)
    /\ req # "no" => call \in {"register", "poll", "post"}
    /\ ResponseOfThisRequest

\* A step of main either calls a function of Azure or takes a step of one that
\* runs, or leaves all of Azure alone.
LEMMA StepOfAzure ==
  ASSUME [Next]_vars
  PROVE  \/ WaitForNetwork /\ at' = "in network" /\ UNCHANGED mpc
         \/ InitAzure /\ at' = "in azure" /\ UNCHANGED mpc
         \/ PostTelemetry /\ at = "loop" /\ at' = "in loop" /\ UNCHANGED <<mpc, port, args>>
         \/ AzureStep /\ call # "none" /\ UNCHANGED <<mainVars, mpc>>
         \/ UNCHANGED azureVars
  <1>1. ASSUME NEW step, NEW next, NEW failed, Returned(step, next, failed)
        PROVE  UNCHANGED azureVars
    BY <1>1 DEF Returned, Main
  <1>2. CASE StartUp
    <2>1. CASE PushFirstJob \/ PushNetworkJob \/ PushScanJob
      BY <2>1 DEF PushFirstJob, PushNetworkJob, PushScanJob
    <2>2. CASE ReadArguments \/ CreateThread \/ OpenLog \/ InitCurl \/ OpenPort
      BY <2>2 DEF ReadArguments, CreateThread, OpenLog, InitCurl, OpenPort
    <2>3. CASE CheckNetwork \/ Provision
      BY <2>3 DEF CheckNetwork, Provision, CallAzure, Goto, Main, ledVars
    <2>4. CASE NetworkChecked \/ Provisioned
      BY <1>1, <2>4 DEF NetworkChecked, Provisioned
    <2>5. CASE RunAzure
      BY <2>5 DEF RunAzure, ledVars
    <2> QED
      BY <1>2, <2>1, <2>2, <2>3, <2>4, <2>5 DEF StartUp
  <1>3. CASE Loop
    <2>1. CASE Upload
      BY <2>1 DEF Upload, CallAzure, Goto, Main, ledVars
    <2>2. CASE Uploaded \/ DemoFails
      BY <1>1, <2>2 DEF Uploaded, DemoFails
    <2>3. CASE \E j \in Led!DemoJobs : PushDemoJob(j)
      BY <2>3 DEF PushDemoJob
    <2> QED
      BY <1>3, <2>1, <2>2, <2>3 DEF Loop
  <1>4. CASE FlashLed \/ Worker \/ UseClosedLog
    BY <1>4 DEF FlashLed, CloseLog, FlashRed, Shutdown, Worker, UseClosedLog
  <1>5. CASE UNCHANGED vars
    BY <1>5 DEF vars
  <1> QED
    BY <1>2, <1>3, <1>4, <1>5 DEF Next

LEMMA InitRequestInv == Init => RequestInv
  <1> SUFFICES ASSUME Init PROVE RequestInv
    OBVIOUS
  <1>1. call = "none" /\ req = "no" /\ buffer = <<>>
    BY DEF Init, AzureInit
  <1> QED
    BY <1>1 DEF RequestInv, ResponseOfThisRequest

LEMMA NextRequestInv == RequestInv /\ [Next]_vars => RequestInv'
  <1> SUFFICES ASSUME RequestInv, [Next]_vars PROVE RequestInv'
    OBVIOUS
  <1> USE DEF RequestInv, ResponseOfThisRequest, Calls, Return, BeginRequest, ResetResponse
  <1>1. CASE WaitForNetwork \/ InitAzure
    <2>1. req = "no" /\ req' = req /\ buffer' = buffer /\ call' \in {"network", "config"}
      BY <1>1 DEF WaitForNetwork, InitAzure
    <2> QED
      BY <2>1
  <1>4. ASSUME call' \in {"register", "poll", "post"}, BeginRequest PROVE RequestInv'
    <2>1. buffer' = <<>> /\ json' = NoJson
      BY <1>4
    <2> QED
      BY <1>4, <2>1 DEF NoJson
  <1>5. CASE PostTelemetry
    BY <1>4, <1>5 DEF PostTelemetry
  <1>6. ASSUME req' = "no", call' \in Calls \cup {"none"}, buffer' = buffer PROVE RequestInv'
    BY <1>6
  <1>2. CASE AzureStep /\ call # "none"
    <2>1. CASE ReceiveChunk
      BY <2>1 DEF ReceiveChunk
    <2>2. CASE RequestDone
      <3>1. json' = NoJson \/ (buffer # <<>> /\ json'.of = Head(buffer))
        BY <2>2 DEF RequestDone
      <3>2. buffer # <<>> => Head(buffer) = call
        BY <2>2 DEF RequestDone
      <3> QED
        BY <2>2, <3>1, <3>2 DEF RequestDone
    <2>3. CASE RequestFails
      BY <2>3 DEF RequestFails
    <2>4. CASE NoConnection \/ NetworkUp \/ NetworkError
      <3>1. req = "no" /\ req' = req /\ buffer' \in Seq(Calls)
        BY <2>4 DEF NoConnection, NetworkUp, NetworkError
      <3> QED
        BY <2>4, <3>1 DEF NoConnection, NetworkUp, NetworkError
    <2>5. CASE Register \/ Registered
      BY <1>4, <2>5 DEF Register, Registered
    <2>6. CASE NoConfig \/ RegistrationFails \/ Assigned \/ PollFails \/ Posted
      <3>1. req' = "no" /\ call' = "none" /\ buffer' = buffer
        BY <2>6 DEF NoConfig, RegistrationFails, Assigned, PollFails, Posted
      <3> QED
        BY <1>6, <3>1
    <2>7. CASE NotAssigned
      <3>1. CASE attempt' < HostNameRetries
        BY <1>4, <2>7, <3>1 DEF NotAssigned
      <3>2. CASE ~(attempt' < HostNameRetries)
        BY <1>6, <2>7, <3>2 DEF NotAssigned
      <3> QED
        BY <3>1, <3>2
    <2> QED
      BY <1>2, <2>1, <2>2, <2>3, <2>4, <2>5, <2>6, <2>7 DEF AzureStep
  <1>3. CASE UNCHANGED azureVars
    BY <1>3 DEF azureVars
  <1> QED
    BY <1>1, <1>2, <1>3, <1>5, StepOfAzure

LEMMA RequestInvariance == Spec => []RequestInv
  BY InitRequestInv, NextRequestInv, PTL DEF Spec

\* make_request forgets _buffer_offset and _json_response first: what is parsed, and
\* what its callers look at, came for the request they made.
THEOREM ResponsesBelong == Spec => []ResponseOfThisRequest
  BY RequestInvariance, PTL DEF RequestInv

-----------------------------------------------------------------------------
(* What the loop relies on. *)

HubKnown ==
    /\ operation = "whole"
    /\ device # ""
    /\ hub = IF device = "exact" THEN "cut" ELSE "whole"

\* A function of Azure runs at the step of main that called it; a parsed response that
\* names a hub is that of a poll for the registration and names the service's hub; and
\* azure_init returns success only when that name has been stored.
ReadyInv ==
    /\ device \in HubNames \cup {""}
    /\ call \in {"config", "register", "poll"} => at = "in azure"
    /\ call = "network" => at = "in network"
    /\ call = "post" => at = "in loop"
    /\ req = "ok" /\ json.says \in HubNames =>
           call = "poll" /\ operation = "whole" /\ device = json.says
    /\ at = "in azure" /\ call = "none" /\ ret = "ok" => HubKnown
    /\ at \in {"uart", "scan job", "loop", "in loop"} => HubKnown
    /\ at \in {"scan job", "loop", "in loop"} /\ mpc = "run" =>
           port = "open" /\ args.baudrate \in Speeds

LEMMA InitReadyInv == Init => ReadyInv
  <1> SUFFICES ASSUME Init PROVE ReadyInv
    OBVIOUS
  <1>1. call = "none" /\ req = "no" /\ device = "" /\ at = "args"
    BY DEF Init, AzureInit
  <1> QED
    BY <1>1 DEF ReadyInv

\* A step of main while no function of Azure runs.
LEMMA MainKeepsReadyInv ==
  ASSUME ReadyInv, call = "none", UNCHANGED azureVars, at' # "in azure",
         at' \in {"uart", "scan job", "loop", "in loop"} => HubKnown,
         at' \in {"scan job", "loop", "in loop"} /\ mpc' = "run" =>
             port' = "open" /\ args'.baudrate \in Speeds
  PROVE  ReadyInv'
  <1>1. UNCHANGED <<call, ret, req, json, operation, hub, device>>
    BY DEF azureVars
  <1>2. HubKnown => HubKnown'
    BY <1>1 DEF HubKnown
  <1> QED
    BY <1>1, <1>2 DEF ReadyInv

\* Azure calls nothing while main is at a step of its own.
LEMMA NoCall ==
  ASSUME ReadyInv, call \in Calls \cup {"none"},
         at \notin {"in network", "in azure", "in loop"}
  PROVE  call = "none"
  BY DEF ReadyInv, Calls

LEMMA NextReadyInv == RequestInv /\ ReadyInv /\ [Next]_vars => ReadyInv'
  <1> SUFFICES ASSUME RequestInv, ReadyInv, [Next]_vars PROVE ReadyInv'
    OBVIOUS
  <1>0. call \in Calls \cup {"none"} /\ (req # "no" => call \in {"register", "poll", "post"})
    BY DEF RequestInv
  <1>1. ASSUME NEW step, NEW next, NEW j, PushAt(step, next, j), UNCHANGED azureVars,
               <<step, next>> \in {<<"first job", "log">>, <<"network job", "network">>,
                                  <<"scan job", "loop">>, <<"loop", "loop">>}
        PROVE  ReadyInv'
    <2>1. at = step /\ at' = next /\ UNCHANGED <<mpc, port, args>>
      BY <1>1 DEF PushAt, Goto, Led!PushDemoJob
    <2>2. call = "none"
      BY <1>0, <1>1, <2>1, NoCall
    <2> QED
      BY <1>1, <2>1, <2>2, MainKeepsReadyInv DEF ReadyInv
  <1>2. CASE ReadArguments
    <2>1. at = "args" /\ at' \in {"thread", "exit"} /\ UNCHANGED azureVars
      BY <1>2 DEF ReadArguments, Main, Goto
    <2> QED
      BY <1>0, <2>1, NoCall, MainKeepsReadyInv
  <1>3. CASE CreateThread \/ OpenLog \/ InitCurl
    <2>1. /\ at \in {"thread", "log", "curl"}
          /\ at' \in {"first job", "curl", "network job", "fatal"}
          /\ UNCHANGED azureVars
      BY <1>3 DEF CreateThread, OpenLog, InitCurl, Main, Goto
    <2> QED
      BY <1>0, <2>1, NoCall, MainKeepsReadyInv
  <1>4. CASE PushFirstJob \/ PushNetworkJob \/ PushScanJob
    BY <1>1, <1>4 DEF PushFirstJob, PushNetworkJob, PushScanJob
  <1>5. CASE NetworkChecked
    <2>1. call = "none" /\ at' \in {"azure", "fatal"} /\ UNCHANGED azureVars
      BY <1>5 DEF NetworkChecked, Returned, Main, Goto
    <2> QED
      BY <2>1, MainKeepsReadyInv
  <1>6. CASE Provisioned
    <2>1. /\ at = "in azure" /\ call = "none" /\ UNCHANGED azureVars
          /\ at' = IF ret = "ok" THEN "uart" ELSE "fatal"
      BY <1>6 DEF Provisioned, Returned, Main, Goto
    <2>2. ret = "ok" => HubKnown
      BY <2>1 DEF ReadyInv
    <2> QED
      BY <2>1, <2>2, MainKeepsReadyInv
  <1>7. CASE OpenPort
    <2>1. /\ at = "uart" /\ UNCHANGED <<azureVars, args>>
          /\ \/ args.baudrate \in Speeds /\ port' = "open" /\ at' = "scan job"
             \/ at' = "fatal"
      BY <1>7 DEF OpenPort, Main, Goto
    <2>2. call = "none" /\ HubKnown
      BY <1>0, <2>1, NoCall DEF ReadyInv
    <2> QED
      BY <2>1, <2>2, MainKeepsReadyInv
  <1>8. CASE Uploaded
    <2>1. /\ at = "in loop" /\ at' = "loop" /\ call = "none"
          /\ UNCHANGED <<azureVars, mpc, port, args>>
      BY <1>8 DEF Uploaded, Returned, Main, Goto, ledVars
    <2> QED
      BY <2>1, MainKeepsReadyInv DEF ReadyInv
  <1>9. CASE DemoFails
    <2>1. at = "loop" /\ at' = "fatal" /\ UNCHANGED azureVars
      BY <1>9 DEF DemoFails, Main, Goto
    <2> QED
      BY <1>0, <2>1, NoCall, MainKeepsReadyInv
  <1>10. ASSUME NEW j \in Led!DemoJobs, PushDemoJob(j) PROVE ReadyInv'
    BY <1>1, <1>10 DEF PushDemoJob
  <1>11. CASE CloseLog \/ FlashRed
    <2>1. at \in {"fatal", "red"} /\ at' = "red" /\ UNCHANGED azureVars
      BY <1>11 DEF CloseLog, Main, Goto, FlashRed, mainVars
    <2> QED
      BY <1>0, <2>1, NoCall, MainKeepsReadyInv
  <1>12. ASSUME UNCHANGED <<at, port, args, azureVars>>, mpc' = mpc \/ mpc' # "run"
         PROVE  ReadyInv'
    BY <1>12 DEF ReadyInv, HubKnown, azureVars
  <1>13. CASE Shutdown
    BY <1>12, <1>13 DEF Shutdown, Led!WakeUp, Led!PushQuit, Led!JoinAndExit, mainVars
  <1>14. CASE Worker
    <2>1. mpc' = mpc
      BY <1>14 DEF Worker, Led!Worker, Led!CheckCrash, Led!Check, Led!Get, Led!Work
    <2> QED
      BY <1>12, <1>14, <2>1 DEF Worker, mainVars
  <1>15. CASE UseClosedLog
    BY <1>12, <1>15 DEF UseClosedLog, ledVars
  <1>16. CASE UNCHANGED vars
    BY <1>12, <1>16 DEF vars, mainVars, ledVars
  <1>17. CASE CheckNetwork \/ Provision
    <2>1. /\ \/ call' = "network" /\ at' = "in network"
             \/ call' = "config" /\ at' = "in azure"
          /\ req' = req /\ device' = device /\ call = "none"
      BY <1>17 DEF CheckNetwork, Provision, CallAzure, Goto, WaitForNetwork, InitAzure
    <2>2. req = "no"
      BY <1>0, <2>1
    <2> QED
      BY <2>1, <2>2 DEF ReadyInv
  <1>18. CASE Upload
    <2>1. /\ call' = "post" /\ at = "loop" /\ at' = "in loop" /\ req' = "sent"
          /\ UNCHANGED <<device, operation, hub, port, args, mpc>>
      BY <1>18 DEF Upload, CallAzure, Main, Goto, PostTelemetry, BeginRequest, ledVars
    <2> QED
      BY <2>1 DEF ReadyInv, HubKnown
  <1>19. CASE RunAzure
    <2>0. call # "none" /\ AzureStep /\ UNCHANGED <<at, port, args, mpc>>
      BY <1>19 DEF RunAzure, mainVars, ledVars
    <2>1. ASSUME UNCHANGED <<operation, hub, device>>, req' # "ok",
                 call' = call \/ (call' = "none" /\ (at = "in azure" => ret' = "failed"))
          PROVE  ReadyInv'
      BY <2>0, <2>1 DEF ReadyInv, HubKnown
    <2>2. CASE ReceiveChunk
      BY <2>0, <2>2 DEF ReceiveChunk, ReadyInv, HubKnown
    <2>3. CASE RequestFails
      BY <2>1, <2>3 DEF RequestFails
    <2>4. CASE RequestDone
      <3>1. /\ req = "sent" /\ UNCHANGED <<call, ret, operation, hub>>
            /\ json' \in {NoJson} \cup [of : {Head(buffer)}, says : {"other"} \cup Expected]
            /\ device' = IF json'.says \in HubNames THEN json'.says ELSE device
        BY <2>4 DEF RequestDone
      <3>2. /\ "other" \notin HubNames /\ "nothing" \notin HubNames /\ "" \notin HubNames
            /\ Operations \cap HubNames = {}
        BY AzureAssumption DEF Operations
      <3>3. json'.says \in {"nothing", "other"} \cup Expected
        BY <3>1 DEF NoJson
      <3>4. CASE json'.says \in HubNames
        <4>1. json'.says \in Expected
          BY <3>2, <3>3, <3>4
        <4>2. call = "poll" /\ operation = "whole"
          BY <3>2, <3>4, <4>1 DEF Expected
        <4> QED
          BY <2>0, <3>1, <3>4, <4>2 DEF ReadyInv, HubKnown
      <3>5. CASE json'.says \notin HubNames
        <4>1. device' = device
          BY <3>1, <3>5
        <4> QED
          BY <2>0, <3>1, <3>5, <4>1 DEF ReadyInv, HubKnown
      <3> QED
        BY <3>4, <3>5
    <2>5. CASE NoConnection \/ NetworkUp \/ NetworkError
      <3>1. /\ call = "network" /\ req' = req /\ UNCHANGED <<operation, hub, device>>
            /\ call' \in {call, "none"}
        BY <2>5 DEF NoConnection, NetworkUp, NetworkError, Return
      <3>2. req = "no" /\ at = "in network"
        BY <1>0, <3>1 DEF ReadyInv
      <3> QED
        BY <2>1, <3>1, <3>2
    <2>6. CASE NoConfig
      <3>1. call = "config" /\ req' = req /\ UNCHANGED <<operation, hub, device>>
            /\ call' = "none" /\ ret' = "failed"
        BY <2>6 DEF NoConfig, Return
      <3> QED
        BY <1>0, <2>1, <3>1
    <2>7. CASE Register \/ Registered
      <3>1. /\ call \in {"config", "register"} /\ call' \in {"register", "poll"}
            /\ req' = "sent" /\ UNCHANGED <<hub, device>>
        BY <2>7 DEF Register, Registered, BeginRequest
      <3>2. at = "in azure"
        BY <3>1 DEF ReadyInv
      <3> QED
        BY <2>0, <3>1, <3>2 DEF ReadyInv
    <2>8. CASE RegistrationFails \/ PollFails
      BY <2>1, <2>8 DEF RegistrationFails, PollFails, Return
    <2>9. CASE Assigned
      <3>1. /\ call = "poll" /\ req = "ok" /\ json.says \in HubNames /\ json.says # "long"
            /\ hub' = IF json.says = "fits" THEN "whole" ELSE "cut"
            /\ req' = "no" /\ call' = "none" /\ UNCHANGED <<operation, device>>
        BY <2>9 DEF Assigned, Extract, Return
      <3>2. operation = "whole" /\ device = json.says /\ at = "in azure"
        BY <3>1 DEF ReadyInv
      <3>3. device \in {"fits", "exact"}
        BY <3>1, <3>2, AzureAssumption
      <3>4. HubKnown'
        BY <3>1, <3>2, <3>3 DEF HubKnown
      <3> QED
        BY <2>0, <3>1, <3>2, <3>4 DEF ReadyInv
    <2>10. CASE NotAssigned
      <3>1. /\ call = "poll" /\ req' # "ok" /\ UNCHANGED <<operation, device>>
            /\ call' = call \/ (call' = "none" /\ ret' = "failed")
        BY <2>10 DEF NotAssigned, BeginRequest, Return
      <3>2. at = "in azure"
        BY <3>1 DEF ReadyInv
      <3> QED
        BY <2>0, <3>1, <3>2 DEF ReadyInv
    <2>11. CASE Posted
      <3>1. call = "post" /\ req' = "no" /\ call' = "none" /\ UNCHANGED <<operation, hub, device>>
        BY <2>11 DEF Posted, Return
      <3>2. at = "in loop"
        BY <3>1 DEF ReadyInv
      <3> QED
        BY <2>1, <3>1, <3>2
    <2> QED
      BY <2>0, <2>2, <2>3, <2>4, <2>5, <2>6, <2>7, <2>8, <2>9, <2>10, <2>11 DEF AzureStep
  <1> QED
    BY <1>2, <1>3, <1>4, <1>5, <1>6, <1>7, <1>8, <1>9, <1>10, <1>11, <1>13, <1>14, <1>15,
       <1>16, <1>17, <1>18, <1>19 DEF Next, StartUp, Loop, FlashLed

\* Behind a failed or strange answer of the service, a name that does not fit, a port
\* that does not open or an impossible speed, main does not come to its loop.
THEOREM LoopIsProvisioned == Spec => []ReadyMeansProvisioned
  <1>1. ReadyInv => ReadyMeansProvisioned
    BY DEF ReadyInv, ReadyMeansProvisioned, HubKnown
  <1> QED
    BY <1>1, InitReadyInv, NextReadyInv, RequestInvariance, PTL DEF Spec

-----------------------------------------------------------------------------
(* What is proved of LedQueue holds of Startup. *)

LEMMA LedAssumptions == LedProof!CapacityAssumption /\ LedProof!JobAssumption
  BY LedAssumption
  DEF LedProof!CapacityAssumption, LedProof!JobAssumption, LedProof!Colours, LedProof!Jobs

\* The queue that LedQueue_proof is about is that of Startup.
LEMMA SamePush ==
  /\ \A i : LedProof!After(i) = Led!After(i) /\ (LedProof!Empty(i) <=> Led!Empty(i))
  /\ \A j : LedProof!Push(j) <=> Led!Push(j)
  <1>1. \A i : LedProof!After(i) = Led!After(i) /\ (LedProof!Empty(i) <=> Led!Empty(i))
    BY DEF LedProof!After, Led!After, LedProof!Empty, Led!Empty
  <1>2. ASSUME NEW j PROVE LedProof!Push(j) <=> Led!Push(j)
    BY <1>1 DEF LedProof!Push, Led!Push, LedProof!Null, Led!Null,
                LedProof!queueVars, Led!queueVars
  <1> QED
    BY <1>1, <1>2

LEMMA SameQueue ==
  /\ LedProof!Init <=> Led!Init
  /\ [LedProof!Next]_(LedProof!vars) <=> [Led!Next]_(Led!vars)
  /\ LedProof!TypeOK <=> Led!TypeOK
  <1>1. LedProof!Init <=> Led!Init
    BY DEF LedProof!Init, Led!Init, LedProof!Slots, Led!Slots, LedProof!Null, Led!Null
  <1>2. LedProof!TypeOK <=> Led!TypeOK
    BY DEF LedProof!TypeOK, Led!TypeOK, LedProof!Slots, Led!Slots, LedProof!Null, Led!Null,
           LedProof!Colours, Led!Colours, LedProof!Jobs, Led!Jobs
  <1>3. LedProof!Worker <=> Led!Worker
    <2> USE DEF LedProof!Null, Led!Null, LedProof!queueVars, Led!queueVars
    <2>1. LedProof!CheckCrash <=> Led!CheckCrash
      BY DEF LedProof!CheckCrash, Led!CheckCrash
    <2>2. LedProof!Check <=> Led!Check
      BY SamePush DEF LedProof!Check, Led!Check
    <2>3. LedProof!Get <=> Led!Get
      BY SamePush DEF LedProof!Get, Led!Get
    <2>4. LedProof!Work <=> Led!Work
      BY DEF LedProof!Work, Led!Work, LedProof!Colours, Led!Colours
    <2> QED
      BY <2>1, <2>2, <2>3, <2>4, Zenon DEF LedProof!Worker, Led!Worker
  <1>4. LedProof!Main <=> Led!Main
    <2>1. \A j : LedProof!PushDemoJob(j) <=> Led!PushDemoJob(j)
      BY SamePush DEF LedProof!PushDemoJob, Led!PushDemoJob
    <2>2. LedProof!FlashLed <=> Led!FlashLed
      BY SamePush DEF LedProof!FlashLed, Led!FlashLed, LedProof!FlashRed, Led!FlashRed,
                      LedProof!WakeUp, Led!WakeUp, LedProof!PushQuit, Led!PushQuit,
                      LedProof!JoinAndExit, Led!JoinAndExit,
                      LedProof!queueVars, Led!queueVars
    <2> QED
      BY <2>1, <2>2, Zenon
      DEF LedProof!Main, Led!Main, LedProof!DemoJobs, Led!DemoJobs,
          LedProof!Colours, Led!Colours
  <1>5. LedProof!vars = Led!vars /\ (LedProof!Stopped <=> Led!Stopped)
    BY DEF LedProof!vars, Led!vars, LedProof!Stopped, Led!Stopped,
           LedProof!queueVars, Led!queueVars
  <1>6. [LedProof!Next]_(LedProof!vars) <=> [Led!Next]_(Led!vars)
    BY <1>3, <1>4, <1>5 DEF LedProof!Next, Led!Next, LedProof!vars, Led!vars
  <1> QED
    BY <1>1, <1>2, <1>6

LEMMA QueueTyped == Spec => []Led!TypeOK
  <1>1. Init => LedProof!IInv
    BY LedAssumptions, SameQueue, LedProof!InitIInv DEF Init
  <1>2. LedProof!IInv /\ [Next]_vars => LedProof!IInv'
    BY LedAssumptions, StepOfLed, SameQueue, LedProof!NextIInv
  <1>3. LedProof!IInv => Led!TypeOK
    BY SameQueue DEF LedProof!IInv
  <1> QED
    BY <1>1, <1>2, <1>3, PTL DEF Spec

-----------------------------------------------------------------------------
(* The command line, and types. *)

\* What get_parameters returns fits G300Args.
LEMMA ArgumentsTyped ==
  ASSUME NEW line \in Seq(Words), get_parameters(line).ok
  PROVE  /\ get_parameters(line).args.log_level \in 0..255
         /\ get_parameters(line).args.disable_log_file \in BOOLEAN
  <1>1. PICK role \in Allowed(line) : get_parameters(line).args = TakenFrom(line, role)
    BY AllowedIsParsed
  <1>2. /\ TakenFrom(line, role).log_level =
             Given(line, role, "-l", Byte, DefaultArgs.log_level)
        /\ TakenFrom(line, role).disable_log_file \in BOOLEAN
    BY SMT DEF TakenFrom
  <1>3. Given(line, role, "-l", Byte, DefaultArgs.log_level) \in 0..255
    <2> DEFINE Named(i) == role[i] = "option" /\ line[i] = "-l"
               first == CHOOSE i \in DOMAIN line : Named(i)
    <2>1. CASE \E i \in DOMAIN line : Named(i)
      <3>1. first \in DOMAIN line /\ Named(first)
        BY <2>1
      <3>2. Given(line, role, "-l", Byte, DefaultArgs.log_level) = Byte(line[1 + first])
        BY <2>1, SMT DEF Given
      <3> HIDE DEF first
      <3>3. DOMAIN line = 1..Len(line) /\ Len(line) \in Nat
        OBVIOUS
      <3>4. first < Len(line)
        BY <3>1 DEF Allowed, Roles
      <3>5. line[1 + first] \in Words
        BY <3>1, <3>3, <3>4
      <3>6. Byte(line[1 + first]) \in 0..255
        <4> DEFINE a == Atoi(line[1 + first])
        <4>1. a \in Int
          BY <3>5, WordsAssumption
        <4>2. Byte(line[1 + first]) = a % 256
          BY DEF Byte
        <4> HIDE DEF a
        <4> QED
          BY <4>1, <4>2
      <3> QED
        BY <3>2, <3>6
    <2>2. CASE ~ \E i \in DOMAIN line : Named(i)
      BY <2>2, SMT DEF Given, DefaultArgs
    <2> QED
      BY <2>1, <2>2
  <1> QED
    BY <1>1, <1>2, <1>3

\* Only main's first step looks at the command line, and nothing comes back to it.
ArgsInv == at = "args" => argv \in Seq(Words)

LEMMA InitArgsInv == Init => ArgsInv
  <1> SUFFICES ASSUME NEW n \in 0..MaxWords, NEW line \in [1..n -> Words]
               PROVE  line \in Seq(Words)
    BY DEF Init, ArgsInv
  <1>1. n \in Nat
    BY WordsAssumption
  <1> QED
    BY <1>1

\* An attempt is counted only while others are left.
AttemptInv ==
    /\ ret \in {"ok", "failed"}
    /\ req \in {"no", "sent", "ok", "failed"}
    /\ Len(buffer) <= BufferSize
    /\ attempt \in Nat /\ attempt <= NetworkAttempts + HostNameRetries
    /\ call = "network" => attempt < NetworkAttempts
    /\ call = "poll" => attempt < HostNameRetries

\* What the service has said.
AnswerInv ==
    /\ json \in [of : Calls \cup {"none"}, says : Answers \cup {"nothing"}]
    /\ operation \in {"", "whole", "cut"}
    /\ hub \in {"", "whole", "cut"}
    /\ device \in HubNames \cup {""}

LEMMA AzureTyped == RequestInv /\ AttemptInv /\ AnswerInv => AzureTypeOK
  <1>1. AttemptInv => attempt \in 0..(NetworkAttempts + HostNameRetries)
    BY AzureAssumption DEF AttemptInv
  <1> QED
    BY <1>1, Zenon DEF RequestInv, AttemptInv, AnswerInv, AzureTypeOK

LEMMA NoJsonTyped == NoJson \in [of : Calls \cup {"none"}, says : Answers \cup {"nothing"}]
  BY DEF NoJson

LEMMA NextAnswerInv == RequestInv /\ AnswerInv /\ [Next]_vars => AnswerInv'
  <1> SUFFICES ASSUME RequestInv, AnswerInv, [Next]_vars PROVE AnswerInv'
    OBVIOUS
  <1> DEFINE Typed(j) == j \in [of : Calls \cup {"none"}, says : Answers \cup {"nothing"}]
  <1>1. /\ Typed(json) /\ Typed(NoJson)
        /\ operation \in {"", "whole", "cut"} /\ device \in HubNames \cup {""}
        /\ hub \in {"", "whole", "cut"}
    BY NoJsonTyped DEF AnswerInv
  <1>2. ASSUME Typed(json'), operation' \in {"", "whole", "cut"}, device' \in HubNames \cup {""},
               hub' \in {"", "whole", "cut"}
        PROVE  AnswerInv'
    BY <1>2, Zenon DEF AnswerInv
  <1>3. CASE RequestDone
    <2>1. /\ operation' = operation /\ hub' = hub
          /\ device' = IF json'.says \in HubNames THEN json'.says ELSE device
      BY <1>3 DEF RequestDone
    <2>2. CASE json' = NoJson
      BY <1>1, <1>2, <2>1, <2>2
    <2>3. CASE buffer # <<>> /\ json' \in [of : {Head(buffer)}, says : {"other"} \cup Expected]
      <3>1. Head(buffer) \in Calls
        <4>1. buffer \in Seq(Calls)
          BY DEF RequestInv
        <4> QED
          BY <2>3, <4>1
      <3>2. {"other"} \cup Expected \subseteq Answers
        BY DEF Expected, Answers, Operations
      <3>3. Typed(json')
        BY <2>3, <3>1, <3>2
      <3> HIDE DEF Typed
      <3> QED
        BY <1>1, <1>2, <2>1, <3>3
    <2> QED
      BY <1>3, <2>2, <2>3 DEF RequestDone
  <1> HIDE DEF Typed
  <1>4. CASE AzureStep /\ ~RequestDone
    <2>1. /\ json' = json \/ json' = NoJson
          /\ operation' \in {"", "whole", "cut"} /\ device' = device /\ hub' \in {hub, "whole", "cut"}
      BY <1>1, <1>4
      DEF AzureStep, ReceiveChunk, RequestFails, NoConnection, NetworkUp, NetworkError,
          NoConfig, Register, Registered, RegistrationFails, Assigned, NotAssigned, PollFails,
          Posted, Extract, BeginRequest, ResetResponse
    <2> QED
      BY <1>1, <1>2, <2>1
  <1>5. CASE WaitForNetwork \/ InitAzure \/ PostTelemetry \/ UNCHANGED azureVars
    <2>1. (json' = json \/ json' = NoJson) /\ UNCHANGED <<operation, hub, device>>
      BY <1>5 DEF WaitForNetwork, InitAzure, PostTelemetry, BeginRequest, ResetResponse,
                  azureVars
    <2> QED
      BY <1>1, <1>2, <2>1
  <1> QED
    BY <1>3, <1>4, <1>5, StepOfAzure

LEMMA NextAttemptInv == RequestInv /\ AttemptInv /\ [Next]_vars => AttemptInv'
  <1> SUFFICES ASSUME RequestInv, AttemptInv, [Next]_vars PROVE AttemptInv'
    OBVIOUS
  <1>1. buffer \in Seq(Calls)
    BY DEF RequestInv
  <1>2. /\ NetworkAttempts \in Nat \ {0} /\ HostNameRetries \in Nat \ {0}
        /\ BufferSize \in Nat
    BY AzureAssumption
  <1>3. Len(buffer) \in Nat
    BY <1>1
  <1>4. BeginRequest => Len(buffer') <= BufferSize /\ req' = "sent"
    BY <1>2 DEF BeginRequest, ResetResponse
  <1> USE DEF AttemptInv
  <1>5. CASE WaitForNetwork \/ InitAzure
    BY <1>2, <1>3, <1>5 DEF WaitForNetwork, InitAzure
  <1>6. CASE PostTelemetry
    BY <1>3, <1>4, <1>6 DEF PostTelemetry
  <1>7. CASE UNCHANGED azureVars
    BY <1>7 DEF azureVars
  <1>8. CASE AzureStep
    <2> USE DEF Return
    <2>1. CASE ReceiveChunk
      <3>1. Len(buffer') = Len(buffer) + 1
        BY <1>1, <2>1 DEF ReceiveChunk
      <3> QED
        BY <1>3, <2>1, <3>1 DEF ReceiveChunk, Fits
    <2>2. CASE RequestFails
      BY <1>3, <2>2 DEF RequestFails
    <2>3. CASE RequestDone
      BY <2>3 DEF RequestDone
    <2>4. CASE NoConnection
      <3>1. attempt + 1 <= NetworkAttempts
        BY <1>2, <1>3, <2>4 DEF NoConnection
      <3>2. attempt' = attempt + 1 /\ UNCHANGED <<req, buffer, json, operation, hub, device>>
        BY <2>4 DEF NoConnection
      <3>3. /\ ret' \in {"ok", "failed"} /\ call' # "poll"
            /\ call' = "network" => attempt' < NetworkAttempts
        BY <2>4 DEF NoConnection
      <3> QED
        BY <1>2, <1>3, <3>1, <3>2, <3>3
    <2>5. CASE NetworkUp
      <3>1. Len(buffer') <= BufferSize
        BY <1>3, <2>5 DEF NetworkUp, Fits
      <3> QED
        BY <1>3, <2>5, <3>1 DEF NetworkUp
    <2>6. CASE NetworkError \/ NoConfig \/ RegistrationFails \/ PollFails \/ Posted
      <3>1. /\ UNCHANGED <<buffer, json, attempt, operation, hub, device>>
            /\ req' \in {req, "no"} /\ call' = "none" /\ ret' \in {"ok", "failed"}
        BY <2>6 DEF NetworkError, NoConfig, RegistrationFails, PollFails, Posted
      <3> QED
        BY <1>3, <3>1
    <2>7. CASE Register
      BY <1>3, <1>4, <2>7 DEF Register
    <2>8. CASE Registered
      <3>1. UNCHANGED <<ret, hub, device>>
        BY <2>8 DEF Registered
      <3> QED
        BY <1>2, <1>3, <1>4, <2>8, <3>1 DEF Registered
    <2>9. CASE Assigned
      <3>1. /\ UNCHANGED <<buffer, json, attempt, operation, device>>
            /\ req' = "no" /\ call' = "none" /\ ret' = "ok"
        BY <2>9 DEF Assigned
      <3> QED
        BY <1>3, <3>1
    <2>10. CASE NotAssigned
      <3>1. attempt' = attempt + 1 /\ attempt + 1 <= HostNameRetries
        BY <1>2, <1>3, <2>10 DEF NotAssigned
      <3>2. attempt' \in Nat /\ attempt' <= NetworkAttempts + HostNameRetries
        BY <1>2, <1>3, <3>1
      <3>3. CASE attempt' < HostNameRetries
        <4>1. BeginRequest /\ UNCHANGED <<call, ret>> /\ call = "poll"
          BY <2>10, <3>3 DEF NotAssigned
        <4> QED
          BY <1>4, <3>1, <3>2, <3>3, <4>1
      <3>4. CASE ~(attempt' < HostNameRetries)
        <4>1. req' = "no" /\ call' = "none" /\ ret' = "failed" /\ UNCHANGED <<buffer, json>>
          BY <2>10, <3>4 DEF NotAssigned
        <4> QED
          BY <3>1, <3>2, <4>1
      <3> QED
        BY <3>3, <3>4
    <2> QED
      BY <1>8, <2>1, <2>2, <2>3, <2>4, <2>5, <2>6, <2>7, <2>8, <2>9, <2>10 DEF AzureStep
  <1> QED
    BY <1>5, <1>6, <1>7, <1>8, StepOfAzure

\* The types of what main keeps itself.
MainInv ==
    /\ at \in Steps
    /\ args.log_level \in 0..255 /\ args.disable_log_file \in BOOLEAN
    /\ thread \in BOOLEAN
    /\ logFile \in {"none", "open", "closed"}
    /\ level \in 0..255
    /\ port \in {"none", "open", "closed"}
    /\ killed \in BOOLEAN
    /\ ArgsInv

LEMMA InitMainInv == Init => MainInv
  <1> SUFFICES ASSUME Init PROVE MainInv
    OBVIOUS
  <1>1. args.log_level = 1 /\ args.disable_log_file = FALSE
    BY SMT DEF Init, DefaultArgs
  <1>2. 1 \in 0..255 /\ 0 \in 0..255
    OBVIOUS
  <1>3. /\ at = "args" /\ thread = FALSE /\ logFile = "none" /\ level = 0 /\ port = "none"
        /\ killed = FALSE
    BY SMT DEF Init, TRACE
  <1> QED
    <2>1. ArgsInv
      BY InitArgsInv
    <2>2. at \in Steps
      BY <1>3 DEF Steps
    <2>3. args.log_level \in 0..255 /\ args.disable_log_file \in BOOLEAN /\ level \in 0..255
      BY <1>1, <1>2, <1>3, Zenon
    <2> QED
      BY <1>3, <2>1, <2>2, <2>3, Zenon DEF MainInv

LEMMA NextMainInv == MainInv /\ [Next]_vars => MainInv'
  <1> SUFFICES ASSUME MainInv, [Next]_vars PROVE MainInv'
    OBVIOUS
  <1> USE DEF Goto
  \* No step but the first sets args, and none returns to it.
  <1>1. ASSUME UNCHANGED <<argv, args>>, at' \in Steps, at' = "args" => at = "args",
               thread' \in BOOLEAN, logFile' \in {"none", "open", "closed"},
               level' \in {level, args.log_level},
               port' \in {"none", "open", "closed"}, killed' \in BOOLEAN
        PROVE  MainInv'
    BY <1>1 DEF MainInv, ArgsInv
  <1>2. ASSUME UNCHANGED <<argv, args, thread, logFile, level, port, killed>>,
               at' \in Steps \ {"args"}
        PROVE  MainInv'
    BY <1>1, <1>2 DEF MainInv
  <1>3. CASE ReadArguments
    <2>1. /\ at = "args" /\ UNCHANGED <<thread, logFile, level, port, killed>>
          /\ at' \in {"thread", "exit"}
      BY <1>3 DEF ReadArguments, Main
    <2>2. args' = args \/ (get_parameters(argv).ok /\ args' = get_parameters(argv).args)
      BY <1>3 DEF ReadArguments
    <2>3. args'.log_level \in 0..255 /\ args'.disable_log_file \in BOOLEAN
      BY <2>1, <2>2, ArgumentsTyped DEF MainInv, ArgsInv
    <2> QED
      BY <2>1, <2>3 DEF MainInv, ArgsInv, Steps
  <1>4. CASE CreateThread
    BY <1>1, <1>4 DEF CreateThread, MainInv, Steps
  <1>5. CASE OpenLog
    BY <1>1, <1>5 DEF OpenLog, MainInv, Steps
  <1>6. CASE OpenPort
    BY <1>1, <1>6 DEF OpenPort, MainInv, Steps
  <1>7. CASE PushFirstJob \/ PushNetworkJob \/ PushScanJob
             \/ \E j \in Led!DemoJobs : PushDemoJob(j)
    BY <1>2, <1>7
    DEF PushFirstJob, PushNetworkJob, PushScanJob, PushDemoJob, PushAt, Steps
  <1>8. CASE InitCurl \/ DemoFails
    BY <1>2, <1>8 DEF InitCurl, DemoFails, Steps
  <1>9. CASE CheckNetwork \/ Provision \/ Upload
    BY <1>2, <1>9 DEF CheckNetwork, Provision, Upload, CallAzure, Steps
  <1>10. CASE NetworkChecked \/ Provisioned \/ Uploaded
    BY <1>2, <1>10 DEF NetworkChecked, Provisioned, Uploaded, Returned, Steps
  <1>11. CASE UNCHANGED mainVars
    BY <1>11 DEF mainVars, MainInv, ArgsInv
  <1>12. CASE RunAzure \/ FlashRed \/ Shutdown \/ Worker \/ UNCHANGED vars
    BY <1>11, <1>12 DEF RunAzure, FlashRed, Shutdown, Worker, vars
  <1>13. CASE CloseLog
    BY <1>1, <1>13 DEF CloseLog, Main, MainInv, Steps
  <1>14. CASE UseClosedLog
    BY <1>1, <1>14 DEF UseClosedLog, MainInv
  <1> QED
    BY <1>3, <1>4, <1>5, <1>6, <1>7, <1>8, <1>9, <1>10, <1>12, <1>13, <1>14
    DEF Next, StartUp, Loop, FlashLed

\* main.c, azure_functions.c and led_worker.c together keep their variables in their
\* types, whatever the command line and the services say.
THEOREM TypeCorrect == Spec => []TypeOK
  <1>1. Init => RequestInv /\ AnswerInv /\ AttemptInv
    <2> SUFFICES ASSUME Init PROVE AnswerInv /\ AttemptInv
      BY InitRequestInv
    <2>1. /\ call = "none" /\ ret = "ok" /\ req = "no" /\ buffer = <<>> /\ json = NoJson
          /\ attempt = 0 /\ operation = "" /\ hub = "" /\ device = ""
      BY DEF Init, AzureInit
    <2>2. AnswerInv
      BY <2>1, NoJsonTyped, Zenon DEF AnswerInv
    <2>3. AttemptInv
      <3>1. Len(buffer) = 0
        BY <2>1
      <3>2. ret = "ok" /\ req = "no" /\ call = "none" /\ attempt = 0
        BY <2>1
      <3> QED
        BY <3>1, <3>2, AzureAssumption DEF AttemptInv
    <2> QED
      BY <2>2, <2>3
  <1>2. RequestInv /\ AnswerInv /\ AttemptInv /\ [Next]_vars
           => (RequestInv /\ AnswerInv /\ AttemptInv)'
    BY NextRequestInv, NextAnswerInv, NextAttemptInv
  <1>3. Spec => []AzureTypeOK
    BY <1>1, <1>2, AzureTyped, PTL DEF Spec
  <1>4. Spec => []MainInv
    BY InitMainInv, NextMainInv, PTL DEF Spec
  <1>5. MainInv /\ AzureTypeOK /\ Led!TypeOK => TypeOK
    BY Zenon DEF MainInv, TypeOK
  <1> QED
    BY <1>3, <1>4, <1>5, QueueTyped, PTL

\* The command line that get_parameters has before it, if it is one of USAGE, is taken
\* as it is meant; if it is not, main exits, or its only fault is a repeated -n.
THEOREM ArgumentsTaken == Spec => []ArgumentsAsUsage
  <1>1. MainInv => ArgumentsAsUsage
    BY UsageIsParsed DEF MainInv, ArgsInv, ArgumentsAsUsage
  <1> QED
    BY <1>1, InitMainInv, NextMainInv, PTL DEF Spec
-----------------------------------------------------------------------------
(* Where the process can die. *)

\* There is a worker to follow a null start only between the creation of the thread
\* and the first push, and a closed log only in flash_led; the log has the level that
\* the command line asks for.
DeathInv ==
    /\ thread \in BOOLEAN /\ crashed \in BOOLEAN /\ killed \in BOOLEAN
    /\ start \in Nat \cup {Led!Null}
    /\ start = Led!Null => at \in {"args", "exit", "thread", "first job"}
    /\ thread => at \notin {"args", "exit", "thread"}
    /\ logFile = "closed" => at = "red"
    /\ logFile # "none" =>
           at # "args" /\ ~args.disable_log_file /\ level = args.log_level
    /\ DiesAtItsEndsOnly

LEMMA InitDeathInv == Init => DeathInv
  BY DEF Init, DeathInv, DiesAtItsEndsOnly, Led!Init

LEMMA NextDeathInv == MainInv /\ DeathInv /\ [Next]_vars => DeathInv'
  <1> SUFFICES ASSUME MainInv, DeathInv, [Next]_vars PROVE DeathInv'
    OBVIOUS
  <1> USE DEF DeathInv, DiesAtItsEndsOnly, Ended, Goto
  <1>1. \A n \in Nat : n # Led!Null
    BY NullIsNoSlot
  <1>2. ASSUME NEW step, NEW next, NEW j, PushAt(step, next, j),
               step \in {"first job", "network job", "scan job", "loop"},
               next \in {"log", "network", "loop"}
        PROVE  DeathInv'
    <2>1. start' \in Nat /\ UNCHANGED <<crashed, thread, args, level, logFile, killed>>
      BY <1>2, PushSetsStart DEF PushAt, Led!PushDemoJob
    <2>2. start' \in Nat \cup {Led!Null} /\ start' # Led!Null
      BY <1>1, <2>1
    <2>3. at' = next /\ at = step /\ ~crashed /\ ~killed
      BY <1>2 DEF PushAt
    <2>4. at' \notin {"args", "exit", "thread"} /\ logFile # "closed"
      BY <1>2, <2>3
    <2>5. logFile' # "none" => ~args'.disable_log_file /\ level' = args'.log_level
      BY <2>1
    <2>6. DiesAtItsEndsOnly'
      BY <2>1, <2>3
    <2> QED
      BY <2>1, <2>2, <2>4, <2>5, <2>6
  <1>3. ASSUME NEW step, NEW next, NEW failed, Returned(step, next, failed),
               step \in {"in network", "in azure", "in loop"},
               next \in {"azure", "uart", "loop"}, failed \in {"fatal", "loop"}
        PROVE  DeathInv'
    BY <1>3 DEF Returned, Main, ledVars
  <1>4. CASE StartUp
    <2>1. CASE ReadArguments
      BY <2>1 DEF ReadArguments, Main, ledVars
    <2>2. CASE CreateThread
      BY <2>2 DEF CreateThread, Main, ledVars
    <2>7. CASE OpenLog
      BY <2>7 DEF OpenLog, Main, ledVars
    <2>8. CASE InitCurl
      BY <2>8 DEF InitCurl, Main, ledVars
    <2>9. CASE OpenPort
      BY <2>9 DEF OpenPort, Main, ledVars
    <2>3. CASE PushFirstJob \/ PushNetworkJob \/ PushScanJob
      BY <1>2, <2>3 DEF PushFirstJob, PushNetworkJob, PushScanJob
    <2>4. CASE CheckNetwork
      BY <2>4 DEF CheckNetwork, CallAzure, Main, ledVars
    <2>10. CASE Provision
      BY <2>10 DEF Provision, CallAzure, Main, ledVars
    <2>5. CASE NetworkChecked \/ Provisioned
      BY <1>3, <2>5 DEF NetworkChecked, Provisioned
    <2>6. CASE RunAzure
      BY <2>6 DEF RunAzure, mainVars, ledVars
    <2> QED
      BY <1>4, <2>1, <2>2, <2>3, <2>4, <2>5, <2>6, <2>7, <2>8, <2>9, <2>10 DEF StartUp
  <1>5. CASE Loop
    <2>1. CASE Upload
      BY <2>1 DEF Upload, CallAzure, Main, ledVars
    <2>4. CASE DemoFails
      BY <2>4 DEF DemoFails, Main, ledVars
    <2>2. CASE Uploaded
      BY <1>3, <2>2 DEF Uploaded
    <2>3. ASSUME NEW j \in Led!DemoJobs, PushDemoJob(j) PROVE DeathInv'
      BY <1>2, <2>3 DEF PushDemoJob
    <2> QED
      BY <1>5, <2>1, <2>2, <2>3, <2>4 DEF Loop
  <1>6. CASE FlashRed
    <2>1. start' \in Nat /\ crashed' = crashed
      BY <1>6, PushSetsStart DEF FlashRed, Led!FlashRed
    <2> QED
      BY <1>1, <1>6, <2>1 DEF FlashRed, mainVars
  <1>11. CASE CloseLog
    BY <1>11 DEF CloseLog, Main, ledVars
  <1>7. CASE Shutdown
    <2>1. CASE Led!PushQuit
      <3>1. start' \in Nat /\ crashed' = crashed
        BY <2>1, PushSetsStart DEF Led!PushQuit
      <3> QED
        BY <1>1, <1>7, <3>1 DEF Shutdown, mainVars
    <2>2. CASE Led!WakeUp
      BY <1>7, <2>2 DEF Shutdown, Led!WakeUp, Led!queueVars, mainVars
    <2>3. CASE Led!JoinAndExit
      BY <1>7, <2>3 DEF Shutdown, Led!JoinAndExit, Led!queueVars, mainVars
    <2> QED
      BY <1>7, <2>1, <2>2, <2>3 DEF Shutdown
  <1>8. CASE Worker
    <2>1. /\ start' \in Nat \cup {Led!Null}
          /\ start' = Led!Null <=> start = Led!Null
          /\ crashed' => crashed \/ start = Led!Null
      BY <1>8, WorkerKeepsStart DEF Worker
    <2>2. thread /\ ~crashed /\ ~killed /\ UNCHANGED mainVars
      BY <1>8 DEF Worker
    <2>3. crashed' \in BOOLEAN
      BY <1>8 DEF Worker, Led!Worker, Led!CheckCrash, Led!Check, Led!Get, Led!Work
    <2>4. crashed' => at' = "first job"
      BY <2>1, <2>2 DEF mainVars
    <2> QED
      BY <2>1, <2>2, <2>3, <2>4 DEF mainVars
  <1>9. CASE UseClosedLog
    <2>1. level \in 0..255
      BY DEF MainInv
    <2>2. level <= WARN
      BY <1>9, <2>1 DEF UseClosedLog, TRACE, DEBUG, WARN
    <2>3. logFile = "closed" /\ ~crashed
          /\ UNCHANGED <<at, args, thread, logFile, level, start, crashed>>
      BY <1>9 DEF UseClosedLog, ledVars
    <2>4. killed' = TRUE
      BY <1>9 DEF UseClosedLog
    <2>5. at' = "red" /\ ~args'.disable_log_file /\ args'.log_level <= WARN
      BY <2>2, <2>3
    <2> QED
      BY <2>3, <2>4, <2>5
  <1>10. CASE UNCHANGED vars
    BY <1>10 DEF vars, mainVars, ledVars
  <1> QED
    BY <1>4, <1>5, <1>6, <1>7, <1>8, <1>9, <1>10, <1>11 DEF Next, FlashLed

\* The null start kills the process only before main's first push_led_job; the closed
\* log only in flash_led, and only with a log file whose level is WARN or lower. So the
\* demo is not killed, and with -n or a higher level an error gets to its end.
THEOREM DiesAtItsEnds == Spec => []DiesAtItsEndsOnly
  <1>1. DeathInv => DiesAtItsEndsOnly
    BY DEF DeathInv
  <1> QED
    BY <1>1, InitDeathInv, NextDeathInv, InitMainInv, NextMainInv, PTL DEF Spec
==============================================================================
