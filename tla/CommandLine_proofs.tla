------------------------- MODULE CommandLine_proofs -------------------------
(***************************************************************************)
(* Proofs about CommandLine, for command lines of any length, with any     *)
(* numbers and any lists of outputs.                                       *)
(*                                                                         *)
(* The layers: the types (Typed); what g_options holds of the arguments    *)
(* that were looked at (Parsed), from which OptionsAgree follows at the end*)
(* of the options and stays; and the sizes (Sized).  The names of the      *)
(* outputs are joined by recursion over the command line; that this has a  *)
(* value is shown from the least number in a set.                          *)
(***************************************************************************)
EXTENDS CommandLine, SequenceTheorems, WellFoundedInduction, TLAPS

-----------------------------------------------------------------------------
(***************************************************************************)
(* The joined lists.                                                       *)
(***************************************************************************)

\* A set of numbers has a least one.
LEMMA LeastNumber ==
  ASSUME NEW T, T \subseteq Nat, T # {}
  PROVE  \E x \in T : \A y \in T : x <= y
<1> DEFINE R == OpToRel(<, Nat)
<1>1. IsWellFoundedOn(R, Nat)
  BY NatLessThanWellFounded
<1>2. R = {ss \in Nat \X Nat : ss[1] < ss[2]}
  BY Zenon DEF OpToRel
<1>3. \E x \in T : \A y \in T : ~ (<<y, x>> \in R)
  BY <1>1, WFMin
<1> HIDE DEF R
<1>4. PICK x \in T : \A y \in T : ~ (<<y, x>> \in R)
  BY <1>3
<1>5. ASSUME NEW y \in T PROVE x <= y
  <2>1. x \in Nat /\ y \in Nat
    OBVIOUS
  <2>2. y < x => <<y, x>> \in {ss \in Nat \X Nat : ss[1] < ss[2]}
    BY <2>1
  <2>3. ~ (y < x)
    BY <1>2, <1>4, <2>2
  <2> QED BY <2>1, <2>3
<1> QED BY <1>5

\* What the argument at this place adds to the outputs (cliOptions.cpp:161-173).
NamesAt(k) ==
  IF k <= Len(argv) /\ argv[k].opt = "o" THEN argv[k].names ELSE <<>>

\* A recursion over the command line has a value for every length of it.
LEMMA JoinedExist ==
  ASSUME NEW n \in Nat
  PROVE  \E f : f = [k \in 0..n |-> IF k = 0 THEN <<>>
                                    ELSE f[k - 1] \o NamesAt(k)]
<1> DEFINE Joins(f, m) == f = [k \in 0..m |-> IF k = 0 THEN <<>>
                                              ELSE f[k - 1] \o NamesAt(k)]
           T == {m \in Nat : ~ \E f : Joins(f, m)}
<1>1. T = {}
  <2> SUFFICES ASSUME T # {} PROVE FALSE
    OBVIOUS
  <2>1. PICK x \in T : \A y \in T : x <= y
    <3>1. T \subseteq Nat
      OBVIOUS
    <3> HIDE DEF T
    <3> QED BY <3>1, LeastNumber
  <2>2. x # 0
    <3>1. Joins([k \in 0..0 |-> <<>>], 0)
      OBVIOUS
    <3> HIDE DEF Joins
    <3>2. 0 \notin T
      BY <3>1
    <3> HIDE DEF T
    <3> QED BY <3>2
  <2>3. x - 1 \in Nat /\ x - 1 \notin T
    <3>1. x \in Nat
      OBVIOUS
    <3> HIDE DEF T
    <3> QED BY <2>1, <2>2, <3>1
  <2>4. PICK f : Joins(f, x - 1)
    BY <2>3
  <2> DEFINE g == [k \in 0..x |-> IF k = x THEN f[x - 1] \o NamesAt(x)
                                  ELSE f[k]]
  <2>5. ASSUME NEW k \in 0..x
        PROVE  g[k] = IF k = 0 THEN <<>> ELSE g[k - 1] \o NamesAt(k)
    <3>1. CASE k = x
      <4>1. x - 1 \in 0..x /\ x - 1 # x
        BY <2>2
      <4> QED BY <2>2, <3>1, <4>1
    <3>2. CASE k # x
      <4>1. k \in 0..(x - 1)
        BY <2>2, <3>2
      <4>2. f[k] = IF k = 0 THEN <<>> ELSE f[k - 1] \o NamesAt(k)
        BY <2>4, <4>1
      <4>3. g[k] = f[k]
        BY <3>2
      <4>4. k # 0 => k - 1 \in 0..x /\ k - 1 # x
        BY <4>1
      <4>5. k # 0 => g[k - 1] = f[k - 1]
        BY <4>4
      <4> HIDE DEF g
      <4> QED BY <4>2, <4>3, <4>5
    <3> QED BY <3>1, <3>2
  <2>6. Joins(g, x)
    BY <2>5
  <2> QED BY <2>6
<1> QED BY <1>1

\* What Named is.
LEMMA NamedSteps ==
  ASSUME MaxArgs \in Nat
  PROVE  /\ Named[0] = <<>>
         /\ \A k \in 1..MaxArgs : Named[k] = Named[k - 1] \o NamesAt(k)
<1>1. Named = [k \in 0..MaxArgs |-> IF k = 0 THEN <<>>
                                    ELSE Named[k - 1] \o NamesAt(k)]
  <2>1. \E f : f = [k \in 0..MaxArgs |-> IF k = 0 THEN <<>>
                                         ELSE f[k - 1] \o NamesAt(k)]
    BY JoinedExist
  <2>2. Named = CHOOSE f : f = [k \in 0..MaxArgs |-> IF k = 0 THEN <<>>
                                    ELSE f[k - 1] \o NamesAt(k)]
    BY Zenon DEF Named, NamesAt
  <2> QED BY <2>1, <2>2, Zenon
<1>2. 0 \in 0..MaxArgs
  OBVIOUS
<1>3. \A k \in 1..MaxArgs : k \in 0..MaxArgs /\ k # 0
  OBVIOUS
<1> QED BY <1>1, <1>2, <1>3

-----------------------------------------------------------------------------
(***************************************************************************)
(* Types.                                                                  *)
(***************************************************************************)

Options ==
  [input : {"-", "/dev/video0"}, bitrate : Nat, fps : Nat, width : Nat,
   height : Nat, width_out : Nat, height_out : Nat, qMin : Nat, qMax : Nat,
   keyInterval : Nat, duration : Nat, outFifos : Seq(STRING)]

\* The arguments are as getopt_long() finds them; the names of -i and -o are
\* there, and so is the number of an option that takes one.
ArgvOK ==
  /\ Len(argv) \in 0..MaxArgs
  /\ DOMAIN argv = 1..Len(argv)
  /\ \A k \in 1..Len(argv) :
       /\ argv[k].scanned \in Seq(Nat)
       /\ argv[k].opt = "o" => argv[k].names \in Seq(STRING)
       /\ argv[k].opt = "i" => argv[k].names[1] \in {"-", "/dev/video0"}
       /\ argv[k].opt \in {"b", "r", "t", "k"} =>
            \E n \in Nat : argv[k].scanned = <<n>>
       /\ argv[k].opt \in {"i", "b", "r", "t", "k", "s", "z", "q", "o", "h",
                           "?", "word"}

Typed ==
  /\ ArgvOK
  /\ optind \in 1..(Len(argv) + 1)
  /\ g_options \in Options
  /\ phase \in {"options", "usage", "configure", "open", "failed", "started"}

\* A sequence of one.
LEMMA Singleton ==
  ASSUME NEW S, NEW e \in S
  PROVE  <<e>> \in Seq(S)
<1>1. <<e>> = Append(<<>>, e)
  OBVIOUS
<1> QED BY <1>1, AppendProperties

\* Sequences that occur.
LEMMA Sequences ==
  /\ <<>> \in Seq(Nat) /\ <<>> \in Seq(STRING)
  /\ \A n \in Nat : <<n>> \in Seq(Nat)
<1>1. <<>> \in Seq(Nat) /\ <<>> \in Seq(STRING)
  OBVIOUS
<1>2. \A n \in Nat : <<n>> \in Seq(Nat)
  BY Singleton
<1> QED BY <1>1, <1>2

\* The fields of an argument.
LEMMA ArgumentFields ==
  ASSUME NEW O, NEW S, NEW N, NEW a \in Argument(O, S, N)
  PROVE  a.opt \in O /\ a.scanned \in S /\ a.names \in N
BY DEF Argument

\* Whatever the command line, its arguments are as ArgvOK says.
LEMMA ArgvInit == Init => ArgvOK
<1> SUFFICES ASSUME Init PROVE ArgvOK
  OBVIOUS
<1>1. PICK n \in 0..MaxArgs : argv \in [1..n -> Arguments]
  BY DEF Init
<1>2. n \in Nat /\ Len(argv) = n /\ argv \in Seq(Arguments)
  BY <1>1, CommandLineAssumption
<1>3. ASSUME NEW a \in Arguments
      PROVE  /\ a.scanned \in Seq(Nat)
             /\ a.opt = "o" => a.names \in Seq(STRING)
             /\ a.opt = "i" => a.names[1] \in {"-", "/dev/video0"}
             /\ a.opt \in {"b", "r", "t", "k"} =>
                  \E m \in Nat : a.scanned = <<m>>
             /\ a.opt \in {"i", "b", "r", "t", "k", "s", "z", "q", "o", "h",
                           "?", "word"}
  <2>1. CASE a \in Argument({"i"}, {<<>>}, {<<"-">>, <<"/dev/video0">>})
    <3>1. /\ a.opt = "i" /\ a.scanned = <<>>
          /\ a.names \in {<<"-">>, <<"/dev/video0">>}
      BY <2>1, ArgumentFields
    <3>2. a.names[1] \in {"-", "/dev/video0"}
      BY <3>1
    <3> QED BY <3>1, <3>2, Sequences
  <2>2. CASE a \in Argument({"b", "r", "t", "k"}, {<<m>> : m \in Numbers},
                            {<<>>})
    <3>1. /\ a.opt \in {"b", "r", "t", "k"} /\ a.names = <<>>
          /\ a.scanned \in {<<m>> : m \in Numbers}
      BY <2>2, ArgumentFields
    <3>2. PICK m \in Nat : a.scanned = <<m>>
      BY <3>1, CommandLineAssumption
    <3> QED BY <3>1, <3>2, Sequences
  <2>3. CASE a \in Argument({"s", "z", "q"}, Pairs, {<<>>})
    <3>1. a.opt \in {"s", "z", "q"} /\ a.scanned \in Pairs /\ a.names = <<>>
      BY <2>3, ArgumentFields
    <3> QED BY <3>1, Sequences, CommandLineAssumption
  <2>4. CASE a \in Argument({"o"}, {<<>>}, Lists)
    <3>1. a.opt = "o" /\ a.scanned = <<>> /\ a.names \in Lists
      BY <2>4, ArgumentFields
    <3> QED BY <3>1, Sequences, CommandLineAssumption
  <2>5. CASE a \in Argument({"h", "?", "word"}, {<<>>}, {<<>>})
    <3>1. a.opt \in {"h", "?", "word"} /\ a.scanned = <<>> /\ a.names = <<>>
      BY <2>5, ArgumentFields
    <3> QED BY <3>1, Sequences
  <2> QED BY <2>1, <2>2, <2>3, <2>4, <2>5 DEF Arguments
<1>4. \A k \in 1..Len(argv) : argv[k] \in Arguments
  BY <1>1, <1>2
<1> QED BY <1>1, <1>2, <1>3, <1>4 DEF ArgvOK

\* Every step keeps the types (cliOptions.cpp:103-209, videoenc.cpp:461-601).
LEMMA TypedNext == Typed /\ [Next]_vars => Typed'
<1> SUFFICES ASSUME Typed, [Next]_vars PROVE Typed'
  OBVIOUS
<1>1. argv' = argv
  BY DEF Next, processCmdLineOptions, TakeInput, TakeNumber, TakeSize,
         TakeQuality, TakeOutputs, Skip, Usage, EndOfOptions, Configure,
         OpenOutput, AllOpen, Proceed, vars
<1>2. ArgvOK'
  BY <1>1 DEF Typed, ArgvOK
<1>3. Len(argv) \in Nat
  BY CommandLineAssumption DEF Typed, ArgvOK
<1> USE DEF Found, Proceed, optarg
<1>4. CASE TakeInput
  <2>0. optarg.names[1] \in {"-", "/dev/video0"}
    BY <1>3, <1>4 DEF TakeInput, Typed, ArgvOK
  <2>1. g_options' \in Options
    BY <1>4, <2>0 DEF TakeInput, Typed, Options
  <2> QED BY <1>2, <1>3, <1>4, <2>1 DEF TakeInput, Typed
<1>5. CASE TakeNumber
  <2>1. PICK n \in Nat : optarg.scanned = <<n>>
    BY <1>3, <1>5 DEF TakeNumber, Typed, ArgvOK
  <2>2. g_options' = [g_options EXCEPT ![NumberOf[optarg.opt]] = n]
    BY <1>5, <2>1 DEF TakeNumber
  <2>3. g_options' \in {[g_options EXCEPT !.bitrate = n],
                        [g_options EXCEPT !.fps = n],
                        [g_options EXCEPT !.duration = n],
                        [g_options EXCEPT !.keyInterval = n]}
    <3>1. /\ NumberOf["b"] = "bitrate" /\ NumberOf["r"] = "fps"
          /\ NumberOf["t"] = "duration" /\ NumberOf["k"] = "keyInterval"
      BY DEF NumberOf
    <3>2. optarg.opt \in {"b", "r", "t", "k"}
      BY <1>5 DEF TakeNumber
    <3> QED BY <2>2, <3>1, <3>2
  <2>4. g_options' \in Options
    BY <2>3 DEF Typed, Options
  <2> QED BY <1>2, <1>3, <1>5, <2>4 DEF TakeNumber, Typed
<1>6. CASE TakeSize
  <2>1. CASE Len(optarg.scanned) # 2
    BY <1>2, <1>3, <1>6, <2>1 DEF TakeSize, Typed
  <2>2. CASE Len(optarg.scanned) = 2
    <3>1. optarg.scanned[1] \in Nat /\ optarg.scanned[2] \in Nat
      BY <1>3, <1>6, <2>2, ElementOfSeq DEF TakeSize, Typed, ArgvOK
    <3>2. g_options' \in Options
      BY <1>6, <2>2, <3>1 DEF TakeSize, Typed, Options
    <3> QED BY <1>2, <1>3, <1>6, <3>2 DEF TakeSize, Typed
  <2> QED BY <2>1, <2>2
<1>7. CASE TakeQuality
  <2>1. CASE Len(optarg.scanned) # 2
    BY <1>2, <1>3, <1>7, <2>1 DEF TakeQuality, Typed
  <2>2. CASE Len(optarg.scanned) = 2
    <3>1. optarg.scanned[1] \in Nat /\ optarg.scanned[2] \in Nat
      BY <1>3, <1>7, <2>2, ElementOfSeq DEF TakeQuality, Typed, ArgvOK
    <3>2. g_options' \in Options
      BY <1>7, <2>2, <3>1 DEF TakeQuality, Typed, Options
    <3> QED BY <1>2, <1>3, <1>7, <3>2 DEF TakeQuality, Typed
  <2> QED BY <2>1, <2>2
<1>8. CASE TakeOutputs
  <2>1. optarg.names \in Seq(STRING)
    BY <1>3, <1>8 DEF TakeOutputs, Typed, ArgvOK
  <2>2. g_options.outFifos \in Seq(STRING)
    BY DEF Typed, Options
  <2>3. g_options.outFifos \o optarg.names \in Seq(STRING)
    BY <2>1, <2>2, ConcatProperties
  <2>4. g_options' \in Options
    BY <1>8, <2>3 DEF TakeOutputs, Typed, Options
  <2> QED BY <1>2, <1>3, <1>8, <2>4 DEF TakeOutputs, Typed
<1>9. CASE Skip
  BY <1>2, <1>3, <1>9 DEF Skip, Typed
<1>10. CASE Usage
  BY <1>1, <1>2, <1>10 DEF Usage, Typed
<1>11. CASE EndOfOptions
  <2>1. g_options' \in Options
    BY <1>11 DEF EndOfOptions, Typed, Options
  <2> QED BY <1>1, <1>2, <1>11, <2>1 DEF EndOfOptions, Typed
<1>12. CASE Configure
  BY <1>1, <1>2, <1>12 DEF Configure, Typed
<1>13. CASE OpenOutput
  BY <1>1, <1>2, <1>13 DEF OpenOutput, Typed
<1>14. CASE AllOpen
  BY <1>1, <1>2, <1>14 DEF AllOpen, Typed
<1>15. CASE UNCHANGED vars
  BY <1>1, <1>2, <1>15 DEF vars, Typed
<1> QED
  BY <1>4, <1>5, <1>6, <1>7, <1>8, <1>9, <1>10, <1>11, <1>12, <1>13, <1>14,
     <1>15
  DEF Next, processCmdLineOptions

\* The types hold always.
LEMMA TypedInvariant == Spec => []Typed
<1>1. Init => Typed
  <2> SUFFICES ASSUME Init PROVE Typed
    OBVIOUS
  <2>1. ArgvOK
    BY ArgvInit
  <2>2. Len(argv) \in Nat
    BY <2>1, CommandLineAssumption DEF ArgvOK
  <2>3. g_options \in Options
    BY Sequences DEF Init, default_options, Options
  <2> QED BY <2>1, <2>2, <2>3 DEF Init, Typed
<1> QED BY <1>1, TypedNext, PTL DEF Spec

-----------------------------------------------------------------------------
(***************************************************************************)
(* What the options say.                                                   *)
(***************************************************************************)

\* The k-th argument gives this option as many numbers.
Fits(av, opt, count, k) == av[k].opt = opt /\ Len(av[k].scanned) = count

\* After the first n arguments the value of this option is that of the last of
\* them that fits, or the default.
Says(av, opt, count, default, value, n) ==
  \/ /\ value = default
     /\ \A k \in 1..n : ~ Fits(av, opt, count, k)
  \/ \E k \in 1..n :
       /\ Fits(av, opt, count, k)
       /\ value = av[k].scanned
       /\ \A l \in 1..n : Fits(av, opt, count, l) => l <= k

\* What g_options holds after the first n arguments, but for the size of the
\* output and the names.
Read(av, o, n) ==
  /\ Says(av, "s", 2, <<640, 480>>, <<o.width, o.height>>, n)
  /\ Says(av, "q", 2, <<15, 30>>, <<o.qMin, o.qMax>>, n)
  /\ Says(av, "b", 1, <<1024>>, <<o.bitrate>>, n)
  /\ Says(av, "r", 1, <<25>>, <<o.fps>>, n)
  /\ Says(av, "k", 1, <<5>>, <<o.keyInterval>>, n)
  /\ Says(av, "t", 1, <<0>>, <<o.duration>>, n)
  /\ \A k \in 1..n : av[k].opt \notin {"h", "?"}

ReadOutput(av, o, n) ==
  Says(av, "z", 2, <<0, 0>>, <<o.width_out, o.height_out>>, n)

\* While the options are read, g_options holds what the arguments before optind
\* say (cliOptions.cpp:103-190).
Parsed ==
  phase = "options" =>
    /\ Read(argv, g_options, optind - 1)
    /\ ReadOutput(argv, g_options, optind - 1)
    /\ g_options.outFifos = Named[optind - 1]

\* Afterwards it holds what all arguments say (cliOptions.cpp:192-209).
Settled ==
  phase \in {"configure", "open", "started", "failed"} =>
    /\ Read(argv, g_options, Len(argv))
    /\ \E out \in Nat \X Nat :
         /\ Says(argv, "z", 2, <<0, 0>>, out, Len(argv))
         /\ <<g_options.width_out, g_options.height_out>> =
              OrElse(out, <<g_options.width, g_options.height>>)
    /\ g_options.outFifos = Named[Len(argv)]
    /\ g_options.outFifos # <<>>

\* One more argument that does not fit leaves the value.
LEMMA SaysStill ==
  ASSUME NEW av, NEW opt, NEW count, NEW default, NEW value,
         NEW n \in Nat \ {0},
         Says(av, opt, count, default, value, n - 1),
         ~ Fits(av, opt, count, n)
  PROVE  Says(av, opt, count, default, value, n)
<1>1. \A k \in 1..n : k \in 1..(n - 1) \/ k = n
  OBVIOUS
<1>2. \A k \in 1..(n - 1) : k \in 1..n
  OBVIOUS
<1> HIDE DEF Fits
<1> QED BY <1>1, <1>2 DEF Says

\* One that fits is the value.
LEMMA SaysNow ==
  ASSUME NEW av, NEW opt, NEW count, NEW default, NEW n \in Nat \ {0},
         Fits(av, opt, count, n)
  PROVE  Says(av, opt, count, default, av[n].scanned, n)
<1>1. n \in 1..n /\ \A l \in 1..n : l <= n
  OBVIOUS
<1> QED BY <1>1 DEF Says

\* Both in one.
LEMMA SaysNext ==
  ASSUME NEW av, NEW opt, NEW count, NEW default, NEW old, NEW new,
         NEW n \in Nat \ {0},
         Says(av, opt, count, default, old, n - 1),
         IF Fits(av, opt, count, n) THEN new = av[n].scanned ELSE new = old
  PROVE  Says(av, opt, count, default, new, n)
<1> HIDE DEF Fits, Says
<1>1. CASE Fits(av, opt, count, n)
  <2>1. Says(av, opt, count, default, av[n].scanned, n)
    BY <1>1, SaysNow
  <2> QED BY <1>1, <2>1
<1>2. CASE ~ Fits(av, opt, count, n)
  <2>1. Says(av, opt, count, default, old, n)
    BY <1>2, SaysStill
  <2> QED BY <1>2, <2>1
<1> QED BY <1>1, <1>2

\* What is said at the end is what OptionsAgree calls the last given.
LEMMA SaysLast ==
  ASSUME ArgvOK, Len(argv) \in Nat, NEW opt, NEW default, NEW value,
         NEW count, count = Len(default),
         Says(argv, opt, count, default, value, Len(argv))
  PROVE  LastGiven(opt, default) = value
<1> DEFINE places == Given(opt, count)
<1>1. \A k \in 1..Len(argv) :
        k \in places <=> Fits(argv, opt, count, k)
  BY DEF Given, Fits
<1>2. places \subseteq 1..Len(argv)
  BY DEF Given
<1>3. LastGiven(opt, default) =
        IF places = {} THEN default
        ELSE argv[CHOOSE k \in places : \A l \in places : l <= k].scanned
  BY DEF LastGiven
<1> HIDE DEF places
<1>4. CASE /\ value = default
           /\ \A k \in 1..Len(argv) : ~ Fits(argv, opt, count, k)
  BY <1>1, <1>2, <1>3, <1>4
<1>5. CASE \E k \in 1..Len(argv) :
             /\ Fits(argv, opt, count, k)
             /\ value = argv[k].scanned
             /\ \A l \in 1..Len(argv) : Fits(argv, opt, count, l) => l <= k
  <2>1. PICK k \in 1..Len(argv) :
             /\ Fits(argv, opt, count, k)
             /\ value = argv[k].scanned
             /\ \A l \in 1..Len(argv) : Fits(argv, opt, count, l) => l <= k
    BY <1>5
  <2>2. k \in places /\ \A l \in places : l <= k
    BY <1>1, <1>2, <2>1
  <2> DEFINE last == CHOOSE m \in places : \A l \in places : l <= m
  <2>3. last \in places /\ \A l \in places : l <= last
    BY <2>2
  <2>4. last = k
    <3> HIDE DEF last
    <3>1. last \in Nat /\ k \in Nat /\ last <= k /\ k <= last
      BY <1>2, <2>2, <2>3
    <3> QED BY <3>1
  <2> QED BY <1>3, <2>1, <2>2, <2>4
<1> QED BY <1>4, <1>5 DEF Says

\* Behind the command line nothing is joined any more.
LEMMA NamedEnd ==
  ASSUME ArgvOK, Named[Len(argv)] \in Seq(STRING)
  PROVE  Named[MaxArgs] = Named[Len(argv)]
<1> DEFINE T == {k \in Len(argv)..MaxArgs : Named[k] # Named[Len(argv)]}
<1>0. MaxArgs \in Nat /\ Len(argv) \in 0..MaxArgs
  BY CommandLineAssumption DEF ArgvOK
<1>1. T = {}
  <2> SUFFICES ASSUME T # {} PROVE FALSE
    OBVIOUS
  <2>1. T \subseteq Nat
    BY <1>0
  <2>2. PICK x \in T : \A y \in T : x <= y
    <3> HIDE DEF T
    <3> QED BY <2>1, LeastNumber
  <2>3. x \in Len(argv)..MaxArgs /\ Named[x] # Named[Len(argv)]
    OBVIOUS
  <2>4. x - 1 \in Len(argv)..MaxArgs /\ x \in 1..MaxArgs /\ ~ (x <= x - 1)
    BY <1>0, <2>3
  <2>5. x - 1 \notin T
    <3> HIDE DEF T
    <3> QED BY <2>2, <2>4
  <2>6. Named[x - 1] = Named[Len(argv)]
    BY <2>4, <2>5
  <2>7. NamesAt(x) = <<>>
    BY <1>0, <2>4 DEF NamesAt
  <2>8. Named[x] = Named[Len(argv)] \o <<>>
    BY <1>0, <2>4, <2>6, <2>7, NamedSteps
  <2>9. Named[Len(argv)] \o <<>> = Named[Len(argv)]
    BY ConcatEmptySeq
  <2> QED BY <2>3, <2>8, <2>9
<1>2. MaxArgs \in Len(argv)..MaxArgs
  BY <1>0
<1> QED BY <1>1, <1>2

\* A sequence of two is made of its two.
LEMMA PairIs ==
  ASSUME NEW s \in Seq(Nat), Len(s) = 2
  PROVE  /\ s = <<s[1], s[2]>> /\ s[1] \in Nat /\ s[2] \in Nat
<1>1. s[1] \in Nat /\ s[2] \in Nat
  <2>1. 1 \in 1..Len(s) /\ 2 \in 1..Len(s)
    OBVIOUS
  <2> QED BY <2>1, ElementOfSeq
<1>2. <<s[1], s[2]>> \in Seq(Nat)
  BY <1>1
<1> QED BY <1>1, <1>2, SeqEqual

\* One more argument has been looked at: what the options that it is for hold
\* is what it says, if it fits, and the rest is as before.
Follows(av, o, p, n) ==
  /\ IF Fits(av, "s", 2, n) THEN <<p.width, p.height>> = av[n].scanned
     ELSE p.width = o.width /\ p.height = o.height
  /\ IF Fits(av, "z", 2, n) THEN <<p.width_out, p.height_out>> = av[n].scanned
     ELSE p.width_out = o.width_out /\ p.height_out = o.height_out
  /\ IF Fits(av, "q", 2, n) THEN <<p.qMin, p.qMax>> = av[n].scanned
     ELSE p.qMin = o.qMin /\ p.qMax = o.qMax
  /\ IF Fits(av, "b", 1, n) THEN <<p.bitrate>> = av[n].scanned
     ELSE p.bitrate = o.bitrate
  /\ IF Fits(av, "r", 1, n) THEN <<p.fps>> = av[n].scanned
     ELSE p.fps = o.fps
  /\ IF Fits(av, "k", 1, n) THEN <<p.keyInterval>> = av[n].scanned
     ELSE p.keyInterval = o.keyInterval
  /\ IF Fits(av, "t", 1, n) THEN <<p.duration>> = av[n].scanned
     ELSE p.duration = o.duration
  /\ av[n].opt \notin {"h", "?"}

\* So what was read of n - 1 arguments becomes what is read of n.
LEMMA ReadStep ==
  ASSUME NEW av, NEW o, NEW p, NEW n \in Nat \ {0},
         Read(av, o, n - 1), ReadOutput(av, o, n - 1), Follows(av, o, p, n)
  PROVE  Read(av, p, n) /\ ReadOutput(av, p, n)
<1> HIDE DEF Fits, Says
<1>1. Says(av, "s", 2, <<640, 480>>, <<p.width, p.height>>, n)
  <2>1. IF Fits(av, "s", 2, n)
        THEN <<p.width, p.height>> = av[n].scanned
        ELSE <<p.width, p.height>> = <<o.width, o.height>>
    BY DEF Follows
  <2>2. Says(av, "s", 2, <<640, 480>>, <<o.width, o.height>>,
             n - 1)
    BY DEF Read
  <2> QED BY <2>1, <2>2, SaysNext
<1>2. Says(av, "q", 2, <<15, 30>>, <<p.qMin, p.qMax>>, n)
  <2>1. IF Fits(av, "q", 2, n)
        THEN <<p.qMin, p.qMax>> = av[n].scanned
        ELSE <<p.qMin, p.qMax>> = <<o.qMin, o.qMax>>
    BY DEF Follows
  <2>2. Says(av, "q", 2, <<15, 30>>, <<o.qMin, o.qMax>>,
             n - 1)
    BY DEF Read
  <2> QED BY <2>1, <2>2, SaysNext
<1>3. Says(av, "b", 1, << 1024 >>, <<p.bitrate>>, n)
  <2>1. IF Fits(av, "b", 1, n)
        THEN <<p.bitrate>> = av[n].scanned
        ELSE <<p.bitrate>> = <<o.bitrate>>
    BY DEF Follows
  <2>2. Says(av, "b", 1, << 1024 >>, <<o.bitrate>>,
             n - 1)
    BY DEF Read
  <2> QED BY <2>1, <2>2, SaysNext
<1>4. Says(av, "r", 1, <<25>>, <<p.fps>>, n)
  <2>1. IF Fits(av, "r", 1, n)
        THEN <<p.fps>> = av[n].scanned
        ELSE <<p.fps>> = <<o.fps>>
    BY DEF Follows
  <2>2. Says(av, "r", 1, <<25>>, <<o.fps>>,
             n - 1)
    BY DEF Read
  <2> QED BY <2>1, <2>2, SaysNext
<1>5. Says(av, "k", 1, <<5>>, <<p.keyInterval>>, n)
  <2>1. IF Fits(av, "k", 1, n)
        THEN <<p.keyInterval>> = av[n].scanned
        ELSE <<p.keyInterval>> = <<o.keyInterval>>
    BY DEF Follows
  <2>2. Says(av, "k", 1, <<5>>, <<o.keyInterval>>,
             n - 1)
    BY DEF Read
  <2> QED BY <2>1, <2>2, SaysNext
<1>6. Says(av, "t", 1, <<0>>, <<p.duration>>, n)
  <2>1. IF Fits(av, "t", 1, n)
        THEN <<p.duration>> = av[n].scanned
        ELSE <<p.duration>> = <<o.duration>>
    BY DEF Follows
  <2>2. Says(av, "t", 1, <<0>>, <<o.duration>>,
             n - 1)
    BY DEF Read
  <2> QED BY <2>1, <2>2, SaysNext
<1>7. \A k \in 1..n : av[k].opt \notin {"h", "?"}
  <2>1. \A k \in 1..n : k \in 1..(n - 1) \/ k = n
    OBVIOUS
  <2>2. /\ \A k \in 1..(n - 1) : av[k].opt \notin {"h", "?"}
        /\ av[n].opt \notin {"h", "?"}
    BY DEF Read, Follows
  <2> QED BY <2>1, <2>2
<1>8. Says(av, "z", 2, <<0, 0>>, <<p.width_out, p.height_out>>, n)
  <2>1. IF Fits(av, "z", 2, n)
        THEN <<p.width_out, p.height_out>> = av[n].scanned
        ELSE <<p.width_out, p.height_out>> = <<o.width_out, o.height_out>>
    BY DEF Follows
  <2>2. Says(av, "z", 2, <<0, 0>>, <<o.width_out, o.height_out>>,
             n - 1)
    BY DEF ReadOutput
  <2> QED BY <2>1, <2>2, SaysNext
<1> QED BY <1>1, <1>2, <1>3, <1>4, <1>5, <1>6, <1>7, <1>8
          DEF Read, ReadOutput

\* What every action that looks at an argument does with it.
LEMMA TakeFollows ==
  ASSUME Typed,
         TakeInput \/ TakeNumber \/ TakeSize \/ TakeQuality \/ TakeOutputs
           \/ Skip
  PROVE  Follows(argv, g_options, g_options', optind)
<1> USE DEF Found, optarg
<1>0. /\ Len(argv) \in Nat /\ optind \in Nat
      /\ optind <= Len(argv) => optind \in 1..Len(argv)
      /\ g_options \in Options
  BY CommandLineAssumption DEF Typed, ArgvOK
<1>1. CASE TakeInput
  <2>1. argv[optind].opt = "i"
    BY <1>1 DEF TakeInput
  <2>2. g_options' = [g_options EXCEPT !.input = argv[optind].names[1]]
    BY <1>1 DEF TakeInput
  <2> QED BY <1>0, <2>1, <2>2 DEF Follows, Fits, Options
<1>2. CASE TakeNumber
  <2>1. /\ argv[optind].opt \in {"b", "r", "t", "k"} /\ optind \in 1..Len(argv)
        /\ g_options' = [g_options EXCEPT
             ![NumberOf[argv[optind].opt]] = argv[optind].scanned[1]]
    BY <1>0, <1>2 DEF TakeNumber
  <2>2. PICK m \in Nat : argv[optind].scanned = <<m>>
    BY <2>1 DEF Typed, ArgvOK
  <2>3. <<argv[optind].scanned[1]>> = argv[optind].scanned
    BY <2>2
  <2>4. /\ NumberOf["b"] = "bitrate" /\ NumberOf["r"] = "fps"
        /\ NumberOf["t"] = "duration" /\ NumberOf["k"] = "keyInterval"
    BY DEF NumberOf
  <2>5. Len(argv[optind].scanned) = 1
    BY <2>2
  <2>6. CASE argv[optind].opt = "b"
    <3>1. g_options' = [g_options EXCEPT !.bitrate = argv[optind].scanned[1]]
      BY <2>1, <2>4, <2>6
    <3> QED BY <1>0, <2>3, <2>5, <2>6, <3>1 DEF Follows, Fits, Options
  <2>7. CASE argv[optind].opt = "r"
    <3>1. g_options' = [g_options EXCEPT !.fps = argv[optind].scanned[1]]
      BY <2>1, <2>4, <2>7
    <3> QED BY <1>0, <2>3, <2>5, <2>7, <3>1 DEF Follows, Fits, Options
  <2>8. CASE argv[optind].opt = "t"
    <3>1. g_options' = [g_options EXCEPT !.duration = argv[optind].scanned[1]]
      BY <2>1, <2>4, <2>8
    <3> QED BY <1>0, <2>3, <2>5, <2>8, <3>1 DEF Follows, Fits, Options
  <2>9. CASE argv[optind].opt = "k"
    <3>1. g_options' =
            [g_options EXCEPT !.keyInterval = argv[optind].scanned[1]]
      BY <2>1, <2>4, <2>9
    <3> QED BY <1>0, <2>3, <2>5, <2>9, <3>1 DEF Follows, Fits, Options
  <2> QED BY <2>1, <2>6, <2>7, <2>8, <2>9
<1>3. CASE TakeSize
  <2>1. argv[optind].opt \in {"s", "z"} /\ argv[optind].scanned \in Seq(Nat)
    BY <1>0, <1>3 DEF TakeSize, Typed, ArgvOK
  <2> DEFINE got == argv[optind].scanned
  <2>2. CASE Len(got) # 2
    <3>1. g_options' = g_options
      BY <1>3, <2>2 DEF TakeSize
    <3> QED BY <2>1, <2>2, <3>1 DEF Follows, Fits
  <2>3. CASE Len(got) = 2 /\ argv[optind].opt = "s"
    <3>1. g_options' = [g_options EXCEPT !.width = got[1], !.height = got[2]]
      BY <1>3, <2>3 DEF TakeSize
    <3>2. got = <<got[1], got[2]>>
      BY <2>1, <2>3, PairIs
    <3> QED BY <1>0, <2>3, <3>1, <3>2 DEF Follows, Fits, Options
  <2>4. CASE Len(got) = 2 /\ argv[optind].opt = "z"
    <3>1. g_options' =
            [g_options EXCEPT !.width_out = got[1], !.height_out = got[2]]
      BY <1>3, <2>4 DEF TakeSize
    <3>2. got = <<got[1], got[2]>>
      BY <2>1, <2>4, PairIs
    <3> QED BY <1>0, <2>4, <3>1, <3>2 DEF Follows, Fits, Options
  <2> QED BY <2>1, <2>2, <2>3, <2>4
<1>4. CASE TakeQuality
  <2>1. argv[optind].opt = "q" /\ argv[optind].scanned \in Seq(Nat)
    BY <1>0, <1>4 DEF TakeQuality, Typed, ArgvOK
  <2> DEFINE got == argv[optind].scanned
  <2>2. CASE Len(got) # 2
    <3>1. g_options' = g_options
      BY <1>4, <2>2 DEF TakeQuality
    <3> QED BY <2>1, <2>2, <3>1 DEF Follows, Fits
  <2>3. CASE Len(got) = 2
    <3>1. g_options' = [g_options EXCEPT !.qMin = got[1], !.qMax = got[2]]
      BY <1>4, <2>3 DEF TakeQuality
    <3>2. got = <<got[1], got[2]>>
      BY <2>1, <2>3, PairIs
    <3> QED BY <1>0, <2>1, <2>3, <3>1, <3>2 DEF Follows, Fits, Options
  <2> QED BY <2>2, <2>3
<1>5. CASE TakeOutputs
  <2>1. argv[optind].opt = "o"
    BY <1>5 DEF TakeOutputs
  <2>2. g_options' =
          [g_options EXCEPT !.outFifos = @ \o argv[optind].names]
    BY <1>5 DEF TakeOutputs
  <2> QED BY <1>0, <2>1, <2>2 DEF Follows, Fits, Options
<1>6. CASE Skip
  BY <1>6 DEF Skip, Follows, Fits
<1> QED BY <1>1, <1>2, <1>3, <1>4, <1>5, <1>6

\* Named is a function of argv alone.
LEMMA NamedSame == argv' = argv => Named' = Named
<1> SUFFICES ASSUME argv' = argv PROVE Named' = Named
  OBVIOUS
<1> QED BY Zenon DEF Named

\* No action but TakeOutputs touches the names while the options are read.
LEMMA NamedStep ==
  ASSUME Typed, Parsed,
         TakeInput \/ TakeNumber \/ TakeSize \/ TakeQuality \/ TakeOutputs
           \/ Skip
  PROVE  g_options'.outFifos = Named[optind]
<1> USE DEF Found, optarg
<1>0. /\ Len(argv) \in 0..MaxArgs /\ MaxArgs \in Nat
      /\ optind \in 1..(Len(argv) + 1)
      /\ g_options \in Options
  BY CommandLineAssumption DEF Typed, ArgvOK
<1>1. /\ phase = "options" /\ optind <= Len(argv)
  BY DEF TakeInput, TakeNumber, TakeSize, TakeQuality, TakeOutputs, Skip
<1>2. Named[optind] = Named[optind - 1] \o NamesAt(optind)
  <2>1. optind \in 1..MaxArgs
    BY <1>0, <1>1
  <2> QED BY <1>0, <2>1, NamedSteps
<1>3. g_options.outFifos = Named[optind - 1]
  BY <1>1 DEF Parsed
<1>4. CASE TakeOutputs
  <2>1. NamesAt(optind) = argv[optind].names
    BY <1>1, <1>4 DEF TakeOutputs, NamesAt
  <2>2. g_options'.outFifos = g_options.outFifos \o argv[optind].names
    BY <1>0, <1>4 DEF TakeOutputs, Options
  <2> QED BY <1>2, <1>3, <2>1, <2>2
<1>5. CASE TakeInput \/ TakeNumber \/ TakeSize \/ TakeQuality \/ Skip
  <2>1. argv[optind].opt # "o"
    BY <1>5 DEF TakeInput, TakeNumber, TakeSize, TakeQuality, Skip
  <2>2. NamesAt(optind) = <<>>
    BY <2>1 DEF NamesAt
  <2>3. g_options.outFifos \o <<>> = g_options.outFifos
    <3>1. g_options.outFifos \in Seq(STRING)
      BY <1>0 DEF Options
    <3> QED BY <3>1, ConcatEmptySeq
  <2>4. g_options'.outFifos = g_options.outFifos
    <3>1. CASE TakeNumber
      <4>1. argv[optind].opt \in {"b", "r", "t", "k"}
        BY <3>1 DEF TakeNumber
      <4>2. NumberOf[argv[optind].opt] # "outFifos"
        BY <4>1 DEF NumberOf
      <4>3. g_options' = [g_options EXCEPT
             ![NumberOf[argv[optind].opt]] = argv[optind].scanned[1]]
        BY <3>1 DEF TakeNumber
      <4> QED BY <1>0, <4>2, <4>3 DEF Options
    <3>2. CASE TakeInput \/ TakeSize \/ TakeQuality \/ Skip
      BY <1>0, <3>2 DEF TakeInput, TakeSize, TakeQuality, Skip, Options
    <3> QED BY <1>5, <3>1, <3>2
  <2> QED BY <1>2, <1>3, <2>2, <2>3, <2>4
<1> QED BY <1>4, <1>5

\* The loop over the options keeps what it has read (cliOptions.cpp:103-190).
LEMMA ParsedNext == Typed /\ Parsed /\ [Next]_vars => Parsed'
<1> SUFFICES ASSUME Typed, Parsed, [Next]_vars PROVE Parsed'
  OBVIOUS
<1>0. optind \in Nat \ {0}
  BY CommandLineAssumption DEF Typed, ArgvOK
<1>1. CASE \/ TakeInput \/ TakeNumber \/ TakeSize \/ TakeQuality
           \/ TakeOutputs \/ Skip
  <2>1. /\ phase = "options" /\ argv' = argv /\ optind' = optind + 1
    BY <1>1 DEF TakeInput, TakeNumber, TakeSize, TakeQuality, TakeOutputs,
                Skip, Found, Proceed
  <2>2. /\ Read(argv, g_options, optind - 1)
        /\ ReadOutput(argv, g_options, optind - 1)
    BY <2>1 DEF Parsed
  <2>3. Follows(argv, g_options, g_options', optind)
    BY <1>1, TakeFollows
  <2>4. Read(argv, g_options', optind) /\ ReadOutput(argv, g_options', optind)
    BY <1>0, <2>2, <2>3, ReadStep
  <2>5. g_options'.outFifos = Named[optind]
    BY <1>1, NamedStep
  <2>6. Named' = Named
    BY <2>1, NamedSame
  <2>7. optind' - 1 = optind
    BY <1>0, <2>1
  <2> QED BY <2>1, <2>4, <2>5, <2>6, <2>7 DEF Parsed
<1>2. CASE Usage \/ EndOfOptions \/ Configure \/ OpenOutput \/ AllOpen
  <2>1. phase' # "options"
    BY <1>2 DEF Usage, EndOfOptions, Configure, OpenOutput, AllOpen
  <2> QED BY <2>1 DEF Parsed
<1>3. CASE UNCHANGED vars
  <2>1. /\ argv' = argv /\ optind' = optind /\ g_options' = g_options
        /\ phase' = phase
    BY <1>3 DEF vars
  <2>2. Named' = Named
    BY <2>1, NamedSame
  <2> QED BY <2>1, <2>2 DEF Parsed
<1> QED BY <1>1, <1>2, <1>3 DEF Next, processCmdLineOptions

\* The end of the options settles them, and main() leaves them alone
\* (cliOptions.cpp:192-209).
LEMMA SettledNext == Typed /\ Parsed /\ Settled /\ [Next]_vars => Settled'
<1> SUFFICES ASSUME Typed, Parsed, Settled, [Next]_vars PROVE Settled'
  OBVIOUS
<1>0. Len(argv) \in Nat /\ optind \in 1..(Len(argv) + 1)
  BY CommandLineAssumption DEF Typed, ArgvOK
<1>1. CASE \/ TakeInput \/ TakeNumber \/ TakeSize \/ TakeQuality
           \/ TakeOutputs \/ Skip \/ Usage
  <2>1. phase' \in {"options", "usage"}
    BY <1>1 DEF TakeInput, TakeNumber, TakeSize, TakeQuality, TakeOutputs,
                Skip, Usage, Found, Proceed
  <2> QED BY <2>1 DEF Settled
<1>2. CASE EndOfOptions
  <2> DEFINE out == <<g_options.width_out, g_options.height_out>>
  <2>1. /\ phase = "options" /\ argv' = argv /\ optind - 1 = Len(argv)
    BY <1>0, <1>2 DEF EndOfOptions
  <2>2. /\ Read(argv, g_options, Len(argv))
        /\ ReadOutput(argv, g_options, Len(argv))
        /\ g_options.outFifos = Named[Len(argv)]
    BY <2>1 DEF Parsed
  <2>3. /\ g_options'.width = g_options.width
        /\ g_options'.height = g_options.height
        /\ g_options'.qMin = g_options.qMin
        /\ g_options'.qMax = g_options.qMax
        /\ g_options'.bitrate = g_options.bitrate
        /\ g_options'.fps = g_options.fps
        /\ g_options'.keyInterval = g_options.keyInterval
        /\ g_options'.duration = g_options.duration
        /\ g_options'.outFifos = g_options.outFifos
        /\ g_options'.width_out =
             IF g_options.width_out = 0 THEN g_options.width
             ELSE g_options.width_out
        /\ g_options'.height_out =
             IF g_options.height_out = 0 THEN g_options.height
             ELSE g_options.height_out
    BY <1>2 DEF EndOfOptions, Typed, Options
  <2>4. Read(argv, g_options', Len(argv))
    BY <2>2, <2>3 DEF Read
  <2>5. out \in Nat \X Nat
    BY DEF Typed, Options
  <2>6. Says(argv, "z", 2, <<0, 0>>, out, Len(argv))
    BY <2>2 DEF ReadOutput
  <2>7. <<g_options'.width_out, g_options'.height_out>> =
          OrElse(out, <<g_options'.width, g_options'.height>>)
    BY <2>3 DEF OrElse
  <2>8. Named' = Named
    BY <2>1, NamedSame
  <2>9. phase' = "configure" => g_options'.outFifos # <<>>
    BY <1>2, <2>3 DEF EndOfOptions
  <2>10. phase' \in {"configure", "usage"}
    BY <1>2 DEF EndOfOptions
  <2> HIDE DEF out
  <2> QED BY <2>1, <2>2, <2>3, <2>4, <2>5, <2>6, <2>7, <2>8, <2>9, <2>10
          DEF Settled
<1>3. CASE Configure \/ OpenOutput \/ AllOpen \/ UNCHANGED vars
  <2>1. argv' = argv /\ g_options' = g_options
    BY <1>3 DEF Configure, OpenOutput, AllOpen, vars
  <2>2. phase' \in {"configure", "open", "started", "failed"} =>
          phase \in {"configure", "open", "started", "failed"}
    BY <1>3 DEF Configure, OpenOutput, AllOpen, vars
  <2>3. Named' = Named
    BY <2>1, NamedSame
  <2> QED BY <2>1, <2>2, <2>3 DEF Settled
<1> QED BY <1>1, <1>2, <1>3 DEF Next, processCmdLineOptions

\* All of this holds always.
LEMMA OptionsInvariant == Spec => [](Typed /\ Parsed /\ Settled)
<1>1. Init => Parsed /\ Settled
  <2> SUFFICES ASSUME Init PROVE Parsed /\ Settled
    OBVIOUS
  <2>1. /\ phase = "options" /\ optind - 1 = 0 /\ g_options = default_options
    BY DEF Init
  <2>2. 1..0 = {}
    OBVIOUS
  <2>3. Read(argv, default_options, 0) /\ ReadOutput(argv, default_options, 0)
    BY <2>2 DEF Read, ReadOutput, Says, default_options
  <2>4. Named[0] = <<>>
    BY NamedSteps, CommandLineAssumption
  <2>5. default_options.outFifos = <<>>
    BY DEF default_options
  <2> QED BY <2>1, <2>3, <2>4, <2>5 DEF Parsed, Settled
<1> QED BY <1>1, TypedInvariant, ParsedNext, SettledNext, PTL DEF Spec

\* Settled options are those that OptionsAgree asks for.
LEMMA SettledAgrees == Typed /\ Settled => OptionsAgree
<1> SUFFICES ASSUME Typed, Settled,
                    phase \in {"configure", "open", "started", "failed"}
             PROVE  LET size == LastGiven("s", <<640, 480>>)
                        out == OrElse(LastGiven("z", <<0, 0>>), size)
                    IN /\ <<Encoder.nInputWidth, Encoder.nInputHeight>> = size
                       /\ <<Encoder.nDstWidth, Encoder.nDstHeight>> = out
                       /\ Given("q", 2) # {} =>
                            Quality = LastGiven("q", HelpQuality)
                       /\ <<Encoder.nBitrate>> =
                            <<1024 * LastGiven("b", <<1024>>)[1]>>
                       /\ <<Encoder.nFramerate>> = LastGiven("r", <<25>>)
                       /\ <<Encoder.nMaxKeyInterval>> = LastGiven("k", <<5>>)
                       /\ <<g_options.duration>> = LastGiven("t", <<0>>)
                       /\ g_options.outFifos = Named[MaxArgs]
                       /\ g_options.outFifos # <<>>
                       /\ \A k \in 1..Len(argv) :
                            argv[k].opt \notin {"h", "?"}
  BY DEF OptionsAgree
<1>1. /\ ArgvOK /\ Len(argv) \in Nat
      /\ g_options.outFifos \in Seq(STRING)
  BY CommandLineAssumption DEF Typed, ArgvOK, Options
<1>2. Read(argv, g_options, Len(argv))
  BY DEF Settled
<1>3. PICK out \in Nat \X Nat :
        /\ Says(argv, "z", 2, <<0, 0>>, out, Len(argv))
        /\ <<g_options.width_out, g_options.height_out>> =
             OrElse(out, <<g_options.width, g_options.height>>)
  BY DEF Settled
<1>4. /\ g_options.outFifos = Named[Len(argv)] /\ g_options.outFifos # <<>>
  BY DEF Settled
<1>5. g_options.outFifos = Named[MaxArgs]
  BY <1>1, <1>4, NamedEnd
<1>7. LastGiven("s", <<640, 480>>) = <<g_options.width, g_options.height>>
  <2>1. ASSUME NEW default, default = <<640, 480>>
        PROVE  LastGiven("s", default) = <<g_options.width, g_options.height>>
    <3>1. Says(argv, "s", 2, default, <<g_options.width, g_options.height>>,
               Len(argv))
      BY <1>2, <2>1 DEF Read
    <3>2. 2 = Len(default)
      BY <2>1
    <3> QED BY <1>1, <3>1, <3>2, SaysLast, Zenon
  <2> QED BY <2>1
<1>8. LastGiven("q", <<15, 30>>) = <<g_options.qMin, g_options.qMax>>
  <2>1. Says(argv, "q", 2, <<15, 30>>, <<g_options.qMin, g_options.qMax>>,
             Len(argv))
    BY <1>2 DEF Read
  <2>2. 2 = Len(<<15, 30>>)
    OBVIOUS
  <2> QED BY <1>1, <2>1, <2>2, SaysLast, Zenon
<1>18. Given("q", 2) # {} =>
         LastGiven("q", HelpQuality) = <<g_options.qMin, g_options.qMax>>
  <2>1. Len(HelpQuality) = 2 /\ Len(<<15, 30>>) = 2
    BY DEF HelpQuality
  <2> QED BY <1>8, <2>1 DEF LastGiven
<1>9. LastGiven("b", <<1024>>) = <<g_options.bitrate>>
  <2>1. ASSUME NEW default, default = << 1024 >>
        PROVE  LastGiven("b", default) = <<g_options.bitrate>>
    <3>1. Says(argv, "b", 1, default, <<g_options.bitrate>>,
               Len(argv))
      BY <1>2, <2>1 DEF Read
    <3>2. 1 = Len(default)
      BY <2>1
    <3> QED BY <1>1, <3>1, <3>2, SaysLast, Zenon
  <2> QED BY <2>1
<1>10. LastGiven("r", <<25>>) = <<g_options.fps>>
  <2>1. Says(argv, "r", 1, <<25>>, <<g_options.fps>>, Len(argv))
    BY <1>2 DEF Read
  <2>2. 1 = Len(<<25>>)
    OBVIOUS
  <2> QED BY <1>1, <2>1, <2>2, SaysLast, Zenon
<1>11. LastGiven("k", <<5>>) = <<g_options.keyInterval>>
  <2>1. Says(argv, "k", 1, <<5>>, <<g_options.keyInterval>>, Len(argv))
    BY <1>2 DEF Read
  <2>2. 1 = Len(<<5>>)
    OBVIOUS
  <2> QED BY <1>1, <2>1, <2>2, SaysLast, Zenon
<1>12. LastGiven("t", <<0>>) = <<g_options.duration>>
  <2>1. Says(argv, "t", 1, <<0>>, <<g_options.duration>>, Len(argv))
    BY <1>2 DEF Read
  <2>2. 1 = Len(<<0>>)
    OBVIOUS
  <2> QED BY <1>1, <2>1, <2>2, SaysLast, Zenon
<1>13. LastGiven("z", <<0, 0>>) = out
  <2>1. 2 = Len(<<0, 0>>)
    OBVIOUS
  <2> QED BY <1>1, <1>3, <2>1, SaysLast, Zenon
<1>14. \A k \in 1..Len(argv) : argv[k].opt \notin {"h", "?"}
  BY <1>2 DEF Read
<1>15. /\ <<Encoder.nInputWidth, Encoder.nInputHeight>> =
            <<g_options.width, g_options.height>>
       /\ <<Encoder.nDstWidth, Encoder.nDstHeight>> =
            <<g_options.width_out, g_options.height_out>>
       /\ <<Encoder.nMinqp, Encoder.nMaxqp>> =
            <<g_options.qMin, g_options.qMax>>
       /\ Encoder.nFramerate = g_options.fps
       /\ Encoder.nMaxKeyInterval = g_options.keyInterval
       /\ Encoder.nBitrate = 1024 * g_options.bitrate
  BY DEF Encoder
<1>16. <<Encoder.nBitrate>> = <<1024 * LastGiven("b", <<1024>>)[1]>>
  BY <1>9, <1>15
<1>17. Given("q", 2) # {} => Quality = LastGiven("q", HelpQuality)
  BY <1>15, <1>18 DEF Quality
<1> HIDE DEF Encoder
<1> QED BY <1>3, <1>4, <1>5, <1>7, <1>10, <1>11, <1>12, <1>13, <1>14,
           <1>15, <1>16, <1>17

\* However often the options are given and in whichever order, what the encoder
\* is told follows from the last argument of each that could be read, and the
\* outputs are all that were named (cliOptions.cpp:103-209,
\* videoenc.cpp:461-551).
THEOREM LastOptionsCount == Spec => []OptionsAgree
BY OptionsInvariant, SettledAgrees, PTL

-----------------------------------------------------------------------------
(***************************************************************************)
(* The sizes.                                                              *)
(***************************************************************************)

\* The sizes are those of the options, which do not change any more
\* (videoenc.cpp:480-481, 570).
Sized ==
  phase \in {"open", "started"} =>
    config = [Y_size     |-> g_options.width * g_options.height,
              UV_size    |-> (g_options.width * g_options.height) \div 2,
              input_size |-> g_options.width *
                               (g_options.height + g_options.height \div 2)]

\* With an even height the ways to compute the size of a picture are one.
LEMMA EvenSizes ==
  ASSUME NEW w \in Nat, NEW h \in Nat, h % 2 = 0
  PROVE  /\ w * h + (w * h) \div 2 = w * (h + h \div 2)
         /\ (w * h * 3) \div 2 = w * (h + h \div 2)
<1>1. PICK m \in Nat : h = 2 * m
  <2>1. h = 2 * (h \div 2) /\ h \div 2 \in Nat
    OBVIOUS
  <2> QED BY <2>1
<1> DEFINE p == w * m
<1>2. p \in Nat
  OBVIOUS
<1>3. w * h = 2 * p
  BY <1>1
<1>4. h \div 2 = m
  BY <1>1
<1>5. w * (h + h \div 2) = 3 * p
  <2>1. h + h \div 2 = 3 * m
    BY <1>1, <1>4
  <2>2. w * (3 * m) = 3 * (w * m)
    OBVIOUS
  <2> QED BY <2>1, <2>2
<1> HIDE DEF p
<1>6. (2 * p) \div 2 = p /\ (2 * p * 3) \div 2 = 3 * p
  BY <1>2
<1>7. 2 * p + p = 3 * p
  BY <1>2
<1> QED BY <1>3, <1>5, <1>6, <1>7

\* main() computes the sizes once, when g_options is settled
\* (videoenc.cpp:480-481).
LEMMA SizedNext == Typed /\ Sized /\ [Next]_vars => Sized'
<1> SUFFICES ASSUME Typed, Sized, [Next]_vars PROVE Sized'
  OBVIOUS
<1>1. CASE processCmdLineOptions
  <2>1. phase' \notin {"open", "started"}
    BY <1>1 DEF processCmdLineOptions, TakeInput, TakeNumber, TakeSize,
                TakeQuality, TakeOutputs, Skip, Usage, EndOfOptions, Found,
                Proceed
  <2> QED BY <2>1 DEF Sized
<1>2. CASE Configure
  BY <1>2 DEF Configure, Sized
<1>3. CASE OpenOutput \/ AllOpen \/ UNCHANGED vars
  <2>1. /\ config' = config /\ g_options' = g_options
        /\ phase' \in {"open", "started"} => phase \in {"open", "started"}
    BY <1>3 DEF OpenOutput, AllOpen, vars
  <2> QED BY <2>1 DEF Sized
<1> QED BY <1>1, <1>2, <1>3 DEF Next

\* With an even height the places that compute the size of a picture agree, for
\* every size (videoenc.cpp:480-481, 303, 524-525, 570, 577).
THEOREM SizesOfPictureAgree == Spec => []SizesAgree
<1>1. Init => Sized
  BY DEF Init, Sized
<1>2. Typed /\ Sized => SizesAgree
  <2> SUFFICES ASSUME Typed, Sized, phase \in {"open", "started"},
                      g_options.height % 2 = 0
               PROVE  /\ config.Y_size + config.UV_size = config.input_size
                      /\ Encoder.nSizeY = config.Y_size
                      /\ Encoder.nSizeC = config.UV_size
                      /\ (Encoder.nInputWidth * Encoder.nInputHeight * 3) \div 2
                           = config.input_size
    BY DEF SizesAgree
  <2> DEFINE w == g_options.width
             h == g_options.height
  <2>1. w \in Nat /\ h \in Nat
    BY DEF Typed, Options
  <2>2. /\ w * h + (w * h) \div 2 = w * (h + h \div 2)
        /\ (w * h * 3) \div 2 = w * (h + h \div 2)
    BY <2>1, EvenSizes
  <2>3. /\ config.Y_size = w * h
        /\ config.UV_size = (w * h) \div 2
        /\ config.input_size = w * (h + h \div 2)
    BY DEF Sized
  <2>4. /\ Encoder.nSizeY = w * h /\ Encoder.nSizeC = (w * h) \div 2
        /\ Encoder.nInputWidth = w /\ Encoder.nInputHeight = h
    BY DEF Encoder
  <2> HIDE DEF w, h
  <2> QED BY <2>2, <2>3, <2>4
<1> QED BY <1>1, <1>2, TypedInvariant, SizedNext, PTL DEF Spec
=============================================================================
