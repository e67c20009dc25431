---------------------------- MODULE CommandLine ----------------------------
(***************************************************************************)
(* The start of the program, up to its threads: processCmdLineOptions()    *)
(* (cliOptions.cpp) fills g_options from the command line, main()          *)
(* (videoenc.cpp) derives the sizes and the encoder's parameters from them *)
(* and opens the outputs.                                                  *)
(*                                                                         *)
(* An argument is kept as what the code gets out of it: the numbers that   *)
(* atoi() or sscanf() find at its head, and the names between its commas.  *)
(* Numbers are not negative.  What getopt_long() does not take for an      *)
(* option or for the argument of one is moved behind the options and never *)
(* looked at: "word".                                                      *)
(***************************************************************************)
EXTENDS Naturals, Sequences

CONSTANTS Numbers,  \* what is given to -b, -r, -t and -k
          Pairs,    \* what sscanf() finds in the arguments of -s, -z and -q
          Lists,    \* the arguments of -o
          MaxArgs   \* bound on the length of the command line

ASSUME CommandLineAssumption ==
  /\ Numbers \subseteq Nat
  /\ Pairs \subseteq Seq(Nat)
  /\ Lists \subseteq Seq(STRING) \ {<<>>}
  /\ MaxArgs \in Nat

Argument(opts, scanned, names) ==
  [opt : opts, scanned : scanned, names : names]

Arguments ==
  Argument({"i"}, {<<>>}, {<<"-">>, <<"/dev/video0">>})
    \cup Argument({"b", "r", "t", "k"}, {<<n>> : n \in Numbers}, {<<>>})
    \cup Argument({"s", "z", "q"}, Pairs, {<<>>})
    \cup Argument({"o"}, {<<>>}, Lists)
    \cup Argument({"h", "?", "word"}, {<<>>}, {<<>>})

VARIABLES
  argv,
  optind,     \* the place in argv that getopt_long() has reached
  g_options,
  config,     \* the sizes, and what the encoder is told
  writers,    \* the outputs that are open
  phase       \* "options", "usage" (exit(2)), "configure", "open", "failed"
              \* (EXIT_FAILURE) or "started"

vars == <<argv, optind, g_options, config, writers, phase>>

default_options ==
  [input |-> "-", bitrate |-> 1024, fps |-> 25, width |-> 640, height |-> 480,
   width_out |-> 0, height_out |-> 0, qMin |-> 15, qMax |-> 30,
   keyInterval |-> 5, duration |-> 0, outFifos |-> <<>>]

Init ==
  /\ argv \in UNION {[1..n -> Arguments] : n \in 0..MaxArgs}
  /\ optind = 1
  /\ g_options = default_options
  /\ config = [Y_size |-> 0, UV_size |-> 0, input_size |-> 0]
  /\ writers = <<>>
  /\ phase = "options"

\* getopt_long() has found one of these options.
Found(opts) ==
  /\ phase = "options"
  /\ optind <= Len(argv)
  /\ argv[optind].opt \in opts

optarg == argv[optind]

Proceed == optind' = optind + 1 /\ UNCHANGED <<argv, config, writers, phase>>

(***************************************************************************)
(* Faulty variants.                                                        *)
(***************************************************************************)

\* Whatever sscanf() has found is taken.
TakeSize_Unchecked ==
  /\ Found({"s", "z"})
  /\ LET got(n) == IF Len(optarg.scanned) >= n THEN optarg.scanned[n] ELSE 0
     IN g_options' = IF optarg.opt = "s"
          THEN [g_options EXCEPT !.width = got(1), !.height = got(2)]
          ELSE [g_options EXCEPT !.width_out = got(1), !.height_out = got(2)]
  /\ Proceed

\* One chroma plane is counted instead of two.
Configure_OnePlane ==
  /\ phase = "configure"
  /\ LET w == g_options.width
         h == g_options.height
     IN config' = [Y_size     |-> w * h,
                   UV_size    |-> (w * h) \div 4,
                   input_size |-> w * (h + h \div 2)]
  /\ phase' = "open"
  /\ UNCHANGED <<argv, optind, g_options, writers>>

(***************************************************************************)
(* processCmdLineOptions().                                                *)
(***************************************************************************)
TakeInput ==
  /\ Found({"i"})
  /\ g_options' = [g_options EXCEPT !.input = optarg.names[1]]
  /\ Proceed

\* atoi().
NumberOf == [b |-> "bitrate", r |-> "fps", t |-> "duration",
             k |-> "keyInterval"]

TakeNumber ==
  /\ Found({"b", "r", "t", "k"})
  /\ g_options' = [g_options EXCEPT ![NumberOf[optarg.opt]] = optarg.scanned[1]]
  /\ Proceed

\* A size counts only if sscanf() has found both numbers.
TakeSize ==
  /\ Found({"s", "z"})
  /\ LET got == optarg.scanned
     IN g_options' = IF Len(got) # 2 THEN g_options
          ELSE IF optarg.opt = "s"
          THEN [g_options EXCEPT !.width = got[1], !.height = got[2]]
          ELSE [g_options EXCEPT !.width_out = got[1], !.height_out = got[2]]
  /\ Proceed

TakeQuality ==
  /\ Found({"q"})
  /\ LET got == optarg.scanned
     IN g_options' = IF Len(got) # 2 THEN g_options
          ELSE [g_options EXCEPT !.qMin = got[1], !.qMax = got[2]]
  /\ Proceed

\* Every name, the empty one behind a last comma too.
TakeOutputs ==
  /\ Found({"o"})
  /\ g_options' = [g_options EXCEPT !.outFifos = @ \o optarg.names]
  /\ Proceed

Skip ==
  /\ Found({"word"})
  /\ UNCHANGED g_options
  /\ Proceed

\* help() and exit(2).
Usage ==
  /\ Found({"h", "?"})
  /\ phase' = "usage"
  /\ UNCHANGED <<argv, optind, g_options, config, writers>>

\* The size of the output is that of the source if it was not given, each of
\* width and height by itself.
EndOfOptions ==
  /\ phase = "options"
  /\ optind > Len(argv)
  /\ g_options' = [g_options EXCEPT
       !.width_out = IF @ = 0 THEN g_options.width ELSE @,
       !.height_out = IF @ = 0 THEN g_options.height ELSE @]
  /\ phase' = IF g_options.outFifos = <<>> THEN "usage" ELSE "configure"
  /\ UNCHANGED <<argv, optind, config, writers>>

(***************************************************************************)
(* main().                                                                 *)
(***************************************************************************)

\* What the encoder is told: VencBaseConfig, VencAllocateBufferParam, h264Param.
Encoder ==
  [nInputWidth |-> g_options.width, nInputHeight |-> g_options.height,
   nDstWidth |-> g_options.width_out, nDstHeight |-> g_options.height_out,
   nBitrate |-> 1024 * g_options.bitrate, nFramerate |-> g_options.fps,
   nMaxKeyInterval |-> g_options.keyInterval,
   nMinqp |-> g_options.qMin, nMaxqp |-> g_options.qMax,
   nSizeY |-> g_options.width * g_options.height,
   nSizeC |-> (g_options.width * g_options.height) \div 2,
   nBufferNum |-> 4]

Configure ==
  /\ phase = "configure"
  /\ LET w == g_options.width
         h == g_options.height
     IN config' = [Y_size     |-> w * h,
                   UV_size    |-> (w * h) \div 2,
                   input_size |-> w * (h + h \div 2)]
  /\ phase' = "open"
  /\ UNCHANGED <<argv, optind, g_options, writers>>

\* openStream() may fail for any name, and does for the empty one.
OpenOutput ==
  /\ phase = "open"
  /\ Len(writers) < Len(g_options.outFifos)
  /\ LET name == g_options.outFifos[Len(writers) + 1]
     IN \/ name # "" /\ writers' = Append(writers, name) /\ UNCHANGED phase
        \/ phase' = "failed" /\ UNCHANGED writers
  /\ UNCHANGED <<argv, optind, g_options, config>>

\* The threads are created next (module MainThread).
AllOpen ==
  /\ phase = "open"
  /\ Len(writers) = Len(g_options.outFifos)
  /\ phase' = "started"
  /\ UNCHANGED <<argv, optind, g_options, config, writers>>
-----------------------------------------------------------------------------
processCmdLineOptions ==
  \/ TakeInput \/ TakeNumber \/ TakeSize \/ TakeQuality \/ TakeOutputs \/ Skip
  \/ Usage \/ EndOfOptions

Next == processCmdLineOptions \/ Configure \/ OpenOutput \/ AllOpen

Spec == Init /\ [][Next]_vars
-----------------------------------------------------------------------------
(***************************************************************************)
(* Properties.                                                             *)
(***************************************************************************)

\* The places of argv with this option and with as many numbers.
Given(opt, count) ==
  {k \in 1..Len(argv) : argv[k].opt = opt /\ Len(argv[k].scanned) = count}

\* What was given last, or the default.
LastGiven(opt, default) ==
  LET places == Given(opt, Len(default))
  IN IF places = {} THEN default
     ELSE argv[CHOOSE k \in places : \A l \in places : l <= k].scanned

\* The names of all the lists, in their order.
Named[k \in 0..MaxArgs] ==
  IF k = 0 THEN <<>>
  ELSE Named[k - 1] \o IF k <= Len(argv) /\ argv[k].opt = "o"
                       THEN argv[k].names ELSE <<>>

Quality == <<Encoder.nMinqp, Encoder.nMaxqp>>

\* The default of -q that help() prints.
HelpQuality == <<20, 30>>

OrElse(given, other) ==
  <<IF given[1] = 0 THEN other[1] ELSE given[1],
    IF given[2] = 0 THEN other[2] ELSE given[2]>>

\* However often the options are given and in whichever order: of the arguments
\* that can be read the last one counts, a size of the output that was not
\* given is that of the source, all lists of outputs are joined, and what the
\* encoder is told follows from these.  The program goes on only if it is not
\* asked for help and there is an output (cliOptions.cpp:103-209,
\* videoenc.cpp:461-551).  The quality counts here only if it was given: its
\* default is not the one of the help (QualityAsHelpSays).
OptionsAgree ==
  phase \in {"configure", "open", "started", "failed"} =>
    LET size == LastGiven("s", <<640, 480>>)
        out == OrElse(LastGiven("z", <<0, 0>>), size)
    IN /\ <<Encoder.nInputWidth, Encoder.nInputHeight>> = size
       /\ <<Encoder.nDstWidth, Encoder.nDstHeight>> = out
       /\ Given("q", 2) # {} => Quality = LastGiven("q", HelpQuality)
       /\ <<Encoder.nBitrate>> = <<1024 * LastGiven("b", <<1024>>)[1]>>
       /\ <<Encoder.nFramerate>> = LastGiven("r", <<25>>)
       /\ <<Encoder.nMaxKeyInterval>> = LastGiven("k", <<5>>)
       /\ <<g_options.duration>> = LastGiven("t", <<0>>)
       /\ g_options.outFifos = Named[MaxArgs]
       /\ g_options.outFifos # <<>>
       /\ \A k \in 1..Len(argv) : argv[k].opt \notin {"h", "?"}

\* What the help says of the quality, "default = -q 20,30"
\* (cliOptions.cpp:72; default_options has 15, line 40).
QualityAsHelpSays ==
  phase \in {"configure", "open", "started", "failed"} =>
    Quality = LastGiven("q", HelpQuality)

\* The five places that compute the size of a picture agree when the height is
\* even: what file_thread() reads, what it compares that with, which is also
\* the size of an output's buffer, what the encoder allocates, and what goes to
\* a raw output.  With an odd height they do not (videoenc.cpp:480-481, 303,
\* 524-525, 570, 577).
SizesAgree ==
  phase \in {"open", "started"} /\ g_options.height % 2 = 0 =>
    /\ config.Y_size + config.UV_size = config.input_size
    /\ Encoder.nSizeY = config.Y_size
    /\ Encoder.nSizeC = config.UV_size
    /\ (Encoder.nInputWidth * Encoder.nInputHeight * 3) \div 2 = config.input_size
=============================================================================
