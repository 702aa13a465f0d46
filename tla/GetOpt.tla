------------------------------ MODULE GetOpt --------------------------------
(***************************************************************************)
(* Command-line parsing of tar2sqfs: process_args (src/tar/tar2sqfs.c,    *)
(* lines 115-223) driving the compatibility getopt_long and getopt        *)
(* (src/lib/compat/getopt_long.c, src/lib/compat/getopt.c).               *)
(*                                                                         *)
(* An argument is a sequence of one-character strings; "NUL" stands for  *)
(* the terminating NUL.  C's argv[i] for i >= 1 is args[i], so argc is    *)
(* Len(args) + 1.  The static pointer `current` of getopt is a pair       *)
(* <<token, position>>; token 0 is the empty string "".                   *)
(***************************************************************************)
EXTENDS Integers, Sequences, SequencesExt

CONSTANTS
  Args,       \* the argument vectors explored
  OptStr,     \* short_opts, as a sequence of characters
  LongOpts,   \* long_opts: records [name, has_arg, val], no terminating entry
  Digits,     \* digit characters and their values, for strtol
  UIntWidth,  \* bits of int and unsigned int
  SizeWidth,  \* bits of size_t
  BlockSize0, \* SQFS_DEFAULT_BLOCK_SIZE
  DevBlk0,    \* SQFS_DEVBLK_SIZE
  DevBlkMin,  \* the 1024 bytes -B must give at least
  CompIds,    \* sqfs_compressor_id_from_name: name -> compressor id
  Built,      \* the ids sqfs_compressor_exists accepts
  DefaultComp,\* compressor_get_default()
  HelpWord    \* "help", as a character sequence

NUL == "NUL"
NULL == <<"NULL">>  \* a NULL char *: unequal to every character sequence
END == "END"        \* the -1 getopt returns after the last option
UIntMax == 2^UIntWidth
SizeMax == 2^SizeWidth
Empty == <<0, 1>>     \* current = ""

VARIABLES
  args,       \* argv[1..argc-1]
  optind,
  current,
  optarg,     \* a character sequence, or NULL
  phase,      \* "parse", "done" (process_args returned), "exit_ok",
              \* "exit_fail" (exit called), "crash"
  opts,       \* the options process_args acted on, with their arguments
  conf,       \* the globals process_args sets: block_size, devblksize,
              \* num_jobs, max_backlog, comp_id, comp_extra, fs_defaults,
              \* and the flags -s -x -k -e -f -q set (dont_skip, no_xattr,
              \* keep_time, exportable, outmode, quiet)
  filename,   \* index in args of the image name, 0 if none
  overrun     \* the long option search read past the end of long_opts

vars == <<args, optind, current, optarg, phase, opts, conf, filename, overrun>>

argc == Len(args) + 1

\* The character at C index k of a token (a NUL past its end).
Ch(t, k) == IF k < Len(t) THEN t[k + 1] ELSE NUL

\* *current, and the string current points to.
Deref(c) == IF c[1] = 0 THEN NUL ELSE Ch(args[c[1]], c[2] - 1)
Rest(c) == SubSeq(args[c[1]], c[2], Len(args[c[1]]))

\* strchr(optstr, c): the index of c in OptStr, 0 if absent.
StrChr(c) == SelectInSeq(OptStr, LAMBDA x : x = c)

\* strtol(s, NULL, 0) on a sign and digits: base 8 after a leading 0,
\* otherwise base 10; conversion stops at the first invalid digit.
Strtol(s) ==
  LET neg  == s # <<>> /\ Head(s) = "-"
      body == IF neg THEN Tail(s) ELSE s
      base == IF body # <<>> /\ Head(body) = "0" THEN 8 ELSE 10
      ok(ch) == ch \in DOMAIN Digits /\ Digits[ch] < base
      stop == SelectInSeq(body, LAMBDA ch : ~ok(ch))
      ds   == IF stop = 0 THEN body ELSE SubSeq(body, 1, stop - 1)
      v    == FoldLeft(LAMBDA acc, ch : acc * base + Digits[ch], 0, ds)
  IN IF neg THEN -v ELSE v

\* Fault: the long result of strtol stored without the unsigned conversion.
ToUIntMissing(v) == v

\* Conversion of a long to unsigned int.
ToUInt(v) == v % UIntMax

\* Conversions of a long to size_t, and to int (modulo, as gcc does).
ToSize(v) == v % SizeMax
ToInt(v) == ((v + UIntMax \div 2) % UIntMax) - UIntMax \div 2

Res(r, oi, c, a) == [ret |-> r, optind |-> oi, current |-> c, optarg |-> a]

\* Fault: optind advanced after every option without an argument.
ShortOptAlwaysAdvances(oi, c) ==
  LET ch == Deref(c)
      c2 == <<c[1], c[2] + 1>>
      p  == StrChr(ch)
  IN IF ch = ":" \/ p = 0 THEN Res("?", oi, c2, optarg)
     ELSE IF p < Len(OptStr) /\ OptStr[p + 1] = ":"
       THEN IF Deref(c2) # NUL THEN Res(ch, oi + 1, Empty, Rest(c2))
            ELSE IF oi + 1 >= argc THEN Res("?", oi + 1, c2, optarg)
            ELSE Res(ch, oi + 2, Empty, args[oi + 1])
       ELSE Res(ch, oi + 1, c2, NULL)

(* getopt, lines 38-68: the option character at current, and its         *)
(* argument: the rest of the token, or the next token.                    *)
ShortOpt(oi, c) ==
  LET ch == Deref(c)
      c2 == <<c[1], c[2] + 1>>
      p  == StrChr(ch)
  IN IF ch = ":" \/ p = 0 THEN Res("?", oi, c2, optarg)
     ELSE IF p < Len(OptStr) /\ OptStr[p + 1] = ":"
       THEN IF Deref(c2) # NUL THEN Res(ch, oi + 1, Empty, Rest(c2))
            ELSE IF oi + 1 >= argc THEN Res("?", oi + 1, c2, optarg)
            ELSE Res(ch, oi + 2, Empty, args[oi + 1])
       ELSE Res(ch, IF Deref(c2) = NUL THEN oi + 1 ELSE oi, c2, NULL)

(* getopt, lines 23-36: start a new token when current is exhausted; a    *)
(* non-option, "--" or "-" ends the options.                              *)
Getopt(oi, c) ==
  IF Deref(c) # NUL THEN ShortOpt(oi, c)
  ELSE IF oi >= argc \/ Ch(args[oi], 0) # "-" THEN Res(END, oi, c, optarg)
  ELSE IF Ch(args[oi], 1) = "-" /\ Ch(args[oi], 2) = NUL
    THEN Res(END, oi + 1, c, optarg)
  ELSE IF Ch(args[oi], 1) = NUL THEN Res(END, oi, c, optarg)
  ELSE ShortOpt(oi, <<oi, 2>>)

(* getopt_long, lines 35-41: the linear search for an exact match.  With  *)
(* no match the loop runs to index Len(LongOpts) + 1, past the table.     *)
LongSearch(name) ==
  LET i == SelectInSeq(LongOpts, LAMBDA e : e.name = name)
  IN IF i = 0 THEN Len(LongOpts) + 1 ELSE i

(* getopt_long, lines 18-71.  "overrun" is the read of                    *)
(* longopts[i].name one entry past the end of the table.                  *)
GetoptLong(oi, c) ==
  IF oi >= argc \/ Ch(args[oi], 0) # "-" \/ Ch(args[oi], 1) # "-"
     \/ Ch(args[oi], 2) = NUL
  THEN Getopt(oi, c)
  ELSE
    LET ptr == SubSeq(args[oi], 3, Len(args[oi]))
        eq  == SelectInSeq(ptr, LAMBDA x : x = "=")
        len == IF eq = 0 THEN Len(ptr) ELSE eq - 1
        i   == LongSearch(SubSeq(ptr, 1, len))
        e   == LongOpts[i]
    IN IF i > Len(LongOpts) THEN Res("overrun", oi, c, NULL)
       ELSE IF eq # 0
         THEN IF ~e.has_arg THEN Res("?", oi, c, NULL)
              ELSE Res(e.val, oi + 1, c, SubSeq(ptr, len + 2, Len(ptr)))
       ELSE IF e.has_arg
         THEN IF oi + 1 >= argc THEN Res("?", oi + 1, c, NULL)
              ELSE Res(e.val, oi + 2, c, args[oi + 1])
       ELSE Res(e.val, oi + 1, c, NULL)

-----------------------------------------------------------------------------
Conf0 == [block |-> BlockSize0, devblk |-> DevBlk0, jobs |-> 1, backlog |-> 0,
          comp |-> DefaultComp, extra |-> NULL, defaults |-> NULL, flags |-> {}]

Init ==
  /\ args \in Args
  /\ optind = 1
  /\ current = Empty
  /\ optarg = NULL
  /\ phase = "parse"
  /\ opts = <<>>
  /\ conf = Conf0
  /\ filename = 0
  /\ overrun = FALSE

(* Each action is one iteration of the loop of process_args; r is what   *)
(* the getopt_long call at its top (line 123) returns: the result and    *)
(* the new optind, current and optarg.                                   *)
Call(r) ==
  /\ phase = "parse"
  /\ current' = r.current /\ optarg' = r.optarg

\* The options that only set a flag.
FlagOpts == {"s", "x", "k", "e", "f", "q"}

\* The ids -c accepts: a known name of a compressor built in.
CompAccepted(a) == a \in DOMAIN CompIds /\ CompIds[a] \in Built

\* -B below 1024 as size_t, or -c naming no built compressor: exit.
Rejected(o, a) ==
  \/ o = "B" /\ ToSize(Strtol(a)) < DevBlkMin
  \/ o = "c" /\ ~CompAccepted(a)

(* The switch of lines 127-179 for an option it stores: strtol's long    *)
(* result goes into an int (-b), a size_t (-B, -Q) or an unsigned int    *)
(* (-j); -X and -d keep the argument; the others set a flag.             *)
Store(c, o, a) ==
  CASE o = "b" -> [c EXCEPT !.block = ToInt(Strtol(a))]
    [] o = "B" -> [c EXCEPT !.devblk = ToSize(Strtol(a))]
    [] o = "c" -> [c EXCEPT !.comp = CompIds[a]]
    [] o = "j" -> [c EXCEPT !.jobs = ToUInt(Strtol(a))]
    [] o = "Q" -> [c EXCEPT !.backlog = ToSize(Strtol(a))]
    [] o = "X" -> [c EXCEPT !.extra = a]
    [] o = "d" -> [c EXCEPT !.defaults = a]
    [] OTHER   -> [c EXCEPT !.flags = @ \cup {o}]

StoreOpts == {"b", "B", "c", "j", "Q", "X", "d"} \cup FlagOpts

\* One iteration of the loop for an option the switch stores.
ParseOption(r) ==
  /\ Call(r)
  /\ optind' = r.optind
  /\ r.ret \in StoreOpts
  /\ ~Rejected(r.ret, r.optarg)
  /\ opts' = Append(opts, <<r.ret, r.optarg>>)
  /\ conf' = Store(conf, r.ret, r.optarg)
  /\ UNCHANGED <<args, phase, filename, overrun>>

(* -B below the minimum (after devblksize is assigned) or an unsupported  *)
(* compressor: a message and exit(EXIT_FAILURE).                          *)
ParseReject(r) ==
  /\ Call(r)
  /\ optind' = r.optind
  /\ r.ret \in StoreOpts
  /\ Rejected(r.ret, r.optarg)
  /\ opts' = Append(opts, <<r.ret, r.optarg>>)
  /\ conf' = IF r.ret = "B" THEN Store(conf, "B", r.optarg) ELSE conf
  /\ phase' = "exit_fail"
  /\ UNCHANGED <<args, filename, overrun>>

\* -h prints the help text, -V the version; both exit with EXIT_SUCCESS.
ParseHelp(r) ==
  /\ Call(r)
  /\ optind' = r.optind
  /\ r.ret \in {"h", "V"}
  /\ opts' = Append(opts, <<r.ret, r.optarg>>)
  /\ phase' = "exit_ok"
  /\ UNCHANGED <<args, conf, filename, overrun>>

\* Fault: the default case goes on with the loop instead of exiting.
ParseErrorContinues(r) ==
  /\ Call(r)
  /\ optind' = r.optind
  /\ r.ret = "?"
  /\ UNCHANGED <<args, phase, opts, conf, filename, overrun>>

\* getopt_long returned '?': the default case jumps to fail_arg and exits.
ParseError(r) ==
  /\ Call(r)
  /\ optind' = r.optind
  /\ r.ret = "?"
  /\ phase' = "exit_fail"
  /\ UNCHANGED <<args, opts, conf, filename, overrun>>

(* An unknown long option: the search reads long_opts[15], past the end   *)
(* of the array.  The behaviour is undefined; the build either faults on *)
(* the read, or finds a NULL name there and reports an unknown option.    *)
ParseOverrun(r) ==
  /\ Call(r)
  /\ optind' = r.optind
  /\ r.ret = "overrun"
  /\ overrun' = TRUE
  /\ phase' \in {"crash", "exit_fail"}
  /\ UNCHANGED <<args, opts, conf, filename>>

\* Lines 197-198.
Jobs(n) == IF n < 1 THEN 1 ELSE n

(* getopt_long returned -1: the defaults and checks of lines 197-219.     *)
(* 10 * num_jobs is computed in unsigned int.  -X help prints the         *)
(* compressor's options and exits before the operands are looked at.     *)
ParseEnd(r) ==
  /\ Call(r)
  /\ r.ret = END
  /\ LET nj == Jobs(conf.jobs)
     IN conf' = [conf EXCEPT !.jobs = nj,
                   !.backlog = IF @ < 1 THEN (10 * nj) % UIntMax ELSE @]
  /\ CASE conf.extra = HelpWord ->
            phase' = "exit_ok" /\ filename' = 0 /\ optind' = r.optind
       [] r.optind >= argc \/ r.optind + 1 < argc ->
            phase' = "exit_fail" /\ filename' = 0 /\ optind' = r.optind
       [] OTHER ->
            phase' = "done" /\ filename' = r.optind /\ optind' = r.optind + 1
  /\ UNCHANGED <<args, opts, overrun>>

Next ==
  \/ \E r \in {GetoptLong(optind, current)} : ParseOption(r)
  \/ \E r \in {GetoptLong(optind, current)} : ParseReject(r)
  \/ \E r \in {GetoptLong(optind, current)} : ParseHelp(r)
  \/ \E r \in {GetoptLong(optind, current)} : ParseError(r)
  \/ \E r \in {GetoptLong(optind, current)} : ParseOverrun(r)
  \/ \E r \in {GetoptLong(optind, current)} : ParseEnd(r)

(* process_args runs on the main thread alone and every getopt_long call *)
(* returns, so the loop keeps taking steps while it has not exited.       *)
Fairness == WF_vars(Next)

Spec == Init /\ [][Next]_vars /\ Fairness

-----------------------------------------------------------------------------
TypeOK ==
  /\ optind \in 1 .. argc + 1
  /\ phase \in {"parse", "done", "exit_ok", "exit_fail", "crash"}
  /\ conf.jobs \in 0 .. UIntMax - 1
  /\ conf.block \in -(UIntMax \div 2) .. UIntMax \div 2 - 1
  /\ {conf.devblk, conf.backlog} \subseteq 0 .. SizeMax - 1
  /\ conf.flags \subseteq FlagOpts /\ overrun \in BOOLEAN
  /\ filename \in 0 .. Len(args)

(* The reference: POSIX utility syntax read as a grammar over the tokens, *)
(* with GNU "--name[=arg]" long options and no permutation.  The result   *)
(* is the options in order, whether the vector is valid, and the index of *)
(* the first operand.                                                     *)
Opt(o, a, r) == [r EXCEPT !.opts = <<<<o, a>>>> \o @]
Bad == [ok |-> FALSE, opts |-> <<>>, rest |-> 0]

RECURSIVE RefFrom(_, _), RefLong(_, _), RefShort(_, _, _)
RefFrom(a, k) ==
  IF k > Len(a) THEN [ok |-> TRUE, opts |-> <<>>, rest |-> k]
  ELSE LET t == a[k] IN
    CASE t = <<"-", "-">>           -> [ok |-> TRUE, opts |-> <<>>, rest |-> k + 1]
      [] Len(t) < 2 \/ t[1] # "-"  -> [ok |-> TRUE, opts |-> <<>>, rest |-> k]
      [] t[2] = "-"                 -> RefLong(a, k)
      [] OTHER                      -> RefShort(a, k, 2)

RefLong(a, k) ==
  LET body  == SubSeq(a[k], 3, Len(a[k]))
      split == {j \in 1 .. Len(body) : body[j] = "="}
      name  == IF split = {} THEN body ELSE SubSeq(body, 1, Min(split) - 1)
      match == {e \in ToSet(LongOpts) : e.name = name}
  IN IF match = {} THEN Bad
     ELSE LET e == CHOOSE x \in match : TRUE IN
       CASE split # {} /\ ~e.has_arg -> Bad
         [] split # {} -> Opt(e.val, SubSeq(body, Min(split) + 1, Len(body)),
                              RefFrom(a, k + 1))
         [] e.has_arg /\ k = Len(a) -> Bad
         [] e.has_arg -> Opt(e.val, a[k + 1], RefFrom(a, k + 2))
         [] OTHER -> Opt(e.val, NULL, RefFrom(a, k + 1))

RefShort(a, k, j) ==
  LET t == a[k]
      o == t[j]
      takesArg == <<o, ":">> \in {SubSeq(OptStr, i, i + 1) : i \in 1 .. Len(OptStr) - 1}
  IN CASE o = ":" \/ o \notin ToSet(OptStr) -> Bad
       [] takesArg /\ j < Len(t) -> Opt(o, SubSeq(t, j + 1, Len(t)), RefFrom(a, k + 1))
       [] takesArg /\ k = Len(a) -> Bad
       [] takesArg -> Opt(o, a[k + 1], RefFrom(a, k + 2))
       [] j = Len(t) -> Opt(o, NULL, RefFrom(a, k + 1))
       [] OTHER -> Opt(o, NULL, RefShort(a, k, j + 1))

Ref == RefFrom(args, 1)

\* The option the loop stops at: -h, -V, or one it rejects (0 if none),
\* and the last -X argument the reference reads.
StopAt == SelectInSeq(Ref.opts,
            LAMBDA o : o[1] \in {"h", "V"} \/ Rejected(o[1], o[2]))
Stopped == IF StopAt = 0 THEN "none" ELSE Ref.opts[StopAt][1]
LastExtra == LET i == SelectLastInSeq(Ref.opts, LAMBDA o : o[1] = "X")
             IN IF i = 0 THEN NULL ELSE Ref.opts[i][2]

(* ParseAgrees: process_args, through getopt_long and getopt, acts on     *)
(* exactly the options the reference reads, in order and with the same    *)
(* arguments.  It stops at the first -h or -V with success and at the     *)
(* first rejected -B or -c with failure; past the options, -X help exits  *)
(* with success; otherwise it returns exactly when the vector is valid    *)
(* and has one operand, and takes that operand as the image name.         *)
ParseAgrees ==
  /\ phase = "exit_ok" =>
       \/ Stopped \in {"h", "V"} /\ opts = SubSeq(Ref.opts, 1, StopAt)
       \/ Stopped = "none" /\ Ref.ok /\ LastExtra = HelpWord /\ opts = Ref.opts
  /\ phase = "done" =>
       /\ Stopped = "none" /\ Ref.ok /\ LastExtra # HelpWord
       /\ Ref.rest = Len(args) /\ opts = Ref.opts /\ filename = Ref.rest
  /\ phase \in {"exit_fail", "crash"} =>
       \/ Stopped \in {"B", "c"} /\ opts = SubSeq(Ref.opts, 1, StopAt)
       \/ Stopped = "none" /\ ~(Ref.ok /\ (LastExtra = HelpWord \/ Ref.rest = Len(args)))

\* The argument of the last -o process_args acted on, NULL if none.
GivenLast(o) == LET i == SelectLastInSeq(opts, LAMBDA x : x[1] = o)
                IN IF i = 0 THEN NULL ELSE opts[i][2]

(* SizesAsGiven: after process_args returns, num_jobs is the integer     *)
(* given to -j if it is at least 1, else 1 (spec: at least 1);           *)
(* devblksize is the integer given to -B (spec: at least 1024); and      *)
(* max_backlog the integer given to -Q if it is at least 1, else 10      *)
(* times num_jobs.                                                        *)
SizesAsGiven ==
  phase = "done" =>
    /\ GivenLast("j") # NULL =>
         conf.jobs = IF Strtol(GivenLast("j")) >= 1 THEN Strtol(GivenLast("j")) ELSE 1
    /\ GivenLast("B") # NULL => conf.devblk = Strtol(GivenLast("B"))
    /\ conf.backlog = IF GivenLast("Q") # NULL /\ Strtol(GivenLast("Q")) >= 1
                      THEN Strtol(GivenLast("Q")) ELSE 10 * conf.jobs

(* Terminates: process_args eventually returns or exits.  getopt does not *)
(* advance optind past an unknown option at the end of a token (getopt.c  *)
(* line 62), so a loop that went on after '?' would read it forever.      *)
Terminates == <>(phase # "parse")

(* SearchInBounds: the long option search of getopt_long never reads an  *)
(* entry past the end of long_opts.                                       *)
SearchInBounds == ~overrun
=============================================================================
