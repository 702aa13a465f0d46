----------------------------- MODULE MC_GetOpt ------------------------------
(* Instantiation of GetOpt for TLC.  short_opts is the real one; the long *)
(* table is cut down to one option with an argument (--J for -j) and one  *)
(* without (--S for -s); "z" and "Z" are option characters neither table  *)
(* knows.  int and unsigned int have 4 bits and size_t 5, so 10 * num_jobs *)
(* wraps for -j8, -j-1 becomes 15 jobs and -B-1 becomes 31.  The 1024     *)
(* minimum of -B scales to 8.                                             *)
(* Compressor "g" is built in, "l" is known but not built, "z" unknown.   *)
EXTENDS GetOpt

\* "c:b:B:d:X:j:Q:sxekfqhV"
MCOptStr == <<"c", ":", "b", ":", "B", ":", "d", ":", "X", ":", "j", ":",
              "Q", ":", "s", "x", "e", "k", "f", "q", "h", "V">>

MCCompIds == (<<"g">> :> "gzip") @@ (<<"l">> :> "lzo")

MCHelpWord == <<"h", "e", "l", "p">>

MCLongOpts == << [name |-> <<"J">>, has_arg |-> TRUE,  val |-> "j"],
                 [name |-> <<"S">>, has_arg |-> FALSE, val |-> "s"] >>

MCDigits == [c \in {"0", "1", "8"} |-> CASE c = "0" -> 0 [] c = "1" -> 1 [] OTHER -> 8]

\* Tokens: options alone and in groups, attached and detached arguments,
\* "--", "-", long options with and without "=", and operands.
KnownTokens ==
  { <<"-", "s">>, <<"-", "j">>, <<"-", "j", "1">>, <<"-", "s", "j">>,
    <<"-", "j", "s">>, <<"-", "s", "z">>, <<"-", "h">>, <<"-", "-">>, <<"-">>,
    <<"-", "-", "J">>, <<"-", "-", "J", "=", "0">>, <<"-", "-", "S">>,
    <<"-", "-", "S", "=", "1">>, <<"0">>, <<"1">>, <<"0", "1">>, <<"-", "1">>,
    <<"-", "B", "1">>, <<"-", "B", "8">>, <<"-", "c", "g">>, <<"-", "c", "l">>,
    <<"-", "c", "z">>, <<"-", "X", "h", "e", "l", "p">>, <<"-", "X", "1">>,
    <<"-", "V">>, <<"-", "x", "k">>, <<"-", "b", "1">>, <<"-", "d", "0">>,
    <<"-", "Q", "1">> }

UnknownLong == { <<"-", "-", "Z">> }

\* Values strtol reads as integers the unsigned variables cannot hold.
WrapSizes == { <<"-", "j", "8">>, <<"-", "j", "-", "1">>, <<"-", "B", "-", "1">> }

Vectors(T) == UNION { [1 .. n -> T] : n \in 0 .. 3 }

ArgsPass == Vectors(KnownTokens \cup UnknownLong)
ArgsWrap == Vectors(KnownTokens \cup WrapSizes)
=============================================================================
