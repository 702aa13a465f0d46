------------------------------ MODULE PathSep -------------------------------
(***************************************************************************)
(* The path separator helpers of src/lib/compat/path_sep.c:              *)
(* skip_path_seps returns the first character of a string that is not a  *)
(* separator, next_path_sep the first that is; both stop at the NUL.     *)
(* A string is a sequence of characters; a pointer into it is a 1-based  *)
(* index, Len(s) + 1 standing for the terminating NUL.                   *)
(*                                                                         *)
(* Only the non-Windows build is modelled: there __is_windows_path_sep   *)
(* is the constant false.  The Windows definition ({arg == '\\'}) is    *)
(* not a valid statement expression (its ';' is missing).                *)
(***************************************************************************)
EXTENDS Naturals, Sequences, SequencesExt

CONSTANTS
  Chars,   \* the characters strings are made of, "/" among them
  MaxLen   \* longest string enumerated

ASSUME "/" \in Chars /\ MaxLen \in Nat

\* __is_windows_path_sep outside _WIN32.
IsWindowsPathSep(c) == FALSE

\* __is_path_sep(c): (c == '/' && __is_windows_path_sep(c))
IsPathSep(c) == c = "/" /\ IsWindowsPathSep(c)

\* The loop of skip_path_seps from cur: continue past a separator, return
\* at anything else or at the NUL.
RECURSIVE SkipFrom(_, _)
SkipFrom(s, cur) ==
  IF cur > Len(s) THEN cur
  ELSE IF IsPathSep(s[cur]) THEN SkipFrom(s, cur + 1) ELSE cur

SkipPathSeps(s) == SkipFrom(s, 1)

\* The loop of next_path_sep from cur: return at a separator or the NUL.
RECURSIVE NextFrom(_, _)
NextFrom(s, cur) ==
  IF cur > Len(s) \/ IsPathSep(s[cur]) THEN cur ELSE NextFrom(s, cur + 1)

NextPathSep(s) == NextFrom(s, 1)

VARIABLE in   \* the string passed to both helpers

Strings == UNION {[1 .. n -> Chars] : n \in 0 .. MaxLen}

Init == in \in Strings

\* The helpers are pure: nothing changes after the call.
Next == UNCHANGED in

Spec == Init /\ [][Next]_in

-----------------------------------------------------------------------------
(* The reference: "/" separates path components.  The first index at or   *)
(* after which no separator comes first, and the first separator.         *)
FirstNonSep(s) == LET k == SelectInSeq(s, LAMBDA c : c # "/")
                  IN IF k = 0 THEN Len(s) + 1 ELSE k
FirstSep(s) == LET k == SelectInSeq(s, LAMBDA c : c = "/")
               IN IF k = 0 THEN Len(s) + 1 ELSE k

(* SeparatorsFound: skip_path_seps steps over the leading '/' characters *)
(* of its argument and next_path_sep stops at the first '/', as their    *)
(* names and the __is_path_sep macro they share say.                     *)
SeparatorsFound ==
  /\ SkipPathSeps(in) = FirstNonSep(in)
  /\ NextPathSep(in) = FirstSep(in)
=============================================================================
