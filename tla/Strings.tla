------------------------------ MODULE Strings ------------------------------
(***************************************************************************)
(* The string helpers, src/memmgr/str.c, and the command line that the     *)
(* Windows half of XplProcExec builds, src/xpl/procwin.c.                  *)
(*                                                                         *)
(* A string is a sequence of characters without its terminator, a pointer  *)
(* into it the rest from there.  A subject and a pattern grow a character at  *)
(* a time, and every helper is asked about each of them.                   *)
(***************************************************************************)
EXTENDS Integers, Sequences, FiniteSets
LOCAL INSTANCE SequencesExt

CONSTANTS
  Letters,      \* "x" and "X", one letter in two cases; none that an escape names
  MaxDepth,     \* of strpat_r, 15 in the code
  MaxText, MaxPattern  \* bounds on the two strings

Quotes == {"\"", "'"}
Signs  == {" ", "\\"} \cup Quotes
Wild   == {"*", "?"}
Texts  == Seq(Letters \cup Signs \cup Wild \cup {":"})

VARIABLES subject, pattern

stringVars == <<subject, pattern>>

StringsInit == subject = <<>> /\ pattern = <<>>

Grow ==
  \/ /\ Len(subject) < MaxText /\ pattern = <<>>
     /\ \E c \in Letters \cup Signs : subject' = Append(subject, c)
     /\ UNCHANGED pattern
  \/ /\ Len(pattern) < MaxPattern /\ ToSet(subject) \subseteq Letters \cup {" "}
     /\ \E c \in Letters \cup {" "} \cup Wild : pattern' = Append(pattern, c)
     /\ UNCHANGED subject
-----------------------------------------------------------------------------
(* Spaces and letters *)

Space(c) == c = " "
Upper(c) == IF c = "x" THEN "X" ELSE c
Same(c, d, fold) == IF fold THEN Upper(c) = Upper(d) ELSE c = d

From(s, n) == SubSeq(s, n + 1, Len(s))

SkipSpace(s) == From(s, Max({n \in 0..Len(s) : \A i \in 1..n : Space(s[i])}))
ChopEnd(s)   == SubSeq(s, 1, Min({n \in 0..Len(s) : \A i \in n + 1..Len(s) : Space(s[i])}))

ChopSpace(s) == SkipSpace(ChopEnd(s))

\* The positions of a character of a set, for strchrs and strrchrs.
Found(s, chars) == {i \in DOMAIN s : s[i] \in chars}

\* namevalue splits at the first separator; both halves must hold something.
NameValue(s, separators) ==
  LET at    == Found(s, separators)
      i     == Min(at)
      name  == ChopSpace(SubSeq(s, 1, i - 1))
      value == ChopSpace(SubSeq(s, i + 1, Len(s)))
  IN  IF at = {} \/ name = <<>> \/ value = <<>> THEN <<>> ELSE <<name, value>>
-----------------------------------------------------------------------------
(* strpat_r and stripat_r *)

\* How much of a pattern comes before its next wild card.
Literal(p) == IF Found(p, Wild) = {} THEN Len(p) ELSE Min(Found(p, Wild)) - 1

\* strstrn and stristrn: the places where n characters of p are found.
Occurrences(s, p, n, fold) ==
  {k \in 0..(Len(s) - n) : \A i \in 1..n : Same(s[k + i], p[i], fold)}

\* Mutant: only the first place where the text is found is tried.
CandidatesFirst(s, p, n, fold) ==
  LET found == {k \in 0..(Len(s) - n) : \A i \in 1..n : Same(s[k + i], p[i], fold)}
  IN  IF found = {} THEN {} ELSE {Min(found)}

\* Every place is tried in turn until the rest matches behind it.
Candidates(s, p, n, fold) == Occurrences(s, p, n, fold)

PatternMatches[s \in Texts, p \in Texts, depth \in Nat, fold \in BOOLEAN] ==
  /\ depth <= MaxDepth
  /\ IF p = <<>> THEN s = <<>>
     ELSE IF Head(p) = "?" THEN s # <<>> /\ PatternMatches[Tail(s), Tail(p), depth, fold]
     ELSE IF Head(p) = "*"
     THEN LET q == Tail(p)
              n == Literal(q)
          IN  IF n > 0
              THEN \E k \in Candidates(s, q, n, fold) :
                     PatternMatches[From(s, k + n), From(q, n), depth + 1, fold]
              ELSE q = <<>> \/ PatternMatches[s, q, depth, fold]
     ELSE IF Space(Head(p))
     THEN /\ s # <<>> /\ Space(Head(s))
          /\ PatternMatches[SkipSpace(s), SkipSpace(p), depth, fold]
     ELSE s # <<>> /\ Same(Head(s), Head(p), fold) /\ PatternMatches[Tail(s), Tail(p), depth, fold]

Strpat(s, p)  == PatternMatches[s, p, 1, FALSE]
Stripat(s, p) == PatternMatches[s, p, 1, TRUE]

\* What a pattern means: a star is any text, spaces are one space or more.
Means[s \in Texts, p \in Texts, fold \in BOOLEAN] ==
  IF p = <<>> THEN s = <<>>
  ELSE IF Head(p) = "*" THEN \E k \in 0..Len(s) : Means[From(s, k), Tail(p), fold]
  ELSE IF Space(Head(p))
  THEN \E k \in 1..Len(s) : /\ \A i \in 1..k : Space(s[i])
                            /\ Means[From(s, k), SkipSpace(p), fold]
  ELSE /\ s # <<>> /\ (Head(p) = "?" \/ Same(Head(s), Head(p), fold))
       /\ Means[Tail(s), Tail(p), fold]

\* The code takes a star before a question mark for no text, all the spaces
\* there are for those of the pattern, and compares those behind a star one by
\* one.
Plain(p) ==
  /\ Cardinality({i \in DOMAIN p : p[i] = "*"}) < MaxDepth
  /\ \A i \in DOMAIN p : p[i] \in {"*", " "} =>
       \A j \in i..Len(p) : p[j] # "?" /\ (p[i] = "*" => ~Space(p[j]))
-----------------------------------------------------------------------------
(* nextfieldex *)

\* The field and what comes behind it; the space that ends it is gone.  A field
\* without text is a null pointer, as if there were none.  No text ends in a
\* single escape: the code goes on behind its terminator.
OrNull(text) == IF text = <<>> THEN <<>> ELSE <<text>>

FieldFrom[s \in Texts, quote \in Quotes \cup {""}, strip \in BOOLEAN, escape \in Signs, field \in Texts] ==
  IF s = <<>> THEN [field |-> OrNull(field), end |-> <<>>]
  ELSE IF Head(s) = escape
  THEN FieldFrom[From(s, 2), quote, strip, escape, field \o SubSeq(s, 2, 2)]
  ELSE IF Head(s) \in Quotes /\ quote \in {"", Head(s)}
  THEN FieldFrom[Tail(s), IF quote = "" THEN Head(s) ELSE "", strip, escape,
                 IF strip THEN field ELSE Append(field, Head(s))]
  ELSE IF Space(Head(s)) /\ quote = "" THEN [field |-> OrNull(field), end |-> Tail(s)]
  ELSE FieldFrom[Tail(s), quote, strip, escape, Append(field, Head(s))]

\* Quotes are stripped when they come first, whatever was asked for.
NextFieldEx(s, strip, escape) ==
  FieldFrom[SkipSpace(s), "", strip \/ (s # <<>> /\ Head(s) \in Quotes), escape, <<>>]

NextField(s)    == NextFieldEx(s, FALSE, "\\")
NextArgument(s) == NextFieldEx(s, TRUE, "\\")
-----------------------------------------------------------------------------
(* buildCommandLine *)

\* Room for a string in which everything is escaped, quotes and a space.
Room(s) == Len(s) * 2 + 2 + 1

Quoted(s) == FoldSeq(LAMBDA c, q : (IF c = "\"" THEN <<"\\", c>> ELSE <<c>>) \o q, <<"\"">>, s)

\* What needs no quotes, or brings its own, goes as it is.
SafeArgument(what) ==
  LET s == ChopSpace(what) IN
  IF s = <<>> \/ Found(s, {" ", "\\"}) = {} \/ (Head(s) = "\"" /\ Last(s) = "\"") THEN s
  ELSE <<"\"">> \o Quoted(s)

CommandLine(executable, args) ==
  FoldLeft(LAMBDA line, a : line \o <<" ">> \o SafeArgument(a), SafeArgument(executable), args)
-----------------------------------------------------------------------------
(* Properties *)

\* A text that matches has the form the pattern describes, in either case of
\* its letters, and a plain pattern matches every such text: the search for a
\* star tries every place (str.c:336-479).
PatternSound ==
  /\ Strpat(subject, pattern) => Means[subject, pattern, FALSE]
  /\ Stripat(subject, pattern) => Means[subject, pattern, TRUE]
  /\ Plain(pattern) => /\ Means[subject, pattern, FALSE] => Strpat(subject, pattern)
                       /\ Means[subject, pattern, TRUE] => Stripat(subject, pattern)

Escaped(s) ==
  <<"\"">> \o FoldSeq(LAMBDA c, q : (IF c \in {"\"", "\\"} THEN <<"\\", c>> ELSE <<c>>) \o q, <<"\"">>, s)

\* Any text that is quoted and escaped is read back as one argument, and the
\* next one behind it: an empty one as NULL, which says that there is no
\* argument though the next one is still found behind it.  Any two texts that
\* are not blank are a name and its value (str.c:163-191, 215-334).
ReadsBack ==
  LET first == NextArgument(<<" ">> \o Escaped(subject) \o <<" ">> \o Escaped(subject))
      bare  == ChopSpace(subject)
      back  == IF subject = <<>> THEN <<>> ELSE <<subject>>
  IN  /\ first.field = back /\ NextArgument(first.end) = [field |-> back, end |-> <<>>]
      /\ NameValue(subject \o <<":">> \o subject, {":", "="}) = IF bare = <<>> THEN <<>> ELSE <<bare, bare>>

\* The line fits the buffer that is taken for it, whatever has to be quoted and
\* escaped (procwin.c:245-288).
CommandLineFits == Len(CommandLine(subject, <<subject, subject>>)) + 1 <= 3 * Room(subject)

\* All of these.
StringsSound == PatternSound /\ ReadsBack /\ CommandLineFits
=============================================================================
