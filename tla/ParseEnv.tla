------------------------------ MODULE ParseEnv ------------------------------
(***************************************************************************)
(* How libmprof reads MPROF_CONF: findArg and its helpers (ParseEnv.c) and *)
(* the choice of a module by name (libmprof.c), as pure operators.         *)
(*                                                                         *)
(* A string is a sequence of pieces, each so small that no key, no name    *)
(* and no quote begins inside one; the terminating NUL is behind its end.  *)
(* A pointer is the index of a piece, a value an index and a size.         *)
(***************************************************************************)
EXTENDS Integers, Sequences

NoValue == [at |-> 0, size |-> 0]

Quotes == {"'", "\""}
Space  == " "

Least(S) == CHOOSE i \in S : \A j \in S : i <= j

\* The piece at i, or the NUL.
PieceAt(s, i) == IF i \in DOMAIN s THEN s[i] ELSE "NUL"

\* A mutated findKey: the last place instead of the first.
FindKey_Last(s, key) ==
  LET found == {i \in DOMAIN s : s[i] = key}
  IN  IF found = {} THEN 0 ELSE CHOOSE i \in found : \A j \in found : j <= i

\* findKey: the first place where the key is, whether an option begins there
\* or a value, quoted or not, contains it; 0 for NULL.
FindKey(s, key) ==
  LET found == {i \in DOMAIN s : s[i] = key}
  IN  IF found = {} THEN 0 ELSE Least(found)

\* getValue at i, right behind a key: from a quote to the next one like it,
\* or else to a space or the end, and then maybe empty.
GetValue(s, i) ==
  LET first  == i + 1
      quoted == PieceAt(s, first) \in Quotes
      begin  == IF quoted THEN first + 1 ELSE first
      ends   == IF quoted
                THEN {k \in DOMAIN s : k >= begin /\ s[k] = s[first]}
                ELSE {k \in DOMAIN s : k >= begin /\ s[k] = Space} \union {Len(s) + 1}
  IN  IF PieceAt(s, i) # "=" \/ ends = {} THEN NoValue
      ELSE [at |-> begin, size |-> Least(ends) - begin]

\* findArg
FindArg(s, key) ==
  LET i == FindKey(s, key) IN IF i = 0 THEN NoValue ELSE GetValue(s, i + 1)

\* The pieces of a value: what strncpy and strncmp see of it.
Text(s, v) == SubSeq(s, v.at, v.at + v.size - 1)

HasArg(s, key) == FindArg(s, key) # NoValue
Arg(s, key)    == Text(s, FindArg(s, key))

-----------------------------------------------------------------------------
\* mprofModeTargets, by name and in the order of the search.
ModeNames == << <<"Log", "FD">>, <<"Count">>, <<"Log", "Mmap">> >>

\* lookupVtable: the first name that begins with the value; 0 for NULL.
LookupVtable(value, names) ==
  LET found == {i \in DOMAIN names :
                  /\ Len(value) <= Len(names[i])
                  /\ SubSeq(names[i], 1, Len(value)) = value}
  IN  IF found = {} THEN 0 ELSE Least(found)

\* defaultConfig, for a process without MPROF_CONF.
DefaultConfig == <<"INIT", "=", "LD_NEXT", Space, "MODE", "=", "Count">>

InitNames == << <<"LD_NEXT">> >>

\* installVtableOrDie( MODE ), then ( INIT ): both end in exit( -1 ) when key
\* or name is missing, MODE's construct having run by then.
ModeOf(conf) ==
  LET i == LookupVtable(Arg(conf, "MODE"), ModeNames)
  IN  IF ~ HasArg(conf, "MODE") \/ i = 0 THEN "dies" ELSE ModeNames[i]

InitFound(conf) ==
  HasArg(conf, "INIT") /\ LookupVtable(Arg(conf, "INIT"), InitNames) # 0
=============================================================================
