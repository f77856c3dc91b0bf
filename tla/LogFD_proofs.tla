---------------------------- MODULE LogFD_proofs ----------------------------
(***************************************************************************)
(* LogFD hands over one line per call, for any number of threads, calls    *)
(* and nested calls, and implements CallLog.                               *)
(***************************************************************************)
EXTENDS LogFD, TLAPS

\* What the flag promises: it is set exactly outside the handlers, so that
\* one handler per thread prints, and its buffer holds its own call.
FlagInv ==
  \A t \in Threads :
    /\ externalCall[t] <=> pc[t] = "app"
    /\ depth[t] = IF pc[t] = "app" THEN 0 ELSE 1
    /\ pc[t] # "app" => calls[t] > 0
    /\ pc[t] = "write" => textBuf[t] = <<t, calls[t]>>

IInv == TypeOK /\ FlagInv /\ OneLinePerCall

\* A line a thread appends to lines of calls before it comes last, and stays
\* within what the threads may have told.
LEMMA AppendLine ==
  ASSUME NEW s \in Seq(Lines), NEW told \in [Threads -> Nat],
         NEW t \in Threads, NEW n \in 1 .. told[t], Ascending(s),
         \A i \in DOMAIN s : s[i][2] \in 1 .. told[s[i][1]],
         \A i \in DOMAIN s : s[i][1] = t => s[i][2] < n
  PROVE  /\ Ascending(Append(s, <<t, n>>))
         /\ \A i \in DOMAIN Append(s, <<t, n>>) :
              Append(s, <<t, n>>)[i][2] \in 1 .. told[Append(s, <<t, n>>)[i][1]]
<1> DEFINE r == Append(s, <<t, n>>)
<1>1. /\ DOMAIN s = 1 .. Len(s) /\ Len(s) \in Nat
      /\ \A i \in DOMAIN s : s[i][1] \in Threads /\ s[i][2] \in Nat
  BY DEF Lines
<1>2. DOMAIN r = 1 .. Len(s) + 1
  OBVIOUS
<1>3. \A i \in DOMAIN s : r[i] = s[i]
  OBVIOUS
<1>4. r[Len(s) + 1][1] = t /\ r[Len(s) + 1][2] = n
  OBVIOUS
<1> HIDE DEF r
<1>5. \A i \in DOMAIN r : i \in DOMAIN s \/ i = Len(s) + 1
  BY <1>1, <1>2
<1>6. ASSUME NEW i \in DOMAIN r PROVE r[i][2] \in 1 .. told[r[i][1]]
  BY <1>3, <1>4, <1>5
<1>7. ASSUME NEW i \in DOMAIN r, NEW j \in DOMAIN r, i < j, r[i][1] = r[j][1]
      PROVE  r[i][2] < r[j][2]
  <2>1. i \in DOMAIN s
    BY <1>1, <1>5, <1>7
  <2>2. CASE j \in DOMAIN s
    BY <2>1, <2>2, <1>3, <1>7 DEF Ascending
  <2>3. CASE j = Len(s) + 1
    BY <2>1, <2>3, <1>3, <1>4, <1>7
  <2> QED
    BY <2>2, <2>3, <1>5
<1> QED
  BY <1>6, <1>7 DEF Ascending, r

-----------------------------------------------------------------------------
LEMMA InitIInv == Init => IInv
<1> SUFFICES ASSUME Init PROVE IInv
  OBVIOUS
<1>1. TypeOK
  BY LogFDAssumption DEF Init, TypeOK, Labels, Lines
<1>2. FlagInv
  BY DEF Init, FlagInv
<1>3. OneLinePerCall
  <2>1. \A t \in Threads : Told(t) = 0
    BY DEF Init, Told
  <2>2. DOMAIN handed = {} /\ \A f \in FDs : DOMAIN text[f] = {}
    BY DEF Init
  <2> QED
    BY <2>1, <2>2 DEF OneLinePerCall, OwnLines, Ascending
<1> QED
  BY <1>1, <1>2, <1>3 DEF IInv

LEMMA TypeStep == TypeOK /\ [Next]_vars => TypeOK'
<1> SUFFICES ASSUME TypeOK, [Next]_vars PROVE TypeOK'
  OBVIOUS
<1> USE DEF TypeOK
<1>1. CASE Exit
  BY <1>1 DEF Exit
<1>2. CASE UNCHANGED vars
  BY <1>2 DEF vars
<1>3. ASSUME NEW f \in FDs, SetFD(f) PROVE TypeOK'
  BY <1>3 DEF SetFD
<1>4. ASSUME NEW t \in Threads, Call(t) PROVE TypeOK'
  <2>1. calls' \in [Threads -> Nat]
    BY <1>4 DEF Call
  <2>2. CASE Prints(t)
    <3>1. externalCall' \in [Threads -> BOOLEAN]
      BY <1>4, <2>2 DEF Call
    <3>2. depth' \in [Threads -> Nat]
      <4>1. depth' = [depth EXCEPT ![t] = depth[t] + 1]
        BY <1>4, <2>2, Zenon DEF Call
      <4> QED
        BY <4>1
    <3>3. pc' \in [Threads -> Labels]
      BY <1>4, <2>2 DEF Call, Goto, Labels
    <3> QED
      BY <1>4, <2>1, <3>1, <3>2, <3>3 DEF Call
  <2>3. CASE ~ Prints(t)
    BY <1>4, <2>1, <2>3 DEF Call
  <2> QED
    BY <2>2, <2>3
<1>5. ASSUME NEW t \in Threads, NestedCall(t) PROVE TypeOK'
  <2>1. nested' \in [Threads -> Nat]
    BY <1>5 DEF NestedCall
  <2>2. depth' \in [Threads -> Nat]
    BY <1>5 DEF NestedCall
  <2> QED
    BY <1>5, <2>1, <2>2 DEF NestedCall
<1>6. ASSUME NEW t \in Threads, Format(t) PROVE TypeOK'
  BY <1>6 DEF Format, Formatted, Goto, Labels, Lines
<1>7. ASSUME NEW t \in Threads, Write(t) PROVE TypeOK'
  <2>1. textBuf[t] \in Lines /\ logFD \in FDs
    OBVIOUS
  <2>2. handed' \in Seq(Lines)
    BY <1>7, <2>1 DEF Write
  <2>3. Append(text[logFD], textBuf[t]) \in Seq(Lines)
    BY <2>1
  <2>4. text' \in [FDs -> Seq(Lines)]
    BY <1>7, <2>3 DEF Write
  <2> QED
    BY <1>7, <2>2, <2>4 DEF Write, Goto, Labels
<1>8. ASSUME NEW t \in Threads, Return(t) PROVE TypeOK'
  BY <1>8 DEF Return, Ready, Goto, Labels
<1> QED
  BY <1>1, <1>2, <1>3, <1>4, <1>5, <1>6, <1>7, <1>8
  DEF Next, Step, Terminated

LEMMA FlagStep == TypeOK /\ FlagInv /\ [Next]_vars => FlagInv'
<1> SUFFICES ASSUME TypeOK, FlagInv, [Next]_vars PROVE FlagInv'
  OBVIOUS
<1> USE DEF TypeOK, FlagInv
<1>1. CASE Exit
  BY <1>1 DEF Exit
<1>2. CASE UNCHANGED vars
  BY <1>2 DEF vars
<1>3. ASSUME NEW f \in FDs, SetFD(f) PROVE FlagInv'
  BY <1>3 DEF SetFD
<1>4. ASSUME NEW t \in Threads, Call(t) PROVE FlagInv'
  BY <1>4 DEF Call, At, Prints, Goto, Labels
<1>5. ASSUME NEW t \in Threads, NestedCall(t) PROVE FlagInv'
  BY <1>5 DEF NestedCall, At, Prints
<1>6. ASSUME NEW t \in Threads, Format(t) PROVE FlagInv'
  BY <1>6 DEF Format, Formatted, At, Goto, Labels
<1>7. ASSUME NEW t \in Threads, Write(t) PROVE FlagInv'
  BY <1>7 DEF Write, At, Goto, Labels
<1>8. ASSUME NEW t \in Threads, Return(t) PROVE FlagInv'
  BY <1>8 DEF Return, Ready, At, Goto, Labels
<1> QED
  BY <1>1, <1>2, <1>3, <1>4, <1>5, <1>6, <1>7, <1>8
  DEF Next, Step, Terminated

\* Steps that write nothing and change no count of told calls keep the lines.
LEMMA SameLines ==
  ASSUME OneLinePerCall, UNCHANGED <<handed, text>>,
         \A t \in Threads : Told(t)' = Told(t),
         TypeOK
  PROVE  OneLinePerCall'
<1>1. ASSUME NEW s \in Seq(Lines), OwnLines(s) PROVE OwnLines(s)'
  BY <1>1 DEF OwnLines, Lines
<1>2. OwnLines(handed)' /\ \A f \in FDs : OwnLines(text[f])'
  BY <1>1 DEF OneLinePerCall, TypeOK
<1> QED
  BY <1>2 DEF OneLinePerCall, Ascending

LEMMA LinesStep == IInv /\ [Next]_vars => OneLinePerCall'
<1> SUFFICES ASSUME IInv, [Next]_vars PROVE OneLinePerCall'
  OBVIOUS
<1> USE DEF IInv
<1>1. CASE Exit
  BY <1>1, SameLines DEF Exit, Told
<1>2. CASE UNCHANGED vars
  BY <1>2, SameLines DEF vars, Told
<1>3. ASSUME NEW f \in FDs, SetFD(f) PROVE OneLinePerCall'
  BY <1>3, SameLines DEF SetFD, Told
<1>4. ASSUME NEW t \in Threads, Call(t) PROVE OneLinePerCall'
  <2>1. \A u \in Threads : Told(u)' = Told(u)
    BY <1>4 DEF Call, At, Prints, Goto, Told, TypeOK, FlagInv
  <2> QED
    BY <1>4, <2>1, SameLines DEF Call
<1>5. ASSUME NEW t \in Threads, NestedCall(t) PROVE OneLinePerCall'
  BY <1>5, SameLines DEF NestedCall, Told
<1>6. ASSUME NEW t \in Threads, Format(t) PROVE OneLinePerCall'
  <2>1. \A u \in Threads : Told(u)' = Told(u)
    BY <1>6 DEF Format, At, Goto, Told, TypeOK
  <2> QED
    BY <1>6, <2>1, SameLines DEF Format
<1>7. ASSUME NEW t \in Threads, Write(t) PROVE OneLinePerCall'
  <2> DEFINE line == <<t, calls[t]>>
  <2>1. /\ pc[t] = "write" /\ textBuf[t] = line /\ calls[t] \in Nat /\ calls[t] > 0
        /\ Told(t) = calls[t] - 1
    BY <1>7 DEF Write, At, FlagInv, TypeOK, Told
  <2>2. /\ Told(t)' = calls[t]
        /\ \A u \in Threads : u # t => Told(u)' = Told(u)
    BY <1>7, <2>1 DEF Write, Goto, Told, TypeOK
  <2>3. handed' = Append(handed, line)
    BY <1>7, <2>1 DEF Write
  <2>4. \A f \in FDs : text'[f] \in {text[f], Append(text[f], line)}
    BY <1>7, <2>1 DEF Write, TypeOK
  <2>5. line \in Lines /\ handed \in Seq(Lines) /\ \A f \in FDs : text[f] \in Seq(Lines)
    BY <2>1 DEF Lines, TypeOK
  <2> HIDE DEF line
  <2>a. PICK told : told = [u \in Threads |-> Told(u)']
    OBVIOUS
  <2>b. /\ told \in [Threads -> Nat] /\ calls[t] \in 1 .. told[t]
        /\ \A u \in Threads : Told(u) \in Nat /\ Told(u) <= told[u]
    <3>1. \A u \in Threads : pc[u] # "app" => calls[u] > 0
      BY Zenon DEF FlagInv
    <3>2. ASSUME NEW u \in Threads PROVE Told(u) \in Nat
      <4>1. calls[u] \in Nat
        BY DEF TypeOK
      <4>2. CASE pc[u] = "app"
        BY <4>1, <4>2 DEF Told
      <4>3. CASE pc[u] # "app"
        BY <4>1, <4>3, <3>1 DEF Told
      <4> QED
        BY <4>2, <4>3
    <3> QED
      BY <2>a, <2>1, <2>2, <3>2
  <2>6. ASSUME NEW s \in Seq(Lines), OwnLines(s), Ascending(s)
        PROVE  /\ \A i \in DOMAIN s : s[i][2] \in 1 .. told[s[i][1]]
               /\ Ascending(Append(s, line))
               /\ \A i \in DOMAIN Append(s, line) :
                    Append(s, line)[i][2] \in 1 .. told[Append(s, line)[i][1]]
    <3>1. \A i \in DOMAIN s : s[i][1] \in Threads /\ s[i][2] \in Nat
      BY DEF Lines
    <3>2. \A i \in DOMAIN s : s[i][2] \in 1 .. told[s[i][1]]
      BY <2>6, <3>1, <2>b DEF OwnLines
    <3>3. \A i \in DOMAIN s : s[i][1] = t => s[i][2] < calls[t]
      BY <2>6, <2>1, <3>1 DEF OwnLines
    <3> QED
      BY <3>2, <3>3, <2>6, <2>b, AppendLine DEF line
  <2>7. ASSUME NEW u \in Threads, NEW n \in 1 .. Told(u)'
        PROVE  \E i \in DOMAIN handed' : handed'[i] = <<u, n>>
    <3>1. CASE u = t /\ n = calls[t]
      <4>1. /\ Len(handed) + 1 \in DOMAIN handed'
            /\ handed'[Len(handed) + 1] = line
        BY <2>3, <2>5
      <4> QED
        BY <4>1, <3>1 DEF line
    <3>2. CASE ~ (u = t /\ n = calls[t])
      <4>1. n \in 1 .. Told(u)
        BY <3>2, <2>1, <2>2
      <4>2. PICK i \in DOMAIN handed : handed[i] = <<u, n>>
        BY <4>1 DEF OneLinePerCall
      <4>3. i \in DOMAIN handed' /\ handed'[i] = handed[i]
        BY <2>3, <2>5
      <4> QED
        BY <4>2, <4>3
    <3> QED
      BY <3>1, <3>2
  <2>8. OwnLines(handed)' /\ Ascending(handed)'
    <3>1. \A i \in DOMAIN handed' : handed'[i][2] \in 1 .. told[handed'[i][1]]
      BY <2>3, <2>5, <2>6 DEF OneLinePerCall
    <3>2. \A i \in DOMAIN handed' : handed'[i][1] \in Threads
      BY <2>3, <2>5 DEF Lines
    <3>3. OwnLines(handed)'
      BY <3>1, <3>2, <2>a DEF OwnLines
    <3>4. Ascending(handed)'
      BY <2>3, <2>5, <2>6 DEF OneLinePerCall, Ascending
    <3> QED
      BY <3>3, <3>4
  <2>9. ASSUME NEW f \in FDs PROVE OwnLines(text[f])' /\ Ascending(text[f])'
    <3>1. OwnLines(text[f]) /\ Ascending(text[f])
      BY DEF OneLinePerCall
    <3>2. \A i \in DOMAIN text'[f] : text'[f][i][2] \in 1 .. told[text'[f][i][1]]
      <4>1. CASE text'[f] = text[f]
        BY <4>1, <2>5, <2>6, <3>1
      <4>2. CASE text'[f] = Append(text[f], line)
        BY <4>2, <2>5, <2>6, <3>1
      <4> QED
        BY <2>4, <4>1, <4>2
    <3>3. ASSUME NEW i \in DOMAIN text'[f] PROVE text'[f][i][1] \in Threads
      <4>a. text[f] \in Seq(Lines) /\ Append(text[f], line) \in Seq(Lines)
        BY <2>5
      <4>1. text'[f] \in Seq(Lines)
        BY <2>4, <4>a
      <4> QED
        BY <4>1 DEF Lines
    <3>4. OwnLines(text[f])'
      BY <3>2, <3>3, <2>a DEF OwnLines
    <3>5. Ascending(text[f])'
      BY <2>4, <2>5, <2>6, <3>1 DEF Ascending
    <3> QED
      BY <3>4, <3>5
  <2> QED
    BY <2>7, <2>8, <2>9 DEF OneLinePerCall
<1>8. ASSUME NEW t \in Threads, Return(t) PROVE OneLinePerCall'
  <2>1. \A u \in Threads : Told(u)' = Told(u)
    BY <1>8 DEF Return, At, Goto, Told, TypeOK
  <2> QED
    BY <1>8, <2>1, SameLines DEF Return
<1> QED
  BY <1>1, <1>2, <1>3, <1>4, <1>5, <1>6, <1>7, <1>8
  DEF Next, Step, Terminated

\* The invariant the theorems follow from.
THEOREM Invariance == Spec => []IInv
<1>1. IInv /\ [Next]_vars => IInv'
  BY TypeStep, FlagStep, LinesStep DEF IInv
<1> QED
  BY InitIInv, <1>1, PTL DEF Spec

\* The variables keep their types (mprofLogFD.c, all functions).
THEOREM TypeCorrect == Spec => []TypeOK
<1>1. IInv => TypeOK
  BY DEF IInv
<1> QED
  BY Invariance, <1>1, PTL

\* However deep snprintf and malloc call each other, one handler prints.
THEOREM NoRecursionCorrect == Spec => []NoRecursion
<1>1. IInv => NoRecursion
  <2> SUFFICES ASSUME IInv, NEW t \in Threads PROVE depth[t] <= 1
    BY DEF NoRecursion
  <2>1. depth[t] = IF pc[t] = "app" THEN 0 ELSE 1
    BY Zenon DEF IInv, FlagInv
  <2> QED
    BY <2>1
<1> QED
  BY Invariance, <1>1, PTL

\* Each call that returned has handed over one line, in its thread's order.
THEOREM OneLinePerCallCorrect == Spec => []OneLinePerCall
<1>1. IInv => OneLinePerCall
  BY DEF IInv
<1> QED
  BY Invariance, <1>1, PTL

-----------------------------------------------------------------------------
\* LogFD implements the same promise as LogMmap: an entry per call before the
\* call returns, whatever is nested and whenever the process ends.
THEOREM Refinement == Spec => ImplementsCallLog
<1> DEFINE entries == {handed[i] : i \in DOMAIN handed}
<1>1. Init => Abstract!Init
  BY DEF Init, Abstract!Init, Busy
<1>2. IInv /\ [Next]_vars => [Abstract!Next]_(Abstract!vars)
  <2> SUFFICES ASSUME IInv, [Next]_vars
               PROVE  [Abstract!Next]_(Abstract!vars)
    OBVIOUS
  <2> USE DEF IInv
  <2>a. TypeOK
    OBVIOUS
  <2>1. CASE Exit
    <3>1. Abstract!Die
      BY <2>1 DEF Exit, Abstract!Die, Busy
    <3> QED
      BY <3>1 DEF Abstract!Next
  <2>2. CASE UNCHANGED vars
    BY <2>2 DEF vars, Abstract!vars, Busy
  <2>3. ASSUME NEW f \in FDs, SetFD(f) PROVE UNCHANGED Abstract!vars
    BY <2>3 DEF SetFD, Abstract!vars, Busy
  <2>4. ASSUME NEW t \in Threads, Call(t) PROVE Abstract!Begin(t)
    <3>1. pc[t] = "app" /\ Prints(t)
      BY <2>4 DEF Call, At, Prints, FlagInv
    <3>2. Busy' = Busy \union {t}
      BY <2>4, <3>1, <2>a DEF Call, Goto, Busy, TypeOK
    <3> QED
      BY <2>4, <3>1, <3>2 DEF Call, At, Abstract!Begin, Busy
  <2>5. ASSUME NEW t \in Threads, NestedCall(t) PROVE UNCHANGED Abstract!vars
    BY <2>5 DEF NestedCall, Abstract!vars, Busy
  <2>6. ASSUME NEW t \in Threads, Format(t) PROVE UNCHANGED Abstract!vars
    <3>1. Busy' = Busy
      BY <2>6, <2>a DEF Format, At, Goto, Busy, TypeOK
    <3> QED
      BY <2>6, <3>1 DEF Format, Abstract!vars
  <2>7. ASSUME NEW t \in Threads, Write(t) PROVE Abstract!Enter(t)
    <3>1. pc[t] = "write" /\ textBuf[t] = <<t, calls[t]>> /\ handed \in Seq(Lines)
      BY <2>7, <2>a DEF Write, At, FlagInv, TypeOK
    <3>2. handed' = Append(handed, <<t, calls[t]>>) /\ <<t, calls[t]>> \in Lines
      BY <2>7, <3>1, <2>a DEF Write, TypeOK, Lines
    <3>3. entries' = entries \union {<<t, calls[t]>>}
      <4> DEFINE line == <<t, calls[t]>>
      <4>1. DOMAIN Append(handed, line) = DOMAIN handed \union {Len(handed) + 1}
        BY <3>1, <3>2
      <4>2. \A i \in DOMAIN handed : Append(handed, line)[i] = handed[i]
        BY <3>1, <3>2
      <4>3. Append(handed, line)[Len(handed) + 1] = line
        BY <3>1, <3>2
      <4> QED
        BY <3>2, <4>1, <4>2, <4>3
    <3>4. Busy' = Busy
      BY <2>7, <2>a DEF Write, At, Goto, Busy, TypeOK
    <3> QED
      BY <2>7, <3>1, <3>3, <3>4 DEF Write, At, Abstract!Enter, Abstract!Current, Busy
  <2>8. ASSUME NEW t \in Threads, Return(t) PROVE Abstract!Return(t)
    <3>1. pc[t] = "return" /\ calls[t] \in Nat /\ calls[t] > 0
      BY <2>8, <2>a DEF Return, At, FlagInv, TypeOK
    <3>2. calls[t] \in 1 .. Told(t)
      BY <3>1 DEF Told
    <3>3. <<t, calls[t]>> \in entries
      BY <3>2 DEF OneLinePerCall
    <3>4. Busy' = Busy \ {t}
      BY <2>8, <2>a DEF Return, Goto, Busy, TypeOK
    <3> QED
      BY <2>8, <3>1, <3>3, <3>4 DEF Return, At, Abstract!Return, Abstract!Current, Busy
  <2> QED
    BY <2>1, <2>2, <2>3, <2>4, <2>5, <2>6, <2>7, <2>8
    DEF Next, Step, Terminated, Abstract!Next
<1> QED
  BY <1>1, <1>2, Invariance, PTL DEF Spec, ImplementsCallLog, Abstract!Spec
=============================================================================
