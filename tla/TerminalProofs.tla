--------------------------- MODULE TerminalProofs ---------------------------
(***************************************************************************)
(* For every command table, alphabet and buffer size: no index of the      *)
(* terminal automaton leaves its array, and no handler is taken from       *)
(* outside the table.  TypeOK and HandlerRegistered are inductive only     *)
(* together: PrmNoMore and PrmEnd call the handler without looking at      *)
(* index_cmd, and it is TypeOK that keeps it valid in those states.        *)
(* And every handler sees what its line, read as a whole, asks for: what   *)
(* the automaton knows of the line at each state is ReadInv.               *)
(***************************************************************************)
EXTENDS Terminal, FiniteSetTheorems, TLAPS

IInv == TypeOK /\ HandlerRegistered

\* The status of a conversion is always one of the statuses.
LEMMA StatusType ==
    ASSUME NEW types, NEW i, NEW text
    PROVE  StatusOf(types, i, text) \in Statuses
BY DEF StatusOf, Statuses

\* A stored character keeps the word inside data_prm_cmd[].
LEMMA StoredFits ==
    ASSUME NEW ch \in Letters, data \in Seq(Letters), Len(data) < MaxData
    PROVE  Stored(ch) \in Seq(Letters) /\ Len(Stored(ch)) < MaxData
<1>1. CASE Len(data) < MaxData - 1
  BY <1>1, LimitsAssumption DEF Stored
<1>2. CASE ~(Len(data) < MaxData - 1)
  BY <1>2 DEF Stored
<1> QED BY <1>1, <1>2

\* A call made with a registered command, or not made, is fine.
LEMMA CallFits ==
    ASSUME NEW cmd, NEW status, NEW prm, command_processing(cmd, status, prm),
           status = "NORM" => cmd \in DOMAIN Commands
    PROVE  HandlerRegistered'
BY DEF command_processing, HandlerRegistered, NoCall

\* The fields both kinds of line ends write keep their types.
LEMMA CloseFits ==
    ASSUME NEW ch, NEW status \in Statuses, NEW prm, NEW text \in Seq(Letters),
           DOMAIN prm = 1 .. MaxParam, Len(text) < MaxData,
           CloseLine(ch, status, prm, text)
    PROVE  /\ fsm_dat_prc' \in {"FIND_CMD", "PRC_CMD"}
           /\ data' \in Seq(Letters) /\ Len(data') < MaxData
           /\ status_cmd_param' \in Statuses
           /\ DOMAIN ar_prm' = 1 .. MaxParam
           /\ line' = <<>>
<1>1. CASE ch = START
  <2>1. OpenLine(prm)
    BY <1>1 DEF CloseLine
  <2>2. data' = <<>> /\ Len(data') = 0
    BY <2>1 DEF OpenLine
  <2> QED BY <2>1, <2>2, LimitsAssumption DEF OpenLine, Statuses
<1>2. CASE ch # START
  BY <1>2 DEF CloseLine
<1> QED BY <1>1, <1>2

\* The characters of a line, with the one that ends it.
LEMMA UptoFits ==
    ASSUME NEW ch \in Chars, line \in Seq(Letters \cup {SPACE})
    PROVE  Append(line, ch) \in Seq(Chars)
<1>1. line \in Seq(Chars)
  BY DEF Chars
<1> QED BY <1>1

\* ... and the line that goes on.
LEMMA ExtendFits ==
    ASSUME NEW ch \in Letters \cup {SPACE}, line \in Seq(Letters \cup {SPACE}), Extend(ch)
    PROVE  line' \in Seq(Letters \cup {SPACE}) /\ upto' \in Seq(Chars)
<1>1. ch \in Chars
  BY DEF Chars
<1> QED BY <1>1, UptoFits DEF Extend

LEMMA InitInv == Init => IInv
<1> SUFFICES ASSUME Init PROVE IInv
  OBVIOUS
<1>1. Len(Commands) \in Nat
  BY TableAssumption
<1>2. TypeOK
  BY <1>1, LimitsAssumption, TableAssumption DEF Init, TypeOK, States, Statuses, NotFound
<1> QED BY <1>2 DEF Init, IInv, HandlerRegistered

-----------------------------------------------------------------------------
(* One lemma for the arms that only collect characters, one for those that *)
(* end a line.                                                             *)

\* FIND_CMD.
LEMMA FindCmdInv ==
    ASSUME IInv, NEW ch \in Chars, FindCmd(ch)
    PROVE  IInv'
<1> USE DEF IInv, FindCmd
<1>1. HandlerRegistered'
  BY DEF HandlerRegistered
<1>2. CASE ch = START
  <2>1. OpenLine(ar_prm)
    BY <1>2
  <2>2. data' = <<>> /\ Len(data') = 0 /\ data' \in Seq(Letters)
    BY <2>1 DEF OpenLine
  <2>3. line' \in Seq(Letters \cup {SPACE}) /\ upto' \in Seq(Chars)
    BY <2>1 DEF OpenLine
  <2>4. DOMAIN ar_prm' = 1 .. MaxParam
    BY <2>1 DEF OpenLine
  <2>5. TypeOK'
    BY <2>1, <2>2, <2>3, <2>4, LimitsAssumption DEF TypeOK, OpenLine, States, Statuses
  <2> QED BY <1>1, <2>5
<1>3. CASE ch # START
  <2>1. upto' \in Seq(Chars)
    OBVIOUS
  <2>2. TypeOK'
    BY <1>3, <2>1 DEF TypeOK
  <2> QED BY <1>1, <2>2
<1> QED BY <1>2, <1>3

\* A character of a mnemonic or of a parameter.
LEMMA LetterInv ==
    ASSUME IInv, NEW ch \in Chars, CmdLetter(ch) \/ PrmLetter(ch)
    PROVE  IInv'
<1>1. ch \in Letters /\ Extend(ch) /\ data' = Stored(ch) /\ call' = NoCall
  BY DEF CmdLetter, PrmLetter
<1>2. data' \in Seq(Letters) /\ Len(data') < MaxData
  BY <1>1, StoredFits DEF IInv, TypeOK
<1>3. line' \in Seq(Letters \cup {SPACE}) /\ upto' \in Seq(Chars)
  BY <1>1, ExtendFits DEF IInv, TypeOK
<1>4. TypeOK'
  BY <1>2, <1>3 DEF IInv, TypeOK, CmdLetter, PrmLetter
<1> QED BY <1>1, <1>4 DEF IInv, HandlerRegistered

\* The lookup leaves valid indices.
LEMMA LookUpFits ==
    ASSUME NEW found \in 0 .. Len(Commands), LookUp(found)
    PROVE  index_cmd' = found /\ num_cmd_param' \in 0 .. MaxParam
<1>1. CASE found = NotFound
  BY <1>1, LimitsAssumption DEF LookUp
<1>2. CASE found # NotFound
  <2>1. found \in DOMAIN Commands
    BY <1>2, TableAssumption DEF NotFound
  <2>2. Len(Commands[found].types) \in 0 .. MaxParam
    BY <2>1, TableAssumption, LimitsAssumption
  <2> QED BY <1>2, <2>2 DEF LookUp
<1> QED BY <1>1, <1>2 DEF LookUp

LEMMA CmdEndInv ==
    ASSUME IInv, NEW ch \in Chars, CmdEnd(ch)
    PROVE  IInv'
<1>1. PICK found \in 0 .. Len(Commands) :
        /\ LookUp(found)
        /\ LET status == IF found = NotFound THEN "INCORRECT_CMD" ELSE "NORM"
           IN  /\ command_processing(found, status, ar_prm)
               /\ CloseLine(ch, status, ar_prm, data)
  BY DEF CmdEnd
<1> DEFINE status == IF found = NotFound THEN "INCORRECT_CMD" ELSE "NORM"
<1>2. status \in Statuses
  BY DEF Statuses
<1>3. status = "NORM" => found \in DOMAIN Commands
  BY TableAssumption DEF NotFound
<1>4. command_processing(found, status, ar_prm) /\ CloseLine(ch, status, ar_prm, data)
  BY <1>1
<1> HIDE DEF status
<1>5. HandlerRegistered'
  BY <1>3, <1>4, CallFits
<1>6. index_cmd' = found /\ num_cmd_param' \in 0 .. MaxParam
  BY <1>1, LookUpFits
<1>7. /\ fsm_dat_prc' \in {"FIND_CMD", "PRC_CMD"}
      /\ data' \in Seq(Letters) /\ Len(data') < MaxData
      /\ status_cmd_param' \in Statuses /\ DOMAIN ar_prm' = 1 .. MaxParam /\ line' = <<>>
  BY <1>2, <1>4, CloseFits DEF IInv, TypeOK
<1>8. line' \in Seq(Letters \cup {SPACE}) /\ upto' \in Seq(Chars)
  BY <1>7, UptoFits DEF CmdEnd, IInv, TypeOK
<1>9. TypeOK'
  BY <1>6, <1>7, <1>8 DEF IInv, TypeOK, States, CmdEnd
<1> QED BY <1>5, <1>9 DEF IInv

\* PRC_CMD, the three kinds of space.
LEMMA CmdSpaceInv ==
    ASSUME IInv, NEW ch \in Chars,
           CmdSpaceParams(ch) \/ CmdSpaceNoParams(ch) \/ CmdSpaceUnknown(ch)
    PROVE  IInv'
<1>1. CASE CmdSpaceParams(ch)
  <2>1. PICK found \in 1 .. Len(Commands) : LookUp(found)
    BY <1>1 DEF CmdSpaceParams
  <2>2. found \in 0 .. Len(Commands) /\ found # NotFound
    BY <2>1, TableAssumption DEF NotFound
  <2>3. index_cmd' = found /\ num_cmd_param' \in 0 .. MaxParam
    BY <2>1, <2>2, LookUpFits
  <2>4. line' \in Seq(Letters \cup {SPACE}) /\ upto' \in Seq(Chars)
    BY <1>1, ExtendFits DEF CmdSpaceParams, IInv, TypeOK
  <2>5. TypeOK'
    BY <1>1, <2>2, <2>3, <2>4, LimitsAssumption
    DEF IInv, TypeOK, CmdSpaceParams, States, Statuses
  <2> QED BY <1>1, <2>5 DEF IInv, HandlerRegistered, CmdSpaceParams
<1>2. CASE CmdSpaceNoParams(ch)
  <2>1. PICK found \in 1 .. Len(Commands) :
          LookUp(found) /\ command_processing(found, "NORM", ar_prm)
    BY <1>2 DEF CmdSpaceNoParams
  <2>2. found \in 0 .. Len(Commands) /\ found \in DOMAIN Commands
    BY <2>1, TableAssumption
  <2>3. index_cmd' = found /\ num_cmd_param' \in 0 .. MaxParam
    BY <2>1, <2>2, LookUpFits
  <2>4. line' \in Seq(Letters \cup {SPACE}) /\ upto' \in Seq(Chars)
    BY <1>2, ExtendFits DEF CmdSpaceNoParams, IInv, TypeOK
  <2>5. fsm_dat_prc' = "PRC_CMD"
    BY <1>2 DEF CmdSpaceNoParams
  <2>6. TypeOK'
    BY <1>2, <2>2, <2>3, <2>4, <2>5 DEF IInv, TypeOK, CmdSpaceNoParams, States, Statuses
  <2>7. HandlerRegistered'
    BY <2>1, <2>2, CallFits
  <2> QED BY <2>6, <2>7 DEF IInv
<1>3. CASE CmdSpaceUnknown(ch)
  <2>1. /\ LookUp(NotFound) /\ command_processing(NotFound, "INCORRECT_CMD", ar_prm)
        /\ CloseLine(ch, "INCORRECT_CMD", ar_prm, data)
    BY <1>3 DEF CmdSpaceUnknown
  <2>2. NotFound \in 0 .. Len(Commands)
    BY TableAssumption DEF NotFound
  <2>3. index_cmd' = NotFound /\ num_cmd_param' \in 0 .. MaxParam
    BY <2>1, <2>2, LookUpFits
  <2>4. "INCORRECT_CMD" \in Statuses
    BY DEF Statuses
  <2>5. /\ fsm_dat_prc' \in {"FIND_CMD", "PRC_CMD"}
        /\ data' \in Seq(Letters) /\ Len(data') < MaxData
        /\ status_cmd_param' \in Statuses /\ DOMAIN ar_prm' = 1 .. MaxParam /\ line' = <<>>
    BY <2>1, <2>4, CloseFits DEF IInv, TypeOK
  <2>6. line' \in Seq(Letters \cup {SPACE}) /\ upto' \in Seq(Chars)
    BY <1>3, <2>5, UptoFits DEF CmdSpaceUnknown, IInv, TypeOK
  <2>7. TypeOK'
    BY <1>3, <2>2, <2>3, <2>5, <2>6 DEF IInv, TypeOK, States, CmdSpaceUnknown
  <2>8. HandlerRegistered'
    BY <2>1 DEF command_processing, HandlerRegistered
  <2> QED BY <2>7, <2>8 DEF IInv
<1> QED BY <1>1, <1>2, <1>3

\* FIND_PRM, and the space after a parameter: nothing ends.
LEMMA PrmGoesOnInv ==
    ASSUME IInv, NEW ch \in Chars, PrmSkip(ch) \/ PrmFirst(ch) \/ PrmNext(ch)
    PROVE  IInv'
<1>1. Extend(ch) /\ ch \in Letters \cup {SPACE} /\ call' = NoCall
  BY DEF PrmSkip, PrmFirst, PrmNext
<1>2. line' \in Seq(Letters \cup {SPACE}) /\ upto' \in Seq(Chars)
  BY <1>1, ExtendFits DEF IInv, TypeOK
<1>3. HandlerRegistered'
  BY <1>1 DEF HandlerRegistered
<1>4. CASE PrmSkip(ch)
  BY <1>2, <1>3, <1>4 DEF IInv, TypeOK, PrmSkip
<1>5. CASE PrmFirst(ch)
  <2>1. ch \in Letters /\ data' = <<ch>>
    BY <1>5 DEF PrmFirst
  <2>2. data' \in Seq(Letters) /\ Len(data') < MaxData
    BY <2>1, LimitsAssumption
  <2> QED BY <1>2, <1>3, <1>5, <2>2 DEF IInv, TypeOK, PrmFirst, States
<1>6. CASE PrmNext(ch)
  <2>1. DOMAIN ar_prm' = 1 .. MaxParam
    BY <1>6 DEF PrmNext, Converted, IInv, TypeOK
  <2>2. status_cmd_param' \in Statuses
    BY <1>6, StatusType DEF PrmNext, Parsed
  <2>3. index_param' \in 1 .. MaxParam
    BY <1>6, LimitsAssumption DEF PrmNext, IInv, TypeOK
  <2> QED BY <1>2, <1>3, <1>6, <2>1, <2>2, <2>3 DEF IInv, TypeOK, PrmNext, States
<1> QED BY <1>4, <1>5, <1>6

\* FIND_PRM and PRC_PRM, the end of the line: index_cmd is not looked at.
LEMMA PrmLastInv ==
    ASSUME IInv, NEW ch \in Chars, PrmNoMore(ch) \/ PrmEnd(ch)
    PROVE  IInv'
<1>1. index_cmd \in DOMAIN Commands
  BY TableAssumption DEF IInv, TypeOK, PrmNoMore, PrmEnd, NotFound
<1>2. \E status \in Statuses, prm \in {ar_prm, Converted(index_param)} :
        command_processing(index_cmd, status, prm) /\ CloseLine(ch, status, prm, data)
  <2>1. Parsed \in Statuses
    BY StatusType DEF Parsed
  <2>2. status_cmd_param \in Statuses
    BY DEF IInv, TypeOK
  <2> QED BY <2>1, <2>2 DEF PrmNoMore, PrmEnd
<1>3. PICK status \in Statuses, prm \in {ar_prm, Converted(index_param)} :
        command_processing(index_cmd, status, prm) /\ CloseLine(ch, status, prm, data)
  BY <1>2
<1>4. DOMAIN prm = 1 .. MaxParam
  BY DEF Converted, IInv, TypeOK
<1>5. /\ fsm_dat_prc' \in {"FIND_CMD", "PRC_CMD"}
      /\ data' \in Seq(Letters) /\ Len(data') < MaxData
      /\ status_cmd_param' \in Statuses /\ DOMAIN ar_prm' = 1 .. MaxParam /\ line' = <<>>
  BY <1>3, <1>4, CloseFits DEF IInv, TypeOK
<1>6. line' \in Seq(Letters \cup {SPACE}) /\ upto' \in Seq(Chars)
  <2>1. line \in Seq(Letters \cup {SPACE})
    BY DEF IInv, TypeOK
  <2>2. upto' = Append(line, ch)
    BY DEF PrmNoMore, PrmEnd
  <2>3. upto' \in Seq(Chars)
    BY <2>1, <2>2, UptoFits
  <2> QED BY <1>5, <2>3
<1>7. TypeOK'
  BY <1>5, <1>6 DEF IInv, TypeOK, States, PrmNoMore, PrmEnd
<1>8. HandlerRegistered'
  BY <1>1, <1>3, CallFits
<1> QED BY <1>7, <1>8 DEF IInv

LEMMA StepInv == IInv /\ [Next]_vars => IInv'
<1> SUFFICES ASSUME IInv, [Next]_vars PROVE IInv'
  OBVIOUS
<1>1. ASSUME NEW ch \in Chars, FindCmd(ch) PROVE IInv'
  BY <1>1, FindCmdInv
<1>2. ASSUME NEW ch \in Chars, CmdLetter(ch) \/ PrmLetter(ch) PROVE IInv'
  BY <1>2, LetterInv
<1>3. ASSUME NEW ch \in Chars, CmdEnd(ch) PROVE IInv'
  BY <1>3, CmdEndInv
<1>4. ASSUME NEW ch \in Chars,
             CmdSpaceParams(ch) \/ CmdSpaceNoParams(ch) \/ CmdSpaceUnknown(ch)
      PROVE IInv'
  BY <1>4, CmdSpaceInv
<1>5. ASSUME NEW ch \in Chars, PrmSkip(ch) \/ PrmFirst(ch) \/ PrmNext(ch) PROVE IInv'
  BY <1>5, PrmGoesOnInv
<1>6. ASSUME NEW ch \in Chars, PrmNoMore(ch) \/ PrmEnd(ch) PROVE IInv'
  BY <1>6, PrmLastInv
<1>7. CASE UNCHANGED vars
  BY <1>7 DEF vars, IInv, TypeOK, HandlerRegistered
<1> QED BY <1>1, <1>2, <1>3, <1>4, <1>5, <1>6, <1>7 DEF Next

-----------------------------------------------------------------------------
\* No write index, parameter index or command index of
\* terminal_data_processing leaves its array, for any table and any input.
THEOREM TerminalTypeCorrect == Spec => []TypeOK
<1>1. IInv => TypeOK
  BY DEF IInv
<1> QED BY <1>1, InitInv, StepInv, PTL DEF Spec

\* command_processing only ever calls the handler of a command scan_cmd found.
THEOREM HandlersRegistered == Spec => []HandlerRegistered
<1>1. IInv => HandlerRegistered
  BY DEF IInv
<1> QED BY <1>1, InitInv, StepInv, PTL DEF Spec
-----------------------------------------------------------------------------
(* The words of a line, as it grows.                                       *)

Text == Seq(Letters \cup {SPACE})
Spaced(t) == \E i \in DOMAIN t : t[i] = SPACE

LEMMA Grown ==
    ASSUME NEW t \in Text, NEW ch \in Letters \cup {SPACE}
    PROVE  /\ Append(t, ch) \in Text /\ Len(Append(t, ch)) = Len(t) + 1 /\ Len(t) \in Nat
           /\ \A k \in 1 .. Len(t) : Append(t, ch)[k] = t[k]
           /\ Append(t, ch)[Len(t) + 1] = ch
           /\ Spaced(Append(t, ch)) <=> (Spaced(t) \/ ch = SPACE)
<1>1. /\ Append(t, ch) \in Text /\ Len(Append(t, ch)) = Len(t) + 1 /\ Len(t) \in Nat
      /\ \A k \in 1 .. Len(t) : Append(t, ch)[k] = t[k]
      /\ Append(t, ch)[Len(t) + 1] = ch
  BY DEF Text
<1>2. DOMAIN t = 1 .. Len(t) /\ DOMAIN Append(t, ch) = 1 .. Len(t) + 1
  BY <1>1 DEF Text
<1>3. Spaced(Append(t, ch)) => Spaced(t) \/ ch = SPACE
  BY <1>1, <1>2 DEF Spaced
<1>4. Spaced(t) \/ ch = SPACE => Spaced(Append(t, ch))
  <2>1. ASSUME NEW i \in DOMAIN t, t[i] = SPACE
        PROVE  i \in DOMAIN Append(t, ch) /\ Append(t, ch)[i] = SPACE
    BY <1>1, <1>2, <2>1
  <2>2. Len(t) + 1 \in DOMAIN Append(t, ch)
    BY <1>1, <1>2
  <2> QED BY <1>1, <2>1, <2>2 DEF Spaced
<1> QED BY <1>1, <1>3, <1>4

\* The span of a word is an interval of the text.
LEMMA SpanFinite ==
    ASSUME NEW t \in Text, NEW i \in 1 .. Len(t) + 1
    PROVE  /\ IsFiniteSet(Span(t, i)) /\ Cardinality(Span(t, i)) \in Nat
           /\ i + Cardinality(Span(t, i)) - 1 \in i - 1 .. Len(t)
<1>1. Len(t) \in Nat /\ i \in Nat
  BY DEF Text
<1>2. IsFiniteSet(i .. Len(t)) /\ Cardinality(i .. Len(t)) = Len(t) - i + 1
  <2>1. ASSUME NEW a \in Int, NEW b \in Int
        PROVE  /\ IsFiniteSet(a .. b)
               /\ Cardinality(a .. b) = IF a > b THEN 0 ELSE b - a + 1
    BY FS_Interval
  <2>2. i <= Len(t) + 1
    OBVIOUS
  <2>3. Len(t) \in Int /\ i \in Int
    BY <1>1
  <2>4. /\ IsFiniteSet(i .. Len(t))
        /\ Cardinality(i .. Len(t)) = (IF i > Len(t) THEN 0 ELSE Len(t) - i + 1)
    BY <2>1, <2>3
  <2> QED BY <1>1, <2>2, <2>4
<1>3. Span(t, i) \in SUBSET (i .. Len(t))
  BY DEF Span
<1>4. IsFiniteSet(Span(t, i)) /\ Cardinality(Span(t, i)) <= Len(t) - i + 1
  BY <1>2, <1>3, FS_Subset
<1>5. Cardinality(Span(t, i)) \in Nat
  BY <1>4, FS_CardinalityType
<1> QED BY <1>1, <1>4, <1>5

\* A word that a space ends, or ended, is not touched by what follows.
LEMMA WordStays ==
    ASSUME NEW t \in Text, NEW ch \in Letters \cup {SPACE}, NEW i \in 1 .. Len(t) + 1,
           ch = SPACE \/ \E j \in i .. Len(t) : t[j] = SPACE
    PROVE  WordAt(Append(t, ch), i) = WordAt(t, i)
<1> DEFINE u == Append(t, ch)
<1>1. /\ Len(u) = Len(t) + 1 /\ Len(t) \in Nat /\ u[Len(t) + 1] = ch /\ i \in Nat /\ i >= 1
      /\ \A k \in 1 .. Len(t) : u[k] = t[k]
  BY Grown DEF Text
<1> HIDE DEF u
<1>2. ASSUME NEW j \in Span(u, i)
      PROVE  j \in Span(t, i)
  <2>1. j \in i .. Len(t) + 1 /\ j < i + MaxData - 1 /\ \A k \in i .. j : u[k] # SPACE
    BY <1>1 DEF Span
  <2>2. j <= Len(t)
    <3>1. CASE ch = SPACE
      BY <1>1, <2>1, <3>1
    <3>2. CASE \E l \in i .. Len(t) : t[l] = SPACE
      BY <1>1, <2>1, <3>2
    <3> QED BY <3>1, <3>2
  <2>3. \A k \in i .. j : t[k] # SPACE
    BY <1>1, <2>1, <2>2
  <2> QED BY <1>1, <2>1, <2>2, <2>3 DEF Span
<1>3. ASSUME NEW j \in Span(t, i)
      PROVE  j \in Span(u, i)
  <2>1. j \in i .. Len(t) /\ j < i + MaxData - 1 /\ \A k \in i .. j : t[k] # SPACE
    BY DEF Span
  <2>2. \A k \in i .. j : u[k] # SPACE
    BY <1>1, <2>1
  <2> QED BY <1>1, <2>1, <2>2 DEF Span
<1>4. Span(u, i) = Span(t, i)
  BY <1>2, <1>3
<1>5. PICK e \in i - 1 .. Len(t) : e = i + Cardinality(Span(t, i)) - 1
  BY SpanFinite
<1>6. SubSeq(u, i, e) = SubSeq(t, i, e)
  BY <1>1, <1>5 DEF u, Text
<1> QED BY <1>4, <1>5, <1>6 DEF WordAt, u

\* A word nothing has ended takes one more character while there is room.
LEMMA OpenWord ==
    ASSUME NEW t \in Text, NEW i \in 1 .. Len(t) + 1, \A j \in i .. Len(t) : t[j] # SPACE
    PROVE  WordAt(t, i) =
             SubSeq(t, i, IF Len(t) < i + MaxData - 1 THEN Len(t) ELSE i + MaxData - 2)
<1> DEFINE e == IF Len(t) < i + MaxData - 1 THEN Len(t) ELSE i + MaxData - 2
<1>1. Len(t) \in Nat /\ i \in Nat /\ MaxData \in Nat /\ MaxData >= 2
  BY LimitsAssumption DEF Text
<1>2. e \in Nat /\ e >= i - 1 /\ e <= Len(t)
  BY <1>1
<1>3. Span(t, i) = i .. e
  <2>1. ASSUME NEW j \in Span(t, i) PROVE j \in i .. e
    BY <1>1 DEF Span
  <2>2. ASSUME NEW j \in i .. e PROVE j \in Span(t, i)
    BY <1>1, <1>2 DEF Span
  <2> QED BY <2>1, <2>2
<1>4. Cardinality(i .. e) = e - i + 1
  <2> HIDE DEF e
  <2>1. Cardinality(i .. e) = IF i > e THEN 0 ELSE e - i + 1
    BY <1>1, <1>2, FS_Interval
  <2> QED BY <1>1, <1>2, <2>1
<1>5. i + Cardinality(Span(t, i)) - 1 = e
  <2> HIDE DEF e
  <2> QED BY <1>1, <1>2, <1>3, <1>4
<1> QED BY <1>5 DEF WordAt

\* What Stored does to the word in data.
Longer(word, ch) == IF Len(word) < MaxData - 1 THEN Append(word, ch) ELSE word

LEMMA WordGrows ==
    ASSUME NEW t \in Text, NEW ch \in Letters, NEW i \in 1 .. Len(t) + 1,
           \A j \in i .. Len(t) : t[j] # SPACE
    PROVE  WordAt(Append(t, ch), i) = Longer(WordAt(t, i), ch)
<1> DEFINE u == Append(t, ch)
<1>1. /\ u \in Text /\ Len(u) = Len(t) + 1 /\ Len(t) \in Nat /\ u[Len(t) + 1] = ch
      /\ i \in Nat /\ i >= 1 /\ i <= Len(t) + 1 /\ \A k \in 1 .. Len(t) : u[k] = t[k]
  BY Grown DEF Text
<1>2. ch # SPACE /\ MaxData \in Nat /\ MaxData >= 2
  BY AlphabetAssumption, LimitsAssumption
<1>3. \A j \in i .. Len(u) : u[j] # SPACE
  BY <1>1, <1>2
<1>4. WordAt(t, i) = SubSeq(t, i, IF Len(t) < i + MaxData - 1 THEN Len(t) ELSE i + MaxData - 2)
  BY OpenWord
<1>5. WordAt(u, i) = SubSeq(u, i, IF Len(u) < i + MaxData - 1 THEN Len(u) ELSE i + MaxData - 2)
  <2>1. i \in 1 .. Len(u) + 1
    BY <1>1
  <2> QED BY <1>1, <1>3, <2>1, OpenWord
<1> HIDE DEF u
<1>6. CASE Len(t) < i + MaxData - 2
  <2>0. Len(t) < i + MaxData - 1 /\ Len(u) < i + MaxData - 1
    BY <1>1, <1>2, <1>6
  <2>1. WordAt(t, i) = SubSeq(t, i, Len(t)) /\ WordAt(u, i) = SubSeq(u, i, Len(t) + 1)
    BY <1>1, <1>4, <1>5, <2>0
  <2>2. Len(SubSeq(t, i, Len(t))) = Len(t) - i + 1
    BY <1>1 DEF Text
  <2>3. Len(WordAt(t, i)) < MaxData - 1
    BY <1>1, <1>2, <1>6, <2>1, <2>2
  <2>4. SubSeq(u, i, Len(t) + 1) = Append(SubSeq(t, i, Len(t)), ch)
    BY <1>1 DEF u, Text
  <2> QED BY <2>1, <2>3, <2>4 DEF Longer, u
<1>7. CASE ~(Len(t) < i + MaxData - 2)
  <2> DEFINE e == i + MaxData - 2
  <2>0. ~(Len(u) < i + MaxData - 1) /\ (Len(t) < i + MaxData - 1 => Len(t) = e)
    BY <1>1, <1>2, <1>7
  <2>1. WordAt(t, i) = SubSeq(t, i, e) /\ WordAt(u, i) = SubSeq(u, i, e)
    BY <1>4, <1>5, <2>0
  <2>2. e \in Nat /\ e >= i /\ e <= Len(t) /\ e - i + 1 = MaxData - 1
    BY <1>1, <1>2, <1>7
  <2> HIDE DEF e
  <2>3. Len(SubSeq(t, i, e)) = e - i + 1
    BY <1>1, <2>2 DEF Text
  <2>4. ~(Len(WordAt(t, i)) < MaxData - 1)
    BY <1>2, <2>1, <2>2, <2>3
  <2>5. SubSeq(u, i, e) = SubSeq(t, i, e)
    BY <1>1, <2>2 DEF u, Text
  <2> QED BY <2>1, <2>4, <2>5 DEF Longer, u
<1> QED BY <1>6, <1>7

\* Nothing is a word before its first character.
LEMMA NoWord ==
    ASSUME NEW t \in Text
    PROVE  WordAt(t, Len(t) + 1) = <<>>
<1>1. Len(t) \in Nat
  BY DEF Text
<1>2. Span(t, Len(t) + 1) = {}
  BY <1>1 DEF Span
<1>3. (Len(t) + 1) + Cardinality({}) - 1 = Len(t)
  BY <1>1, FS_EmptySet
<1>4. SubSeq(t, Len(t) + 1, Len(t)) = <<>>
  BY <1>1 DEF Text
<1> QED BY <1>2, <1>3, <1>4 DEF WordAt

LEMMA NewWord ==
    ASSUME NEW t \in Text, NEW ch \in Letters
    PROVE  WordAt(Append(t, ch), Len(t) + 1) = <<ch>>
<1>1. Len(t) \in Nat
  BY DEF Text
<1>2. WordAt(Append(t, ch), Len(t) + 1) = Longer(WordAt(t, Len(t) + 1), ch)
  BY <1>1, WordGrows
<1>3. WordAt(t, Len(t) + 1) = <<>> /\ 0 < MaxData - 1
  BY NoWord, LimitsAssumption
<1>4. Len(<<>>) = 0 /\ Append(<<>>, ch) = <<ch>>
  OBVIOUS
<1> QED BY <1>2, <1>3, <1>4 DEF Longer

-----------------------------------------------------------------------------
(* The parameters of a line, as it grows.                                  *)

LEMMA StartsFinite ==
    ASSUME NEW t \in Text
    PROVE  /\ \A i \in Starts(t) : /\ i \in 2 .. Len(t) /\ t[i - 1] = SPACE /\ t[i] # SPACE
                                   /\ i \in Nat /\ Len(t) \in Nat
           /\ IsFiniteSet(Starts(t)) /\ Cardinality(Starts(t)) \in Nat
<1>1. Len(t) \in Nat /\ 2 \in Int
  BY DEF Text
<1>2. IsFiniteSet(2 .. Len(t))
  BY <1>1, FS_Interval
<1>3. Starts(t) \in SUBSET (2 .. Len(t))
  BY DEF Starts
<1>4. IsFiniteSet(Starts(t))
  BY <1>2, <1>3, FS_Subset
<1>5. Cardinality(Starts(t)) \in Nat
  BY <1>4, FS_CardinalityType
<1> QED BY <1>1, <1>4, <1>5 DEF Starts

LEMMA StartsSame ==
    ASSUME NEW t \in Text, NEW ch \in Letters \cup {SPACE},
           ch = SPACE \/ t = <<>> \/ t[Len(t)] # SPACE
    PROVE  Starts(Append(t, ch)) = Starts(t)
<1> DEFINE u == Append(t, ch)
<1>1. /\ Len(u) = Len(t) + 1 /\ Len(t) \in Nat /\ u[Len(t) + 1] = ch
      /\ \A k \in 1 .. Len(t) : u[k] = t[k]
  BY Grown
<1> HIDE DEF u
<1>2. ASSUME NEW i \in Starts(t) PROVE i \in Starts(u)
  <2>1. i \in 2 .. Len(t) /\ t[i - 1] = SPACE /\ t[i] # SPACE
    BY DEF Starts
  <2>2. i - 1 \in 1 .. Len(t) /\ i \in 1 .. Len(t) /\ i \in 2 .. Len(u)
    BY <1>1, <2>1
  <2>3. u[i - 1] = SPACE /\ u[i] # SPACE
    BY <1>1, <2>1, <2>2
  <2> QED BY <2>2, <2>3 DEF Starts
<1>3. ASSUME NEW i \in Starts(u) PROVE i \in Starts(t)
  <2>1. i \in 2 .. Len(t) + 1 /\ u[i - 1] = SPACE /\ u[i] # SPACE
    BY <1>1 DEF Starts
  <2>2. i - 1 \in 1 .. Len(t)
    BY <1>1, <2>1
  <2>3. t[i - 1] = SPACE
    BY <1>1, <2>1, <2>2
  <2>4. i # Len(t) + 1
    <3> SUFFICES ASSUME i = Len(t) + 1 PROVE FALSE
      OBVIOUS
    <3>1. i - 1 = Len(t) /\ u[i] = ch
      BY <1>1
    <3>2. t # <<>>
      BY <1>1, <2>2
    <3> QED BY <2>1, <2>3, <3>1, <3>2
  <2>5. i \in 2 .. Len(t) /\ i \in 1 .. Len(t)
    BY <1>1, <2>1, <2>4
  <2>6. t[i] # SPACE
    BY <1>1, <2>1, <2>5
  <2> QED BY <2>3, <2>5, <2>6 DEF Starts
<1> QED BY <1>2, <1>3 DEF u

LEMMA StartsMore ==
    ASSUME NEW t \in Text, NEW ch \in Letters, t # <<>>, t[Len(t)] = SPACE
    PROVE  Starts(Append(t, ch)) = Starts(t) \cup {Len(t) + 1}
<1> DEFINE u == Append(t, ch)
<1>1. /\ Len(u) = Len(t) + 1 /\ Len(t) \in Nat /\ u[Len(t) + 1] = ch
      /\ \A k \in 1 .. Len(t) : u[k] = t[k]
  BY Grown
<1>2. Len(t) >= 1 /\ ch # SPACE
  BY <1>1, AlphabetAssumption DEF Text
<1> HIDE DEF u
<1>3. ASSUME NEW i \in Starts(t) PROVE i \in Starts(u)
  <2>1. i \in 2 .. Len(t) /\ t[i - 1] = SPACE /\ t[i] # SPACE
    BY DEF Starts
  <2>2. i - 1 \in 1 .. Len(t) /\ i \in 1 .. Len(t) /\ i \in 2 .. Len(u)
    BY <1>1, <2>1
  <2>3. u[i - 1] = SPACE /\ u[i] # SPACE
    BY <1>1, <2>1, <2>2
  <2> QED BY <2>2, <2>3 DEF Starts
<1>4. Len(t) + 1 \in Starts(u)
  <2>1. Len(t) + 1 \in 2 .. Len(u) /\ (Len(t) + 1) - 1 = Len(t) /\ Len(t) \in 1 .. Len(t)
    BY <1>1, <1>2
  <2>2. u[(Len(t) + 1) - 1] = SPACE /\ u[Len(t) + 1] # SPACE
    BY <1>1, <1>2, <2>1
  <2> QED BY <2>1, <2>2 DEF Starts
<1>5. ASSUME NEW i \in Starts(u) PROVE i \in Starts(t) \cup {Len(t) + 1}
  <2>1. i \in 2 .. Len(t) + 1 /\ u[i - 1] = SPACE /\ u[i] # SPACE
    BY <1>1 DEF Starts
  <2>2. CASE i = Len(t) + 1
    BY <2>2
  <2>3. CASE i # Len(t) + 1
    <3>1. i \in 2 .. Len(t) /\ i \in 1 .. Len(t) /\ i - 1 \in 1 .. Len(t)
      BY <1>1, <2>1, <2>3
    <3>2. t[i - 1] = SPACE /\ t[i] # SPACE
      BY <1>1, <2>1, <3>1
    <3> QED BY <3>1, <3>2 DEF Starts
  <2> QED BY <2>2, <2>3
<1> QED BY <1>3, <1>4, <1>5 DEF u

LEMMA StartsNone ==
    ASSUME NEW t \in Text, ~Spaced(t)
    PROVE  Starts(t) = {} /\ Args(t) = <<>>
<1>1. Starts(t) = {}
  <2> SUFFICES ASSUME NEW i \in Starts(t) PROVE FALSE
    OBVIOUS
  <2>1. i \in 2 .. Len(t) /\ t[i - 1] = SPACE /\ Len(t) \in Nat /\ DOMAIN t = 1 .. Len(t)
    BY DEF Starts, Text
  <2>2. i - 1 \in DOMAIN t
    BY <2>1
  <2> QED BY <2>1, <2>2 DEF Spaced
<1>2. Cardinality({}) = 0
  BY FS_EmptySet
<1>3. Args(t) = [n \in 1 .. 0 |-> WordAt(t, Nth(Starts(t), n))]
  BY <1>1, <1>2 DEF Args
<1>4. [n \in 1 .. 0 |-> WordAt(t, Nth(Starts(t), n))] = <<>>
  OBVIOUS
<1> QED BY <1>1, <1>3, <1>4

\* The members of S with n members up to them: one at most.
Rank(S, i) == Cardinality({j \in S : j <= i})
At(S, n) == {i \in S : Rank(S, i) = n}

LEMMA NthIs ==
    ASSUME NEW S, NEW n, At(S, n) # {}
    PROVE  Nth(S, n) \in S /\ Rank(S, Nth(S, n)) = n
<1>1. Only(At(S, n)) \in At(S, n)
  BY DEF Only
<1>2. Nth(S, n) = Only(At(S, n))
  BY DEF Nth, At, Rank
<1> QED BY <1>1, <1>2 DEF At

LEMMA RankBound ==
    ASSUME NEW S, IsFiniteSet(S), NEW i
    PROVE  Rank(S, i) \in Nat /\ Rank(S, i) <= Cardinality(S)
<1>1. {j \in S : j <= i} \in SUBSET S
  OBVIOUS
<1>2. IsFiniteSet({j \in S : j <= i}) /\ Cardinality({j \in S : j <= i}) <= Cardinality(S)
  BY <1>1, FS_Subset
<1>3. Cardinality({j \in S : j <= i}) \in Nat
  BY <1>2, FS_CardinalityType
<1> QED BY <1>2, <1>3 DEF Rank

\* A new largest member is the last one, and the others keep their places.
LEMMA AtMore ==
    ASSUME NEW S, IsFiniteSet(S), NEW m \in Nat, \A i \in S : i \in Nat /\ i < m,
           NEW n \in 1 .. Cardinality(S)
    PROVE  At(S \cup {m}, n) = At(S, n)
<1>1. Cardinality(S) \in Nat
  BY FS_CardinalityType
<1>2. Cardinality(S \cup {m}) = Cardinality(S) + 1
  BY FS_AddElement
<1>3. {j \in S \cup {m} : j <= m} = S \cup {m}
  OBVIOUS
<1>4. Rank(S \cup {m}, m) # n
  BY <1>1, <1>2, <1>3 DEF Rank
<1>5. ASSUME NEW i \in S
      PROVE  Rank(S \cup {m}, i) = Rank(S, i)
  <2>1. {j \in S \cup {m} : j <= i} = {j \in S : j <= i}
    OBVIOUS
  <2> QED BY <2>1 DEF Rank
<1>6. ASSUME NEW i
      PROVE  i \in At(S \cup {m}, n) <=> i \in At(S, n)
  BY <1>4, <1>5 DEF At
<1> QED BY <1>6

\* The largest member is the last one.
LEMMA AtLast ==
    ASSUME NEW S, IsFiniteSet(S), NEW p \in S, \A i \in S : i \in Nat /\ i <= p
    PROVE  At(S, Cardinality(S)) = {p}
<1>1. {j \in S : j <= p} = S
  OBVIOUS
<1>2. Rank(S, p) = Cardinality(S)
  BY <1>1 DEF Rank
<1>3. ASSUME NEW i \in S, Rank(S, i) = Cardinality(S)
      PROVE  i = p
  <2>1. {j \in S : j <= i} \in SUBSET S
    OBVIOUS
  <2>2. Cardinality({j \in S : j <= i}) = Cardinality(S)
    BY <1>3 DEF Rank
  <2>3. {j \in S : j <= i} = S
    BY <2>1, <2>2, FS_Subset
  <2>4. p <= i
    BY <2>3
  <2> QED BY <2>4
<1> QED BY <1>2, <1>3 DEF At

\* Every place is taken, and a word that is not ended has a beginning.
Listed(t) == \A n \in 1 .. Cardinality(Starts(t)) : At(Starts(t), n) # {}
Begun(t) ==
    Spaced(t) /\ t[Len(t)] # SPACE =>
        \E p \in Starts(t) : \A j \in p .. Len(t) : t[j] # SPACE

\* The sequence of parameters, by its elements.
LEMMA ArgsAre ==
    ASSUME NEW t \in Text
    PROVE  /\ Len(Args(t)) = Cardinality(Starts(t)) /\ Cardinality(Starts(t)) \in Nat
           /\ DOMAIN Args(t) = 1 .. Cardinality(Starts(t))
           /\ \A n \in 1 .. Cardinality(Starts(t)) : Args(t)[n] = WordAt(t, Nth(Starts(t), n))
           /\ Args(t) = [n \in 1 .. Cardinality(Starts(t)) |-> Args(t)[n]]
<1>1. Cardinality(Starts(t)) \in Nat
  BY StartsFinite
<1>2. Args(t) = [n \in 1 .. Cardinality(Starts(t)) |-> WordAt(t, Nth(Starts(t), n))]
  BY DEF Args
<1>3. DOMAIN Args(t) = 1 .. Cardinality(Starts(t))
  BY <1>2
<1>4. Len(Args(t)) = Cardinality(Starts(t))
  BY <1>1, <1>2
<1> QED BY <1>1, <1>2, <1>3, <1>4

\* The space after a word, or between words.
LEMMA ArgsSpace ==
    ASSUME NEW t \in Text, Listed(t), Begun(t)
    PROVE  Args(Append(t, SPACE)) = Args(t) /\ Listed(Append(t, SPACE)) /\ Begun(Append(t, SPACE))
<1> DEFINE u == Append(t, SPACE)
<1>1. /\ u \in Text /\ Len(u) = Len(t) + 1 /\ Len(t) \in Nat /\ u[Len(t) + 1] = SPACE
      /\ Starts(u) = Starts(t)
  BY Grown, StartsSame
<1>2. ASSUME NEW n \in 1 .. Cardinality(Starts(t))
      PROVE  WordAt(u, Nth(Starts(t), n)) = WordAt(t, Nth(Starts(t), n))
  <2>1. Nth(Starts(t), n) \in Starts(t)
    BY NthIs DEF Listed
  <2>2. Nth(Starts(t), n) \in 1 .. Len(t) + 1
    BY <2>1, StartsFinite
  <2> QED BY <2>2, WordStays
<1> HIDE DEF u
<1>3. Args(u) = Args(t)
  BY <1>1, <1>2 DEF Args
<1>4. Listed(u)
  BY <1>1 DEF Listed
<1>5. Begun(u)
  BY <1>1 DEF Begun
<1> QED BY <1>3, <1>4, <1>5 DEF u

\* The first character of a parameter.
LEMMA ArgsMore ==
    ASSUME NEW t \in Text, NEW ch \in Letters, Listed(t), t # <<>>, t[Len(t)] = SPACE
    PROVE  /\ Len(Args(Append(t, ch))) = Len(Args(t)) + 1
           /\ \A n \in 1 .. Len(Args(t)) : Args(Append(t, ch))[n] = Args(t)[n]
           /\ Args(Append(t, ch))[Len(Args(t)) + 1] = <<ch>>
           /\ Listed(Append(t, ch)) /\ Begun(Append(t, ch))
<1> DEFINE u == Append(t, ch)
           S == Starts(t)
           m == Len(t) + 1
<1>1. /\ u \in Text /\ Len(u) = m /\ Len(t) \in Nat /\ u[m] = ch /\ m \in Nat
      /\ Starts(u) = S \cup {m}
  BY Grown, StartsMore
<1>2. /\ IsFiniteSet(S) /\ Cardinality(S) \in Nat
      /\ \A i \in S : i \in 2 .. Len(t)
  BY StartsFinite
<1>3. \A i \in S : i \in Nat /\ i < m
  BY <1>1, <1>2
<1>4. Cardinality(Starts(u)) = Cardinality(S) + 1
  <2> HIDE DEF S, m, u
  <2>1. m \notin S
    BY <1>1, <1>3
  <2> QED BY <1>1, <1>2, <2>1, FS_AddElement
<1>5. \A n \in 1 .. Cardinality(S) : At(Starts(u), n) = At(S, n)
  <2> HIDE DEF S, m, u
  <2> QED BY <1>1, <1>2, <1>3, AtMore
<1>6. At(Starts(u), Cardinality(S) + 1) = {m}
  <2> HIDE DEF S, m, u
  <2>1. IsFiniteSet(S \cup {m})
    BY <1>2, FS_AddElement
  <2>2. m \in S \cup {m} /\ \A i \in S \cup {m} : i \in Nat /\ i <= m
    BY <1>1, <1>3
  <2>3. At(S \cup {m}, Cardinality(S \cup {m})) = {m}
    BY <2>1, <2>2, AtLast
  <2> QED BY <1>1, <1>4, <2>3
<1>7. ASSUME NEW n \in 1 .. Cardinality(S)
      PROVE  Args(u)[n] = Args(t)[n]
  <2>1. Nth(Starts(u), n) = Nth(S, n)
    <3>1. Only(At(Starts(u), n)) = Only(At(S, n))
      BY <1>5
    <3> QED BY <3>1 DEF Nth, At, Rank
  <2>2. Nth(S, n) \in S
    BY NthIs DEF Listed
  <2>3. Nth(S, n) \in 1 .. Len(t) + 1 /\ Len(t) \in Nth(S, n) .. Len(t)
    BY <1>1, <1>2, <2>2
  <2>4. WordAt(u, Nth(S, n)) = WordAt(t, Nth(S, n))
    BY <2>3, WordStays
  <2>5. n \in 1 .. Cardinality(Starts(u))
    BY <1>2, <1>4
  <2> HIDE DEF u
  <2> QED BY <1>1, <2>1, <2>4, <2>5, ArgsAre
<1>8. Args(u)[Cardinality(S) + 1] = <<ch>>
  <2>1. Nth(Starts(u), Cardinality(S) + 1) = m
    <3>1. Only({m}) = m
      BY DEF Only
    <3>2. Only(At(Starts(u), Cardinality(S) + 1)) = m
      BY <1>6, <3>1
    <3> QED BY <3>2 DEF Nth, At, Rank
  <2>2. WordAt(u, m) = <<ch>>
    BY NewWord
  <2>3. Cardinality(S) + 1 \in 1 .. Cardinality(Starts(u))
    BY <1>2, <1>4
  <2> HIDE DEF u, m
  <2> QED BY <1>1, <2>1, <2>2, <2>3, ArgsAre
<1>9. Listed(u)
  <2> HIDE DEF u, m
  <2> SUFFICES ASSUME NEW n \in 1 .. Cardinality(Starts(u)) PROVE At(Starts(u), n) # {}
    BY DEF Listed
  <2>1. n \in 1 .. Cardinality(S) \/ n = Cardinality(S) + 1
    BY <1>2, <1>4
  <2> QED BY <1>5, <1>6, <2>1 DEF Listed
<1>10. Begun(u)
  <2>1. ch # SPACE
    BY AlphabetAssumption
  <2>2. \A j \in m .. Len(u) : u[j] # SPACE
    BY <1>1, <2>1
  <2>3. m \in Starts(u)
    BY <1>1
  <2> HIDE DEF u, m
  <2> QED BY <2>2, <2>3 DEF Begun
<1>11. Len(Args(u)) = Len(Args(t)) + 1 /\ Len(Args(t)) = Cardinality(S)
  <2> HIDE DEF u
  <2> QED BY <1>1, <1>4, ArgsAre
<1> HIDE DEF u, S
<1> QED BY <1>7, <1>8, <1>9, <1>10, <1>11 DEF u

\* A further character of a word.
LEMMA ArgsLonger ==
    ASSUME NEW t \in Text, NEW ch \in Letters, Listed(t), Begun(t),
           t = <<>> \/ t[Len(t)] # SPACE
    PROVE  /\ Len(Args(Append(t, ch))) = Len(Args(t)) /\ Len(Args(t)) \in Nat
           /\ \A n \in 1 .. Len(Args(t)) :
                Args(Append(t, ch))[n] =
                  IF n < Len(Args(t)) THEN Args(t)[n] ELSE Longer(Args(t)[n], ch)
           /\ Listed(Append(t, ch)) /\ Begun(Append(t, ch))
<1> DEFINE u == Append(t, ch)
           S == Starts(t)
<1>1. /\ u \in Text /\ Len(u) = Len(t) + 1 /\ Len(t) \in Nat /\ u[Len(t) + 1] = ch
      /\ \A k \in 1 .. Len(t) : u[k] = t[k]
      /\ Spaced(u) <=> (Spaced(t) \/ ch = SPACE)
      /\ Starts(u) = S
  BY Grown, StartsSame
<1>2. /\ IsFiniteSet(S) /\ Cardinality(S) \in Nat
      /\ \A i \in S : i \in 2 .. Len(t) /\ t[i - 1] = SPACE /\ i \in Nat
  BY StartsFinite
<1>3. ch # SPACE
  BY AlphabetAssumption
<1> HIDE DEF u
<1>4. Listed(u)
  BY <1>1 DEF Listed
<1>5. Len(Args(u)) = Cardinality(S) /\ Len(Args(t)) = Cardinality(S)
      /\ \A n \in 1 .. Cardinality(S) :
           Args(u)[n] = WordAt(u, Nth(S, n)) /\ Args(t)[n] = WordAt(t, Nth(S, n))
  BY <1>1, ArgsAre
<1>6. CASE ~Spaced(t)
  <2>1. S = {} /\ Cardinality(S) = 0
    BY <1>6, StartsNone, FS_EmptySet
  <2>2. Begun(u)
    BY <1>1, <1>3, <1>6 DEF Begun
  <2> HIDE DEF S
  <2> QED BY <1>4, <1>5, <2>1, <2>2 DEF u
<1>7. CASE Spaced(t)
  <2>0. t[Len(t)] # SPACE
    BY <1>1, <1>7 DEF Spaced, Text
  <2>1. PICK p \in S : \A j \in p .. Len(t) : t[j] # SPACE
    BY <1>7, <2>0 DEF Begun
  <2>2. p \in 2 .. Len(t) /\ t[p - 1] = SPACE
    BY <1>2
  <2>3. \A i \in S : i \in Nat /\ i <= p
    <3> SUFFICES ASSUME NEW i \in S, ~(i <= p) PROVE FALSE
      BY <1>2
    <3>1. i \in 2 .. Len(t) /\ t[i - 1] = SPACE
      BY <1>2
    <3>2. i - 1 \in p .. Len(t)
      BY <1>1, <2>2, <3>1
    <3> QED BY <2>1, <3>1, <3>2
  <2>4. At(S, Cardinality(S)) = {p}
    <3> HIDE DEF S
    <3> QED BY <1>2, <2>3, AtLast
  <2>5. Begun(u)
    <3>1. \A j \in p .. Len(u) : u[j] # SPACE
      BY <1>1, <1>3, <2>1, <2>2
    <3>2. p \in Starts(u)
      BY <1>1
    <3> QED BY <3>1, <3>2 DEF Begun
  <2>6. ASSUME NEW n \in 1 .. Cardinality(S)
        PROVE  WordAt(u, Nth(S, n)) = IF n < Cardinality(S) THEN WordAt(t, Nth(S, n))
                                      ELSE Longer(WordAt(t, Nth(S, n)), ch)
    <3>1. Nth(S, n) \in S /\ Rank(S, Nth(S, n)) = n
      BY NthIs DEF Listed
    <3>2. CASE n < Cardinality(S)
      <4>1. Rank(S, p) = Cardinality(S)
        BY <2>4 DEF At
      <4>2. Nth(S, n) # p
        BY <1>2, <3>1, <3>2, <4>1
      <4>3. Nth(S, n) \in 1 .. Len(t) + 1 /\ p - 1 \in Nth(S, n) .. Len(t)
        <5> HIDE DEF S
        <5>1. ASSUME NEW q \in S, q # p
              PROVE  q \in 1 .. Len(t) + 1 /\ p - 1 \in q .. Len(t)
          BY <1>1, <1>2, <2>2, <2>3, <5>1
        <5> QED BY <3>1, <4>2, <5>1
      <4>4. WordAt(u, Nth(S, n)) = WordAt(t, Nth(S, n))
        BY <2>2, <4>3, WordStays DEF u
      <4> QED BY <3>2, <4>4
    <3>3. CASE ~(n < Cardinality(S))
      <4>1. n = Cardinality(S)
        BY <1>2, <3>3
      <4>2. Nth(S, n) \in At(S, Cardinality(S))
        BY <3>1, <4>1 DEF At
      <4>3. Nth(S, n) = p
        BY <2>4, <4>2
      <4>4. p \in 1 .. Len(t) + 1
        BY <1>1, <2>2
      <4>5. WordAt(u, p) = Longer(WordAt(t, p), ch)
        BY <2>1, <4>4, WordGrows DEF u
      <4> QED BY <3>3, <4>3, <4>5
    <3> QED BY <3>2, <3>3
  <2> HIDE DEF S
  <2> QED BY <1>2, <1>4, <1>5, <2>5, <2>6 DEF u
<1> QED BY <1>6, <1>7

-----------------------------------------------------------------------------
(* What the automaton knows of the line at each of its states.             *)

\* The union and the flag of a parameter.
Records(prm) == \A i \in 1 .. MaxParam : prm[i] = [def |-> prm[i].def, val |-> prm[i].val]

\* The parameters of the text before the n-th are converted, the others absent.
Holds(prm, text, n) ==
    \A i \in 1 .. MaxParam :
        IF i < n
        THEN /\ StatusOf(Commands[Named(text)].types, i, Args(text)[i]) = "NORM"
             /\ prm[i] = [def |-> FALSE,
                          val |-> ValueOf(Commands[Named(text)].types, i, Args(text)[i])]
        ELSE prm[i].def = TRUE

\* A command without parameters has been called: the rest may be anything.
Escaped == Spaced(line) /\ TakesNone(line)

Mnemonic == ~Spaced(line) /\ data = WordAt(line, 1) /\ Holds(ar_prm, line, 1)

Between ==
    /\ Spaced(line) /\ line[Len(line)] = SPACE
    /\ index_cmd = Named(line) /\ status_cmd_param = "NORM"
    /\ Len(Args(line)) = index_param - 1 /\ Holds(ar_prm, line, index_param)

Within ==
    /\ Spaced(line) /\ line[Len(line)] # SPACE
    /\ index_cmd = Named(line)
    /\ Len(Args(line)) = index_param /\ data = Args(line)[index_param]
    /\ Holds(ar_prm, line, index_param)

ReadInv ==
    /\ Records(ar_prm) /\ Listed(line) /\ Begun(line)
    /\ \/ Escaped
       \/ /\ fsm_dat_prc = "PRC_CMD" => Mnemonic
          /\ fsm_dat_prc = "FIND_PRM" => Between
          /\ fsm_dat_prc = "PRC_PRM" => Within

\* HandlerSeesLine, of one line end.
Sees(text, ch, c) ==
    \/ TakesNone(text)
    \/ ~Runs(text, ch) /\ c = NoCall
    \/ /\ Runs(text, ch) /\ c.cmd = Named(text)
       /\ \A i \in 1 .. MaxParam :
            IF i <= Len(Args(text))
            THEN c.prm[i] = [def |-> FALSE,
                             val |-> ValueOf(Commands[Named(text)].types, i, Args(text)[i])]
            ELSE c.prm[i].def

LEMMA SeesNext ==
    ASSUME NEW ch, line \in Text, ch \in Chars, upto' = Append(line, ch), Sees(line, ch, call')
    PROVE  HandlerSeesLine'
<1>1. line \in Seq(Chars)
  BY DEF Text, Chars
<1>2. upto' # <<>> /\ Last(upto') = ch
  BY <1>1 DEF Last
<1>3. Front(upto') = line
  <2>1. Len(upto') = Len(line) + 1 /\ Len(line) \in Nat
    BY <1>1
  <2>2. SubSeq(Append(line, ch), 1, Len(line)) = line
    BY <1>1
  <2> QED BY <2>1, <2>2 DEF Front
<1> QED BY <1>2, <1>3 DEF Sees, HandlerSeesLine

LEMMA Quiet ==
    ASSUME NEW text, NEW ch, TakesNone(text) \/ ~Runs(text, ch)
    PROVE  Sees(text, ch, NoCall)
BY DEF Sees

LEMMA LetterRunsNothing ==
    ASSUME NEW text, NEW ch \in Letters
    PROVE  ~Runs(text, ch)
BY AlphabetAssumption DEF Runs, Enders, EOL, START

LEMMA SpaceNoEnder == SPACE \notin Enders /\ SPACE \notin Letters
BY AlphabetAssumption DEF Enders, EOL, START, SPACE

\* The empty line.
LEMMA Blank ==
    /\ <<>> \in Text /\ Listed(<<>>) /\ Begun(<<>>) /\ ~Spaced(<<>>) /\ WordAt(<<>>, 1) = <<>>
<1>1. <<>> \in Text /\ Len(<<>>) = 0 /\ ~Spaced(<<>>)
  BY DEF Text, Spaced
<1>2. Starts(<<>>) = {}
  BY <1>1, StartsNone
<1>3. Listed(<<>>)
  BY <1>2, FS_EmptySet DEF Listed
<1>4. WordAt(<<>>, Len(<<>>) + 1) = <<>>
  BY <1>1, NoWord
<1> QED BY <1>1, <1>3, <1>4 DEF Begun

LEMMA OpenReads ==
    ASSUME NEW prm, Records(prm), OpenLine(prm)
    PROVE  ReadInv'
<1>1. ASSUME NEW i \in 1 .. MaxParam
      PROVE  /\ ar_prm'[i] = [def |-> ar_prm'[i].def, val |-> ar_prm'[i].val]
             /\ ar_prm'[i].def = TRUE /\ ~(i < 1)
  <2>1. ar_prm'[i] = [prm[i] EXCEPT !.def = TRUE]
    BY DEF OpenLine
  <2>2. prm[i] = [def |-> prm[i].def, val |-> prm[i].val]
    BY DEF Records
  <2>3. ar_prm'[i] = [def |-> TRUE, val |-> prm[i].val]
    BY <2>1, <2>2
  <2>4. ar_prm'[i].def = TRUE /\ ar_prm'[i].val = prm[i].val
    BY <2>3
  <2> QED BY <2>3, <2>4
<1>2. Records(ar_prm')
  BY <1>1 DEF Records
<1>3. line' = <<>> /\ data' = <<>> /\ fsm_dat_prc' = "PRC_CMD"
  BY DEF OpenLine
<1>4. Holds(ar_prm', <<>>, 1)
  BY <1>1 DEF Holds
<1> QED BY <1>2, <1>3, <1>4, Blank DEF ReadInv, Mnemonic

LEMMA CloseReads ==
    ASSUME NEW ch, NEW status, NEW prm, NEW text, Records(prm), CloseLine(ch, status, prm, text)
    PROVE  ReadInv'
<1>1. CASE ch = START
  BY <1>1, OpenReads DEF CloseLine
<1>2. CASE ch # START
  BY <1>2, Blank DEF CloseLine, ReadInv
<1> QED BY <1>1, <1>2

\* The line goes on.
LEMMA LineGoesOn ==
    ASSUME ReadInv, line \in Text, NEW ch \in Letters \cup {SPACE}, line' = Append(line, ch)
    PROVE  /\ line' \in Text /\ Listed(line') /\ Begun(line')
           /\ Len(line') = Len(line) + 1 /\ line'[Len(line')] = ch
           /\ Spaced(line') <=> (Spaced(line) \/ ch = SPACE)
           /\ ch = SPACE \/ Spaced(line) => Named(line') = Named(line)
           /\ Escaped => Escaped'
<1>1. Listed(line) /\ Begun(line)
  BY DEF ReadInv
<1>2. Listed(line') /\ Begun(line')
  <2>1. CASE ch = SPACE
    BY <1>1, <2>1, ArgsSpace
  <2>2. CASE ch \in Letters /\ line # <<>> /\ line[Len(line)] = SPACE
    BY <1>1, <2>2, ArgsMore
  <2>3. CASE ch \in Letters /\ (line = <<>> \/ line[Len(line)] # SPACE)
    BY <1>1, <2>3, ArgsLonger
  <2> QED BY <2>1, <2>2, <2>3
<1>3. /\ line' \in Text /\ Len(line') = Len(line) + 1 /\ line'[Len(line')] = ch
      /\ Spaced(line') <=> (Spaced(line) \/ ch = SPACE)
  BY Grown
<1>4. ASSUME ch = SPACE \/ Spaced(line)
      PROVE  Named(line') = Named(line)
  <2>1. 1 \in 1 .. Len(line) + 1 /\ DOMAIN line = 1 .. Len(line)
    BY DEF Text
  <2>2. ch = SPACE \/ \E j \in 1 .. Len(line) : line[j] = SPACE
    BY <1>4, <2>1 DEF Spaced
  <2>3. WordAt(line', 1) = WordAt(line, 1)
    BY <2>1, <2>2, WordStays
  <2> QED BY <2>3 DEF Named
<1>5. Escaped => Escaped'
  BY <1>3, <1>4 DEF Escaped, TakesNone
<1> QED BY <1>2, <1>3, <1>4, <1>5

\* The part of IInv the steps need.
LEMMA Facts ==
    ASSUME IInv
    PROVE  /\ line \in Text /\ data \in Seq(Letters) /\ index_param \in 1 .. MaxParam
           /\ fsm_dat_prc \in {"FIND_PRM", "PRC_PRM"} => index_cmd # NotFound
           /\ DOMAIN ar_prm = 1 .. MaxParam /\ MaxParam \in Nat /\ MaxParam >= 1
BY LimitsAssumption DEF IInv, TypeOK, Text

\* The parameters that are held stay so while their words do.
LEMMA HoldsStays ==
    ASSUME NEW prm, NEW a, NEW b, NEW n \in Nat, Holds(prm, a, n), Named(b) = Named(a),
           \A i \in 1 .. n - 1 : Args(b)[i] = Args(a)[i]
    PROVE  Holds(prm, b, n)
<1> SUFFICES ASSUME NEW i \in 1 .. MaxParam
             PROVE  IF i < n
                    THEN /\ StatusOf(Commands[Named(b)].types, i, Args(b)[i]) = "NORM"
                         /\ prm[i] = [def |-> FALSE,
                                      val |-> ValueOf(Commands[Named(b)].types, i, Args(b)[i])]
                    ELSE prm[i].def = TRUE
  BY DEF Holds
<1>1. i < n => i \in 1 .. n - 1
  OBVIOUS
<1>2. i < n => Args(b)[i] = Args(a)[i]
  BY <1>1
<1> QED BY <1>2 DEF Holds

LEMMA NoneHeld ==
    ASSUME NEW prm, NEW a, NEW b, Holds(prm, a, 1)
    PROVE  Holds(prm, b, 1) /\ \A i \in 1 .. MaxParam : prm[i].def = TRUE
<1>1. \A i \in 1 .. MaxParam : ~(i < 1)
  OBVIOUS
<1> QED BY <1>1 DEF Holds

\* A line ends with the mnemonic, or with n - 1 parameters that were good.
LEMMA CallSees ==
    ASSUME NEW ch \in Chars, line \in Text, NEW prm, NEW n \in 1 .. MaxParam + 1,
           Named(line) # NotFound, Len(Args(line)) = n - 1, Holds(prm, line, n),
           ch \in Enders \/ (ch = SPACE /\ n - 1 = MaxParam /\ line[Len(line)] # SPACE)
    PROVE  Sees(line, ch, [cmd |-> Named(line), prm |-> prm])
<1>1. /\ DOMAIN Args(line) = 1 .. n - 1 /\ MaxParam \in Nat
      /\ n \in Nat /\ n >= 1
  BY ArgsAre, LimitsAssumption
<1>2. \A i \in 1 .. n - 1 : StatusOf(Commands[Named(line)].types, i, Args(line)[i]) = "NORM"
  <2> SUFFICES ASSUME NEW i \in 1 .. n - 1
               PROVE  StatusOf(Commands[Named(line)].types, i, Args(line)[i]) = "NORM"
    OBVIOUS
  <2>1. i \in 1 .. MaxParam /\ i < n
    BY <1>1
  <2> QED BY <2>1 DEF Holds
<1>3. Runs(line, ch)
  BY <1>1, <1>2 DEF Runs, Last
<1>4. ASSUME NEW i \in 1 .. MaxParam
      PROVE  IF i <= Len(Args(line))
             THEN prm[i] = [def |-> FALSE,
                            val |-> ValueOf(Commands[Named(line)].types, i, Args(line)[i])]
             ELSE prm[i].def
  <2>1. i <= Len(Args(line)) <=> i < n
    BY <1>1
  <2> QED BY <2>1 DEF Holds
<1> QED BY <1>3, <1>4 DEF Sees

\* A parameter that does not convert keeps the command from running.
LEMMA BadRunsNothing ==
    ASSUME NEW ch, line \in Text, NEW n \in 1 .. Len(Args(line)),
           StatusOf(Commands[Named(line)].types, n, Args(line)[n]) # "NORM"
    PROVE  ~Runs(line, ch)
<1>1. n \in DOMAIN Args(line)
  BY ArgsAre
<1> QED BY <1>1 DEF Runs

\* The value of the parameter that has just ended.
LEMMA ConvertedRecords ==
    ASSUME IInv, Records(ar_prm)
    PROVE  Records(Converted(index_param))
<1> DEFINE val == IF StatusOf(Commands[index_cmd].types, index_param, data) = "NORM"
                  THEN ValueOf(Commands[index_cmd].types, index_param, data)
                  ELSE ar_prm[index_param].val
<1>1. Converted(index_param) = [ar_prm EXCEPT ![index_param] = [def |-> FALSE, val |-> val]]
  BY DEF Converted
<1> HIDE DEF val
<1>2. ASSUME NEW i \in 1 .. MaxParam
      PROVE  \/ Converted(index_param)[i] = ar_prm[i]
             \/ Converted(index_param)[i] = [def |-> FALSE, val |-> val]
  BY <1>1, <1>2, Facts
<1>3. ASSUME NEW i \in 1 .. MaxParam,
             Converted(index_param)[i] = [def |-> FALSE, val |-> val]
      PROVE  Converted(index_param)[i] = [def |-> Converted(index_param)[i].def,
                                          val |-> Converted(index_param)[i].val]
  BY <1>3
<1>4. ASSUME NEW i \in 1 .. MaxParam, Converted(index_param)[i] = ar_prm[i]
      PROVE  Converted(index_param)[i] = [def |-> Converted(index_param)[i].def,
                                          val |-> Converted(index_param)[i].val]
  BY <1>4 DEF Records
<1> QED BY <1>2, <1>3, <1>4 DEF Records

LEMMA ConvertedHolds ==
    ASSUME IInv, Within, Parsed = "NORM"
    PROVE  Holds(Converted(index_param), line, index_param + 1)
<1> DEFINE n == index_param
           types == Commands[Named(line)].types
<1>1. /\ n \in 1 .. MaxParam /\ MaxParam \in Nat /\ DOMAIN ar_prm = 1 .. MaxParam
      /\ index_cmd = Named(line) /\ data = Args(line)[n]
  BY Facts DEF Within
<1>2. Converted(n) = [ar_prm EXCEPT ![n] =
         [def |-> FALSE,
          val |-> IF StatusOf(types, n, data) = "NORM" THEN ValueOf(types, n, data) ELSE ar_prm[n].val]]
  BY <1>1 DEF Converted
<1>3. StatusOf(types, n, Args(line)[n]) = "NORM"
  BY <1>1 DEF Parsed
<1>4. Converted(n)[n] = [def |-> FALSE, val |-> ValueOf(types, n, Args(line)[n])]
  BY <1>1, <1>2, <1>3
<1>5. \A i \in 1 .. MaxParam : i # n => Converted(n)[i] = ar_prm[i]
  BY <1>1, <1>2
<1>6. ASSUME NEW i \in 1 .. MaxParam
      PROVE  IF i < n + 1
             THEN /\ StatusOf(types, i, Args(line)[i]) = "NORM"
                  /\ Converted(n)[i] = [def |-> FALSE, val |-> ValueOf(types, i, Args(line)[i])]
             ELSE Converted(n)[i].def = TRUE
  <2>1. CASE i = n
    BY <1>1, <1>3, <1>4, <2>1
  <2>2. CASE i # n
    <3>1. i < n + 1 <=> i < n
      BY <1>1, <2>2
    <3>2. Holds(ar_prm, line, n)
      BY DEF Within
    <3>3. IF i < n
          THEN /\ StatusOf(types, i, Args(line)[i]) = "NORM"
               /\ ar_prm[i] = [def |-> FALSE, val |-> ValueOf(types, i, Args(line)[i])]
          ELSE ar_prm[i].def = TRUE
      BY <3>2 DEF Holds
    <3> QED BY <1>5, <2>2, <3>1, <3>3
  <2> QED BY <2>1, <2>2
<1> QED BY <1>6 DEF Holds
-----------------------------------------------------------------------------
(* One lemma per arm: what it knows of the line, and what its call sees.   *)

LEMMA FindCmdReads ==
    ASSUME IInv, ReadInv, NEW ch \in Chars, FindCmd(ch)
    PROVE  ReadInv' /\ HandlerSeesLine'
<1>1. HandlerSeesLine'
  BY DEF FindCmd, HandlerSeesLine
<1>2. CASE ch = START
  BY <1>1, <1>2, OpenReads DEF FindCmd, ReadInv
<1>3. CASE ch # START
  <2>1. UNCHANGED <<fsm_dat_prc, line, ar_prm>> /\ fsm_dat_prc = "FIND_CMD"
    BY <1>3 DEF FindCmd
  <2> QED BY <1>1, <2>1 DEF ReadInv
<1> QED BY <1>2, <1>3

LEMMA CmdLetterReads ==
    ASSUME IInv, ReadInv, NEW ch \in Chars, CmdLetter(ch)
    PROVE  ReadInv' /\ HandlerSeesLine'
<1>1. /\ line \in Text /\ ch \in Letters /\ line' = Append(line, ch) /\ upto' = Append(line, ch)
      /\ data' = Longer(data, ch) /\ call' = NoCall
      /\ fsm_dat_prc = "PRC_CMD" /\ UNCHANGED <<fsm_dat_prc, ar_prm>>
  BY Facts DEF CmdLetter, Extend, Stored, Longer
<1>2. HandlerSeesLine'
  BY <1>1, LetterRunsNothing, Quiet, SeesNext
<1>3. /\ Listed(line') /\ Begun(line') /\ (Escaped => Escaped')
      /\ Spaced(line') <=> (Spaced(line) \/ ch = SPACE)
  BY <1>1, LineGoesOn
<1>4. CASE Escaped
  BY <1>1, <1>2, <1>3, <1>4 DEF ReadInv
<1>5. CASE Mnemonic
  <2>1. ch # SPACE
    BY <1>1, SpaceNoEnder
  <2>2. \A j \in 1 .. Len(line) : line[j] # SPACE
    BY <1>1, <1>5 DEF Mnemonic, Spaced, Text
  <2>3. 1 \in 1 .. Len(line) + 1
    BY <1>1 DEF Text
  <2>4. WordAt(line', 1) = Longer(WordAt(line, 1), ch)
    BY <1>1, <2>2, <2>3, WordGrows
  <2>5. Holds(ar_prm, line', 1)
    BY <1>5, NoneHeld DEF Mnemonic
  <2>6. Mnemonic'
    BY <1>1, <1>3, <1>5, <2>1, <2>4, <2>5 DEF Mnemonic
  <2> QED BY <1>1, <1>2, <1>3, <2>6 DEF ReadInv
<1> QED BY <1>1, <1>4, <1>5 DEF ReadInv

\* What is known at the end of a mnemonic.
LEMMA AtMnemonic ==
    ASSUME IInv, ReadInv, fsm_dat_prc = "PRC_CMD", ~Escaped, NEW found, LookUp(found)
    PROVE  /\ Named(line) = found /\ index_cmd' = found
           /\ Args(line) = <<>> /\ Len(Args(line)) = 0 /\ Holds(ar_prm, line, 1)
<1>1. Mnemonic
  BY DEF ReadInv
<1>2. Args(line) = <<>>
  BY <1>1, Facts, StartsNone DEF Mnemonic
<1>3. Len(<<>>) = 0
  OBVIOUS
<1> QED BY <1>1, <1>2, <1>3 DEF Mnemonic, Named, LookUp

LEMMA CmdEndReads ==
    ASSUME IInv, ReadInv, NEW ch \in Chars, CmdEnd(ch)
    PROVE  ReadInv' /\ HandlerSeesLine'
<1>1. PICK found \in 0 .. Len(Commands) :
        /\ LookUp(found)
        /\ LET status == IF found = NotFound THEN "INCORRECT_CMD" ELSE "NORM"
           IN  /\ command_processing(found, status, ar_prm)
               /\ CloseLine(ch, status, ar_prm, data)
  BY DEF CmdEnd
<1>2. ReadInv'
  BY <1>1, CloseReads DEF ReadInv
<1>3. /\ line \in Text /\ ch \in Enders /\ upto' = Append(line, ch)
      /\ fsm_dat_prc = "PRC_CMD" /\ MaxParam \in Nat
  BY Facts DEF CmdEnd
<1>4. CASE TakesNone(line)
  <2>1. Sees(line, ch, call')
    BY <1>4 DEF Sees
  <2> QED BY <1>2, <1>3, <2>1, SeesNext
<1>5. CASE ~TakesNone(line)
  <2>1. /\ Named(line) = found /\ Args(line) = <<>> /\ Len(Args(line)) = 0
        /\ Holds(ar_prm, line, 1)
    BY <1>1, <1>3, <1>5, AtMnemonic DEF Escaped
  <2>2. CASE found = NotFound
    <3>1. call' = NoCall
      BY <1>1, <2>2 DEF command_processing
    <3>2. ~Runs(line, ch)
      BY <2>1, <2>2 DEF Runs
    <3> QED BY <1>2, <1>3, <3>1, <3>2, Quiet, SeesNext
  <2>3. CASE found # NotFound
    <3>1. call' = [cmd |-> Named(line), prm |-> ar_prm]
      BY <1>1, <2>1, <2>3 DEF command_processing
    <3>2. 1 \in 1 .. MaxParam + 1 /\ Len(Args(line)) = 1 - 1
      BY <1>3, <2>1
    <3>3. Sees(line, ch, [cmd |-> Named(line), prm |-> ar_prm])
      BY <1>3, <2>1, <2>3, <3>2, CallSees
    <3> QED BY <1>2, <1>3, <3>1, <3>3, SeesNext
  <2> QED BY <2>2, <2>3
<1> QED BY <1>4, <1>5

LEMMA CmdSpaceParamsReads ==
    ASSUME IInv, ReadInv, NEW ch \in Chars, CmdSpaceParams(ch)
    PROVE  ReadInv' /\ HandlerSeesLine'
<1>1. PICK found \in 1 .. Len(Commands) : LookUp(found)
  BY DEF CmdSpaceParams
<1>2. /\ line \in Text /\ ch = SPACE /\ line' = Append(line, ch) /\ upto' = Append(line, ch)
      /\ call' = NoCall /\ fsm_dat_prc = "PRC_CMD" /\ fsm_dat_prc' = "FIND_PRM"
      /\ index_param' = 1 /\ status_cmd_param' = "NORM" /\ ar_prm' = ar_prm
      /\ MaxParam \in Nat /\ MaxParam >= 1
  BY Facts DEF CmdSpaceParams, Extend
<1>3. /\ Listed(line') /\ Begun(line') /\ (Escaped => Escaped') /\ Spaced(line')
      /\ line'[Len(line')] = SPACE /\ Named(line') = Named(line)
  BY <1>2, LineGoesOn
<1>4. CASE Escaped
  <2>1. Sees(line, ch, call')
    BY <1>4 DEF Sees, Escaped
  <2> QED BY <1>2, <1>3, <1>4, <2>1, SeesNext DEF ReadInv
<1>5. CASE ~Escaped
  <2>1. /\ Named(line) = found /\ index_cmd' = found /\ Len(Args(line)) = 0
        /\ Holds(ar_prm, line, 1)
    BY <1>1, <1>2, <1>5, AtMnemonic
  <2>2. ~Runs(line, ch)
    BY <1>2, <2>1, SpaceNoEnder DEF Runs
  <2>3. HandlerSeesLine'
    BY <1>2, <2>2, Quiet, SeesNext
  <2>4. Args(line') = Args(line)
    BY <1>2, ArgsSpace DEF ReadInv
  <2>5. Holds(ar_prm, line', 1)
    BY <2>1, NoneHeld
  <2>6. Between'
    BY <1>2, <1>3, <2>1, <2>4, <2>5 DEF Between
  <2> QED BY <1>2, <1>3, <2>3, <2>6 DEF ReadInv
<1> QED BY <1>4, <1>5

LEMMA CmdSpaceNoParamsReads ==
    ASSUME IInv, ReadInv, NEW ch \in Chars, CmdSpaceNoParams(ch)
    PROVE  ReadInv' /\ HandlerSeesLine'
<1>1. PICK found \in 1 .. Len(Commands) : LookUp(found) /\ Commands[found].types = <<>>
  BY DEF CmdSpaceNoParams
<1>2. /\ line \in Text /\ ch = SPACE /\ line' = Append(line, ch) /\ upto' = Append(line, ch)
      /\ fsm_dat_prc = "PRC_CMD" /\ ar_prm' = ar_prm
  BY Facts DEF CmdSpaceNoParams, Extend
<1>3. /\ Listed(line') /\ Begun(line') /\ Spaced(line') /\ Named(line') = Named(line)
  BY <1>2, LineGoesOn
<1>4. TakesNone(line)
  <2>1. CASE Escaped
    BY <2>1 DEF Escaped
  <2>2. CASE ~Escaped
    <3>1. Named(line) = found /\ found # NotFound
      BY <1>1, <1>2, <2>2, AtMnemonic, TableAssumption DEF NotFound
    <3> QED BY <1>1, <3>1 DEF TakesNone
  <2> QED BY <2>1, <2>2
<1>5. Escaped'
  BY <1>3, <1>4 DEF Escaped, TakesNone
<1>6. Sees(line, ch, call')
  BY <1>4 DEF Sees
<1> QED BY <1>2, <1>3, <1>5, <1>6, SeesNext DEF ReadInv

LEMMA CmdSpaceUnknownReads ==
    ASSUME IInv, ReadInv, NEW ch \in Chars, CmdSpaceUnknown(ch)
    PROVE  ReadInv' /\ HandlerSeesLine'
<1>1. /\ line \in Text /\ LookUp(NotFound) /\ upto' = Append(line, ch) /\ call' = NoCall
      /\ fsm_dat_prc = "PRC_CMD"
  BY Facts DEF CmdSpaceUnknown, command_processing
<1>2. ReadInv'
  BY CloseReads DEF CmdSpaceUnknown, ReadInv
<1>3. TakesNone(line) \/ ~Runs(line, ch)
  <2>1. CASE Escaped
    BY <2>1 DEF Escaped
  <2>2. CASE ~Escaped
    BY <1>1, <2>2, AtMnemonic DEF Runs
  <2> QED BY <2>1, <2>2
<1> QED BY <1>1, <1>2, <1>3, Quiet, SeesNext

LEMMA PrmSkipReads ==
    ASSUME IInv, ReadInv, NEW ch \in Chars, PrmSkip(ch)
    PROVE  ReadInv' /\ HandlerSeesLine'
<1>1. /\ line \in Text /\ ch = SPACE /\ line' = Append(line, ch) /\ upto' = Append(line, ch)
      /\ call' = NoCall /\ fsm_dat_prc = "FIND_PRM"
      /\ UNCHANGED <<fsm_dat_prc, index_param, index_cmd, status_cmd_param, ar_prm>>
  BY Facts DEF PrmSkip, Extend
<1>2. /\ Listed(line') /\ Begun(line') /\ (Escaped => Escaped') /\ Spaced(line')
      /\ line'[Len(line')] = SPACE /\ Named(line') = Named(line)
  BY <1>1, LineGoesOn
<1>3. CASE Escaped
  <2>1. Sees(line, ch, call')
    BY <1>3 DEF Sees, Escaped
  <2> QED BY <1>1, <1>2, <1>3, <2>1, SeesNext DEF ReadInv
<1>4. CASE Between
  <2>1. ~Runs(line, ch)
    BY <1>1, <1>4, SpaceNoEnder DEF Runs, Between, Last
  <2>2. HandlerSeesLine'
    BY <1>1, <2>1, Quiet, SeesNext
  <2>3. Args(line') = Args(line)
    BY <1>1, ArgsSpace DEF ReadInv
  <2>4. index_param \in Nat
    BY Facts
  <2>5. Holds(ar_prm, line', index_param)
    BY <1>2, <1>4, <2>3, <2>4, HoldsStays DEF Between
  <2>6. Between'
    BY <1>1, <1>2, <1>4, <2>3, <2>5 DEF Between
  <2> QED BY <1>1, <1>2, <2>2, <2>6 DEF ReadInv
<1> QED BY <1>1, <1>3, <1>4 DEF ReadInv

LEMMA PrmFirstReads ==
    ASSUME IInv, ReadInv, NEW ch \in Chars, PrmFirst(ch)
    PROVE  ReadInv' /\ HandlerSeesLine'
<1>1. /\ line \in Text /\ ch \in Letters /\ line' = Append(line, ch) /\ upto' = Append(line, ch)
      /\ data' = <<ch>> /\ call' = NoCall
      /\ fsm_dat_prc = "FIND_PRM" /\ fsm_dat_prc' = "PRC_PRM"
      /\ UNCHANGED <<index_param, index_cmd, ar_prm>>
  BY Facts DEF PrmFirst, Extend
<1>2. HandlerSeesLine'
  BY <1>1, LetterRunsNothing, Quiet, SeesNext
<1>3. /\ Listed(line') /\ Begun(line') /\ (Escaped => Escaped')
      /\ Spaced(line') <=> (Spaced(line) \/ ch = SPACE)
      /\ line'[Len(line')] = ch /\ (Spaced(line) => Named(line') = Named(line))
  BY <1>1, LineGoesOn
<1>4. CASE Escaped
  BY <1>1, <1>2, <1>3, <1>4 DEF ReadInv
<1>5. CASE Between
  <2>1. ch # SPACE /\ index_param \in Nat /\ index_param >= 1
    BY <1>1, SpaceNoEnder, Facts
  <2>2. line # <<>> /\ line[Len(line)] = SPACE
    BY <1>5, Blank DEF Between
  <2>3. /\ Len(Args(line')) = Len(Args(line)) + 1
        /\ \A n \in 1 .. Len(Args(line)) : Args(line')[n] = Args(line)[n]
        /\ Args(line')[Len(Args(line)) + 1] = <<ch>>
    BY <1>1, <2>2, ArgsMore DEF ReadInv
  <2>4. Len(Args(line)) = index_param - 1
    BY <1>5 DEF Between
  <2>5. Len(Args(line')) = index_param /\ Args(line')[index_param] = <<ch>>
    BY <2>1, <2>3, <2>4
  <2>6. Holds(ar_prm, line', index_param)
    BY <1>3, <1>5, <2>1, <2>3, <2>4, HoldsStays DEF Between
  <2>7. Within'
    BY <1>1, <1>3, <1>5, <2>1, <2>5, <2>6 DEF Between, Within
  <2> QED BY <1>1, <1>2, <1>3, <2>7 DEF ReadInv
<1> QED BY <1>1, <1>4, <1>5 DEF ReadInv

LEMMA PrmNoMoreReads ==
    ASSUME IInv, ReadInv, NEW ch \in Chars, PrmNoMore(ch)
    PROVE  ReadInv' /\ HandlerSeesLine'
<1>1. /\ line \in Text /\ ch \in Enders /\ upto' = Append(line, ch)
      /\ fsm_dat_prc = "FIND_PRM" /\ command_processing(index_cmd, status_cmd_param, ar_prm)
      /\ index_cmd # NotFound
  BY Facts DEF PrmNoMore
<1>2. ReadInv'
  BY CloseReads DEF PrmNoMore, ReadInv
<1>3. CASE Escaped
  <2>1. Sees(line, ch, call')
    BY <1>3 DEF Sees, Escaped
  <2> QED BY <1>1, <1>2, <2>1, SeesNext
<1>4. CASE Between
  <2>1. call' = [cmd |-> Named(line), prm |-> ar_prm]
    BY <1>1, <1>4 DEF Between, command_processing
  <2>2. index_param \in 1 .. MaxParam + 1
    BY Facts
  <2>3. Sees(line, ch, call')
    BY <1>1, <1>4, <2>1, <2>2, CallSees DEF Between
  <2> QED BY <1>1, <1>2, <2>3, SeesNext
<1> QED BY <1>1, <1>3, <1>4 DEF ReadInv

LEMMA PrmLetterReads ==
    ASSUME IInv, ReadInv, NEW ch \in Chars, PrmLetter(ch)
    PROVE  ReadInv' /\ HandlerSeesLine'
<1>1. /\ line \in Text /\ ch \in Letters /\ line' = Append(line, ch) /\ upto' = Append(line, ch)
      /\ data' = Longer(data, ch) /\ call' = NoCall
      /\ fsm_dat_prc = "PRC_PRM" /\ UNCHANGED <<fsm_dat_prc, index_param, index_cmd, ar_prm>>
  BY Facts DEF PrmLetter, Extend, Stored, Longer
<1>2. HandlerSeesLine'
  BY <1>1, LetterRunsNothing, Quiet, SeesNext
<1>3. /\ Listed(line') /\ Begun(line') /\ (Escaped => Escaped')
      /\ Spaced(line') <=> (Spaced(line) \/ ch = SPACE)
      /\ line'[Len(line')] = ch /\ (Spaced(line) => Named(line') = Named(line))
  BY <1>1, LineGoesOn
<1>4. CASE Escaped
  BY <1>1, <1>2, <1>3, <1>4 DEF ReadInv
<1>5. CASE Within
  <2>1. ch # SPACE /\ index_param \in Nat /\ index_param >= 1
    BY <1>1, SpaceNoEnder, Facts
  <2>2. Len(Args(line)) = index_param /\ line[Len(line)] # SPACE
    BY <1>5 DEF Within
  <2>3. /\ Len(Args(line')) = index_param
        /\ \A n \in 1 .. index_param :
             Args(line')[n] = IF n < index_param THEN Args(line)[n] ELSE Longer(Args(line)[n], ch)
    BY <1>1, <2>2, ArgsLonger DEF ReadInv
  <2>4. Args(line')[index_param] = Longer(Args(line)[index_param], ch)
    BY <2>1, <2>3
  <2>5. \A n \in 1 .. index_param - 1 : Args(line')[n] = Args(line)[n]
    BY <2>1, <2>3
  <2>6. Holds(ar_prm, line', index_param)
    BY <1>3, <1>5, <2>1, <2>5, HoldsStays DEF Within
  <2>7. Within'
    BY <1>1, <1>3, <1>5, <2>1, <2>3, <2>4, <2>6 DEF Within
  <2> QED BY <1>1, <1>2, <1>3, <2>7 DEF ReadInv
<1> QED BY <1>1, <1>4, <1>5 DEF ReadInv

LEMMA PrmNextReads ==
    ASSUME IInv, ReadInv, NEW ch \in Chars, PrmNext(ch)
    PROVE  ReadInv' /\ HandlerSeesLine'
<1>1. /\ line \in Text /\ ch = SPACE /\ line' = Append(line, ch) /\ upto' = Append(line, ch)
      /\ call' = NoCall /\ fsm_dat_prc = "PRC_PRM" /\ fsm_dat_prc' = "FIND_PRM"
      /\ Parsed = "NORM" /\ ar_prm' = Converted(index_param) /\ status_cmd_param' = "NORM"
      /\ index_param' = index_param + 1 /\ index_cmd' = index_cmd
      /\ index_param \in Nat /\ index_param < MaxParam
  BY Facts DEF PrmNext, Extend
<1>2. /\ Listed(line') /\ Begun(line') /\ (Escaped => Escaped') /\ Spaced(line')
      /\ line'[Len(line')] = SPACE /\ Named(line') = Named(line)
  BY <1>1, LineGoesOn
<1>3. Records(ar_prm')
  BY <1>1, ConvertedRecords DEF ReadInv
<1>4. CASE Escaped
  <2>1. Sees(line, ch, call')
    BY <1>4 DEF Sees, Escaped
  <2> QED BY <1>1, <1>2, <1>3, <1>4, <2>1, SeesNext DEF ReadInv
<1>5. CASE Within
  <2>1. Len(Args(line)) = index_param /\ index_cmd = Named(line)
    BY <1>5 DEF Within
  <2>2. ~Runs(line, ch)
    BY <1>1, <2>1, SpaceNoEnder DEF Runs
  <2>3. HandlerSeesLine'
    BY <1>1, <2>2, Quiet, SeesNext
  <2>4. Args(line') = Args(line)
    BY <1>1, ArgsSpace DEF ReadInv
  <2>5. Holds(ar_prm', line, index_param + 1)
    BY <1>1, <1>5, ConvertedHolds
  <2>6. Holds(ar_prm', line', index_param + 1)
    BY <1>1, <1>2, <2>4, <2>5, HoldsStays
  <2>7. Len(Args(line')) = (index_param + 1) - 1
    BY <1>1, <2>1, <2>4
  <2>8. Between'
    BY <1>1, <1>2, <2>1, <2>6, <2>7 DEF Between
  <2> QED BY <1>1, <1>2, <1>3, <2>3, <2>8 DEF ReadInv
<1> QED BY <1>1, <1>4, <1>5 DEF ReadInv

LEMMA PrmEndReads ==
    ASSUME IInv, ReadInv, NEW ch \in Chars, PrmEnd(ch)
    PROVE  ReadInv' /\ HandlerSeesLine'
<1>1. /\ line \in Text /\ upto' = Append(line, ch) /\ fsm_dat_prc = "PRC_PRM"
      /\ index_cmd # NotFound /\ index_param \in 1 .. MaxParam /\ MaxParam \in Nat
      /\ command_processing(index_cmd, Parsed, Converted(index_param))
      /\ ch \in Enders \/ (ch = SPACE /\ (index_param = MaxParam \/ Parsed # "NORM"))
  BY Facts DEF PrmEnd
<1>2. ReadInv'
  BY ConvertedRecords, CloseReads DEF PrmEnd, ReadInv
<1>3. CASE Escaped
  <2>1. Sees(line, ch, call')
    BY <1>3 DEF Sees, Escaped
  <2> QED BY <1>1, <1>2, <2>1, SeesNext
<1>4. CASE Within
  <2>1. /\ Len(Args(line)) = index_param /\ index_cmd = Named(line)
        /\ data = Args(line)[index_param] /\ line[Len(line)] # SPACE
    BY <1>4 DEF Within
  <2>2. CASE Parsed = "NORM"
    <3>1. call' = [cmd |-> Named(line), prm |-> Converted(index_param)]
      BY <1>1, <2>1, <2>2 DEF command_processing
    <3>2. Holds(Converted(index_param), line, index_param + 1)
      BY <1>4, <2>2, ConvertedHolds
    <3>3. /\ index_param + 1 \in 1 .. MaxParam + 1
          /\ Len(Args(line)) = (index_param + 1) - 1
          /\ ch \in Enders \/ (ch = SPACE /\ (index_param + 1) - 1 = MaxParam /\ line[Len(line)] # SPACE)
      BY <1>1, <2>1, <2>2
    <3>4. Sees(line, ch, [cmd |-> Named(line), prm |-> Converted(index_param)])
      BY <1>1, <2>1, <3>2, <3>3, CallSees
    <3> QED BY <1>1, <1>2, <3>1, <3>4, SeesNext
  <2>3. CASE Parsed # "NORM"
    <3>1. call' = NoCall
      BY <1>1, <2>3 DEF command_processing
    <3>2. StatusOf(Commands[Named(line)].types, index_param, Args(line)[index_param]) # "NORM"
      BY <2>1, <2>3 DEF Parsed
    <3>3. index_param \in 1 .. Len(Args(line))
      BY <1>1, <2>1
    <3>4. ~Runs(line, ch)
      BY <1>1, <3>2, <3>3, BadRunsNothing
    <3> QED BY <1>1, <1>2, <3>1, <3>4, Quiet, SeesNext
  <2> QED BY <2>2, <2>3
<1> QED BY <1>1, <1>3, <1>4 DEF ReadInv

LEMMA InitReads == Init => ReadInv /\ HandlerSeesLine
<1> SUFFICES ASSUME Init PROVE ReadInv /\ HandlerSeesLine
  OBVIOUS
<1>1. /\ line = <<>> /\ upto = <<>> /\ call = NoCall /\ fsm_dat_prc = "FIND_CMD"
      /\ ar_prm = [i \in 1 .. MaxParam |-> [def |-> FALSE, val |-> NoValue]]
  BY DEF Init
<1>2. Records(ar_prm)
  <2> SUFFICES ASSUME NEW i \in 1 .. MaxParam
               PROVE  ar_prm[i] = [def |-> ar_prm[i].def, val |-> ar_prm[i].val]
    BY DEF Records
  <2>1. ar_prm[i] = [def |-> FALSE, val |-> NoValue]
    BY <1>1
  <2> QED BY <2>1
<1> QED BY <1>1, <1>2, Blank DEF ReadInv, HandlerSeesLine

LEMMA StepReads ==
    ASSUME IInv, ReadInv, HandlerSeesLine, [Next]_vars
    PROVE  ReadInv' /\ HandlerSeesLine'
<1>1. CASE UNCHANGED vars
  <2>1. ReadInv'
    BY <1>1 DEF vars, ReadInv, Escaped, Mnemonic, Between, Within
  <2>2. HandlerSeesLine'
    BY <1>1 DEF vars, HandlerSeesLine
  <2> QED BY <2>1, <2>2
<1>2. CASE Next
  BY <1>2, FindCmdReads, CmdLetterReads, CmdEndReads, CmdSpaceParamsReads,
     CmdSpaceNoParamsReads, CmdSpaceUnknownReads, PrmSkipReads, PrmFirstReads,
     PrmNoMoreReads, PrmLetterReads, PrmNextReads, PrmEndReads DEF Next
<1> QED BY <1>1, <1>2

\* A handler runs exactly when the line, read as a whole, asks for it, and gets
\* what was typed on that line and nothing else, for every table, alphabet and
\* size (terminal_data_processing, preset_cmd, proc_parametr).
THEOREM HandlersSeeTheLine == Spec => []HandlerSeesLine
<1>1. Init => IInv /\ ReadInv /\ HandlerSeesLine
  BY InitInv, InitReads
<1>2. IInv /\ ReadInv /\ HandlerSeesLine /\ [Next]_vars => (IInv /\ ReadInv /\ HandlerSeesLine)'
  BY StepInv, StepReads
<1> QED BY <1>1, <1>2, PTL DEF Spec
=============================================================================
