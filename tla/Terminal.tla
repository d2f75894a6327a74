------------------------------ MODULE Terminal ------------------------------
(***************************************************************************)
(* The command terminal (Utilities/cmd_trmnl/cmd_process.c): a character   *)
(* automaton that collects a command mnemonic and up to MAX_PARAM typed    *)
(* parameters from the bytes of the debug UART and calls the handler of    *)
(* the command.  One action is one arm of terminal_data_processing for one *)
(* class of characters.  index_dat and data_prm_cmd[] together are the     *)
(* sequence "data": the characters below the write index.                  *)
(***************************************************************************)
EXTENDS Integers, SequencesExt

CONSTANTS
    Commands,   \* array_cmd[0..max_num_cmd-1]: [name, types] records
    Letters,    \* the characters that neither separate nor end a word
    DigitOf,    \* the letters that are digits, with their values
    MaxParam,   \* MAX_PARAM (5)
    MaxData,    \* MAX_SIZE_DATA (30)
    WordMax,    \* ULONG_MAX, where strtoul of the C library saturates
    MaxLine     \* bound of the model: characters of a line before its end

SPACE == " "
START == ">"
EOL == {"CR", "LF"}
Enders == EOL \cup {START}
Chars == Letters \cup Enders \cup {SPACE}

ASSUME LimitsAssumption == MaxParam \in Nat \ {0} /\ MaxData \in Nat \ {0, 1}
ASSUME AlphabetAssumption == Letters \cap (Enders \cup {SPACE}) = {}
                             /\ DOMAIN DigitOf \subseteq Letters
\* "types" stops at the first VR_NONE of cmd_type_parametr[MAX_PARAM].
ASSUME TableAssumption ==
    /\ Commands # <<>>
    /\ Commands \in Seq([name : Seq(Letters), types : Seq([kind : {"int", "char", "string"}, max : Nat])])
    /\ \A i \in DOMAIN Commands : Len(Commands[i].types) <= MaxParam

VARIABLES
    fsm_dat_prc, data, index_param, index_cmd, num_cmd_param,
    status_cmd_param,
    ar_prm,     \* ar_prm[i]: flag_def and the union; [num, txt] its two readings
    call,       \* the handler call of the last step, or NoCall
    line,       \* history: characters since the '>' that opened the line
    upto        \* history: the same including the last character read

vars == <<fsm_dat_prc, data, index_param, index_cmd, num_cmd_param,
          status_cmd_param, ar_prm, call, line, upto>>

States == {"FIND_CMD", "PRC_CMD", "FIND_PRM", "PRC_PRM"}
Statuses == {"NORM", "INCORRECT_PARAM", "OVERFLOW", "CMD_NOT_LOADED", "INCORRECT_CMD"}
NotFound == 0                     \* the 255 of scan_cmd
NoCall == [cmd |-> NotFound, prm |-> <<>>]
NoValue == [num |-> 0, txt |-> <<>>]

-----------------------------------------------------------------------------
(* The lookup and the conversions.                                         *)

\* scan_cmd: the first registered command with the name in data.
scan_cmd(text) ==
    SelectInSeq(Commands, LAMBDA c : c.name = text)

\* The digits sscanf("%lu") takes from the front of a word.
Digits(text) ==
    LET lengths == {k \in 0 .. Len(text) : \A j \in 1 .. k : text[j] \in DOMAIN DigitOf}
    IN  SubSeq(text, 1, CHOOSE k \in lengths : \A m \in lengths : m <= k)

Decimal(digits) == FoldLeft(LAMBDA v, d : 10 * v + DigitOf[d], 0, digits)

\* ... and the number it makes of them: strtoul stops at ULONG_MAX.
Scanned(text) == IF Decimal(Digits(text)) > WordMax THEN WordMax ELSE Decimal(Digits(text))

\* get_parametr_cmd on a word that is not empty: the status ...
StatusOf(types, i, text) ==
    IF i > Len(types) THEN "INCORRECT_PARAM"                       \* VR_NONE
    ELSE CASE types[i].kind = "int" /\ Digits(text) = <<>> -> "INCORRECT_PARAM"
           [] types[i].kind = "int" /\ Scanned(text) > types[i].max -> "OVERFLOW"
           [] types[i].kind = "char" /\ Len(text) > 1 -> "OVERFLOW"
           [] OTHER -> "NORM"

\* ... and the value it leaves in the union when the status is STAT_NORM.
ValueOf(types, i, text) ==
    IF types[i].kind = "int" THEN [num |-> Scanned(text), txt |-> <<>>]
                             ELSE [num |-> 0, txt |-> text]

\* proc_parametr: flag_def is cleared first, the union written on success.
Converted(i) ==
    LET types == Commands[index_cmd].types
    IN  [ar_prm EXCEPT ![i] =
           [def |-> FALSE,
            val |-> IF StatusOf(types, i, data) = "NORM"
                    THEN ValueOf(types, i, data) ELSE @.val]]

\* Storing a character: at the last cell the index stays, and the cell is
\* overwritten by the terminating zero, so the character is lost.
Stored(ch) == IF Len(data) < MaxData - 1 THEN Append(data, ch) ELSE data

-----------------------------------------------------------------------------
Init ==
    /\ fsm_dat_prc = "FIND_CMD" /\ data = <<>> /\ index_param = 1
    /\ index_cmd = 1 /\ num_cmd_param = 0 /\ status_cmd_param = "NORM"
    /\ ar_prm = [i \in 1 .. MaxParam |-> [def |-> FALSE, val |-> NoValue]]
    /\ call = NoCall /\ line = <<>> /\ upto = <<>>

\* command_processing: only STAT_NORM calls the handler.
command_processing(cmd, status, prm) ==
    call' = IF status = "NORM" THEN [cmd |-> cmd, prm |-> prm] ELSE NoCall

\* Mutant of OpenLine: preset_cmd does not mark the parameters as absent.
OpenLineKeepsFlags(prm) ==
    /\ fsm_dat_prc' = "PRC_CMD"
    /\ status_cmd_param' = "CMD_NOT_LOADED"
    /\ ar_prm' = prm /\ data' = <<>> /\ line' = <<>>

\* preset_cmd and the switch to PRC_CMD after a '>': the flags are set, the
\* values of the last command stay in the unions.
OpenLine(prm) ==
    /\ fsm_dat_prc' = "PRC_CMD"
    /\ status_cmd_param' = "CMD_NOT_LOADED"
    /\ ar_prm' = [i \in 1 .. MaxParam |-> [prm[i] EXCEPT !.def = TRUE]]
    /\ data' = <<>>
    /\ line' = <<>>

\* A line that ended on ch: '>' opens the next one.
CloseLine(ch, status, prm, text) ==
    IF ch = START
    THEN OpenLine(prm)
    ELSE /\ fsm_dat_prc' = "FIND_CMD"
         /\ status_cmd_param' = status /\ ar_prm' = prm /\ data' = text /\ line' = <<>>

\* The line goes on: history only.
Extend(ch) ==
    /\ Len(line) < MaxLine
    /\ line' = Append(line, ch) /\ upto' = Append(line, ch)

\* FIND_CMD: everything before '>' is skipped.
FindCmd(ch) ==
    /\ fsm_dat_prc = "FIND_CMD"
    /\ call' = NoCall /\ upto' = <<>>
    /\ IF ch = START
       THEN OpenLine(ar_prm)
       ELSE UNCHANGED <<fsm_dat_prc, data, status_cmd_param, ar_prm, line>>
    /\ UNCHANGED <<index_param, index_cmd, num_cmd_param>>

\* PRC_CMD, a letter of the mnemonic.
CmdLetter(ch) ==
    /\ fsm_dat_prc = "PRC_CMD" /\ ch \in Letters
    /\ Extend(ch)
    /\ data' = Stored(ch) /\ call' = NoCall
    /\ UNCHANGED <<fsm_dat_prc, index_param, index_cmd, num_cmd_param,
                   status_cmd_param, ar_prm>>

\* The lookup both ends of a mnemonic begin with.
LookUp(found) ==
    /\ found = scan_cmd(data)
    /\ index_cmd' = found
    /\ num_cmd_param' = IF found = NotFound THEN 0 ELSE Len(Commands[found].types)

\* Mutant of CmdEnd: no check of index_cmd against 255, the status is what
\* an earlier word left.
CmdEndUnchecked(ch) ==
    /\ fsm_dat_prc = "PRC_CMD" /\ ch \in Enders
    /\ \E found \in 0 .. Len(Commands) :
         /\ LookUp(found)
         /\ LET status == IF found = NotFound THEN status_cmd_param ELSE "NORM"
            IN  /\ command_processing(found, status, ar_prm)
                /\ CloseLine(ch, status, ar_prm, data)
    /\ upto' = Append(line, ch)
    /\ UNCHANGED index_param

\* PRC_CMD, '>' or the end of the line: the command has no parameters.
CmdEnd(ch) ==
    /\ fsm_dat_prc = "PRC_CMD" /\ ch \in Enders
    /\ \E found \in 0 .. Len(Commands) :
         /\ LookUp(found)
         /\ LET status == IF found = NotFound THEN "INCORRECT_CMD" ELSE "NORM"
            IN  /\ command_processing(found, status, ar_prm)
                /\ CloseLine(ch, status, ar_prm, data)
    /\ upto' = Append(line, ch)
    /\ UNCHANGED index_param

\* PRC_CMD, a space after a command that takes parameters.
CmdSpaceParams(ch) ==
    /\ fsm_dat_prc = "PRC_CMD" /\ ch = SPACE
    /\ \E found \in 1 .. Len(Commands) :
         LookUp(found) /\ Commands[found].types # <<>>
    /\ Extend(ch)
    /\ index_param' = 1 /\ fsm_dat_prc' = "FIND_PRM"
    /\ status_cmd_param' = "NORM" /\ call' = NoCall
    /\ UNCHANGED <<data, ar_prm>>

\* PRC_CMD, a space after a command without parameters: it is called at
\* once, and the automaton stays in PRC_CMD with the mnemonic still in data.
CmdSpaceNoParams(ch) ==
    /\ fsm_dat_prc = "PRC_CMD" /\ ch = SPACE
    /\ \E found \in 1 .. Len(Commands) :
         /\ LookUp(found) /\ Commands[found].types = <<>>
         /\ command_processing(found, "NORM", ar_prm)
    /\ Extend(ch)
    /\ status_cmd_param' = "NORM"
    /\ UNCHANGED <<fsm_dat_prc, data, index_param, ar_prm>>

\* PRC_CMD, a space after an unknown mnemonic: the rest of the line is skipped.
CmdSpaceUnknown(ch) ==
    /\ fsm_dat_prc = "PRC_CMD" /\ ch = SPACE
    /\ LookUp(NotFound)
    /\ command_processing(NotFound, "INCORRECT_CMD", ar_prm)
    /\ CloseLine(ch, "INCORRECT_CMD", ar_prm, data)
    /\ upto' = Append(line, ch)
    /\ UNCHANGED index_param

\* FIND_PRM, a further space.
PrmSkip(ch) ==
    /\ fsm_dat_prc = "FIND_PRM" /\ ch = SPACE
    /\ Extend(ch)
    /\ call' = NoCall
    /\ UNCHANGED <<fsm_dat_prc, data, index_param, index_cmd, num_cmd_param,
                   status_cmd_param, ar_prm>>

\* FIND_PRM, the first character of a parameter.
PrmFirst(ch) ==
    /\ fsm_dat_prc = "FIND_PRM" /\ ch \in Letters
    /\ Extend(ch)
    /\ data' = <<ch>> /\ fsm_dat_prc' = "PRC_PRM" /\ call' = NoCall
    /\ UNCHANGED <<index_param, index_cmd, num_cmd_param, status_cmd_param, ar_prm>>

\* FIND_PRM, the end of the line: the command runs with the parameters so far.
PrmNoMore(ch) ==
    /\ fsm_dat_prc = "FIND_PRM" /\ ch \in Enders
    /\ command_processing(index_cmd, status_cmd_param, ar_prm)
    /\ CloseLine(ch, status_cmd_param, ar_prm, data)
    /\ upto' = Append(line, ch)
    /\ UNCHANGED <<index_param, index_cmd, num_cmd_param>>

\* PRC_PRM, a further character of the parameter.
PrmLetter(ch) ==
    /\ fsm_dat_prc = "PRC_PRM" /\ ch \in Letters
    /\ Extend(ch)
    /\ data' = Stored(ch) /\ call' = NoCall
    /\ UNCHANGED <<fsm_dat_prc, index_param, index_cmd, num_cmd_param,
                   status_cmd_param, ar_prm>>

\* The status proc_parametr leaves.
Parsed == StatusOf(Commands[index_cmd].types, index_param, data)

\* PRC_PRM, a space: on to the next parameter.
PrmNext(ch) ==
    /\ fsm_dat_prc = "PRC_PRM" /\ ch = SPACE
    /\ index_param < MaxParam /\ Parsed = "NORM"
    /\ Extend(ch)
    /\ ar_prm' = Converted(index_param) /\ status_cmd_param' = Parsed
    /\ index_param' = index_param + 1 /\ fsm_dat_prc' = "FIND_PRM" /\ call' = NoCall
    /\ UNCHANGED <<data, index_cmd, num_cmd_param>>

\* PRC_PRM, the end of the line, or a space after the last possible or a bad
\* parameter: convert it and run the command.
PrmEnd(ch) ==
    /\ fsm_dat_prc = "PRC_PRM"
    /\ \/ ch \in Enders
       \/ ch = SPACE /\ (index_param = MaxParam \/ Parsed # "NORM")
    /\ command_processing(index_cmd, Parsed, Converted(index_param))
    /\ CloseLine(ch, Parsed, Converted(index_param), data)
    /\ upto' = Append(line, ch)
    /\ UNCHANGED <<index_param, index_cmd, num_cmd_param>>

Next == \E ch \in Chars :
    \/ FindCmd(ch)
    \/ CmdLetter(ch) \/ CmdEnd(ch)
    \/ CmdSpaceParams(ch) \/ CmdSpaceNoParams(ch) \/ CmdSpaceUnknown(ch)
    \/ PrmSkip(ch) \/ PrmFirst(ch) \/ PrmNoMore(ch)
    \/ PrmLetter(ch) \/ PrmNext(ch) \/ PrmEnd(ch)

Spec == Init /\ [][Next]_vars

-----------------------------------------------------------------------------
(* What a line asks for, read as a whole: the reference the automaton is   *)
(* compared with.                                                          *)

\* Where the word that begins at i reaches; data_prm_cmd[] holds MaxData - 1 of it.
Span(text, i) ==
    {j \in i .. Len(text) : j < i + MaxData - 1 /\ \A k \in i .. j : text[k] # SPACE}

WordAt(text, i) == SubSeq(text, i, i + Cardinality(Span(text, i)) - 1)

\* Where the parameters begin: after a space.
Starts(text) == {i \in 2 .. Len(text) : text[i - 1] = SPACE /\ text[i] # SPACE}

\* The n-th member of a set of numbers.
Only(S) == CHOOSE x \in S : TRUE
Nth(S, n) == Only({i \in S : Cardinality({j \in S : j <= i}) = n})

Args(text) ==
    [n \in 1 .. Cardinality(Starts(text)) |-> WordAt(text, Nth(Starts(text), n))]

\* The command a text names: the mnemonic follows '>' without a space.
Named(text) == scan_cmd(WordAt(text, 1))

TakesNone(text) == Named(text) # NotFound /\ Commands[Named(text)].types = <<>>

\* The text and the character after it make the command run: every word
\* converts, and the line ends there or has no room for another parameter.
Runs(text, ch) ==
    /\ Named(text) # NotFound
    /\ LET args == Args(text)
       IN  /\ \A i \in DOMAIN args : StatusOf(Commands[Named(text)].types, i, args[i]) = "NORM"
           /\ ch \in Enders \/ (ch = SPACE /\ Len(args) = MaxParam /\ Last(text) # SPACE)

-----------------------------------------------------------------------------
(* Properties.                                                             *)

\* Every index of the automaton stays inside the array it addresses:
\* data_prm_cmd[MAX_SIZE_DATA], ar_prm[MAX_PARAM] and, where it is used
\* without the check against 255, array_cmd[] (terminal_data_processing).
TypeOK ==
    /\ fsm_dat_prc \in States
    /\ data \in Seq(Letters) /\ Len(data) < MaxData
    /\ index_param \in 1 .. MaxParam
    /\ index_cmd \in 0 .. Len(Commands)
    /\ fsm_dat_prc \in {"FIND_PRM", "PRC_PRM"} => index_cmd # NotFound
    /\ num_cmd_param \in 0 .. MaxParam
    /\ status_cmd_param \in Statuses
    /\ DOMAIN ar_prm = 1 .. MaxParam
    /\ line \in Seq(Letters \cup {SPACE}) /\ upto \in Seq(Chars)

\* command_processing never takes a handler from array_cmd[255]: whatever
\* lines came before, a call is of a command that scan_cmd found
\* (cmd_process.c, "index_cmd == 255" in terminal_data_processing).
HandlerRegistered == call = NoCall \/ call.cmd \in DOMAIN Commands

\* A handler runs exactly when the line asks for it, and gets exactly the
\* parameters typed on that line: each present one converted, each missing
\* one marked by flag_def, nothing kept from an earlier line
\* (terminal_data_processing, preset_cmd, proc_parametr).
HandlerSeesLine ==
    IF upto = <<>> THEN call = NoCall
    ELSE LET text == Front(upto)
             args == Args(text)
         IN  \/ TakesNone(text)
             \/ ~Runs(text, Last(upto)) /\ call = NoCall
             \/ /\ Runs(text, Last(upto)) /\ call.cmd = Named(text)
                /\ \A i \in 1 .. MaxParam :
                     IF i <= Len(args)
                     THEN call.prm[i] = [def |-> FALSE,
                                         val |-> ValueOf(Commands[call.cmd].types, i, args[i])]
                     ELSE call.prm[i].def

=============================================================================
