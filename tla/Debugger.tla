------------------------------ MODULE Debugger ------------------------------
(* The command console of the emulator (src/console.cc) with its tables of  *)
(* break points and conditions (src/break.cc, src/cond.cc), and the run     *)
(* loop that they stop (src/ti994a.cc).  Commands come from scripts, which  *)
(* run scripts in turn, and then from the keyboard.                         *)
(*                                                                          *)
(* The processor is a program counter and words of memory that instructions *)
(* change.  Commands that set up or show something else are lines that do   *)
(* nothing here.                                                            *)
EXTENDS Integers, Sequences, FiniteSets

CONSTANTS
  Pcs,          \* the program counter goes round 0 .. Pcs - 1
  Words,        \* addresses of the words of memory that are looked at
  WordValues,   \* what they hold
  MaxBreaks, MaxConditions,   \* MAX_BREAKPOINTS, MAX
  Scripts,      \* the scripts by name: [lines, newline]
  FirstScript,  \* the one on the command line
  Typed,        \* lines that are typed at the keyboard
  MaxTyped, MaxExecuted   \* bounds on them and on the instructions executed

Kinds == {"EQ", "NE", "CH"}

(* A line that parses: the operands of its command are there.               *)
IsLine(line) ==
  /\ line.op \in {"break add", "break remove"} => line.addr \in Nat
  /\ line.op \in {"condition add", "condition remove", "poke"} => line.addr \in Words
  /\ line.op \in {"condition add", "poke"} => line.value \in WordValues
  /\ line.op = "condition add" => line.kind \in Kinds
  /\ line.op = "@" => line.name \in STRING

ASSUME DebuggerAssumption ==
  /\ Pcs \in Nat \ {0} /\ 0 \in WordValues
  /\ MaxBreaks \in Nat /\ MaxConditions \in Nat
  /\ FirstScript \in STRING
  /\ \A line \in Typed : IsLine(line)
  /\ \A name \in DOMAIN Scripts :
       /\ Len(Scripts[name].lines) \in Nat /\ Scripts[name].newline \in BOOLEAN
       /\ \A i \in 1 .. Len(Scripts[name].lines) : IsLine(Scripts[name].lines[i])

(* No file has the empty name.                                              *)
ASSUME ScriptAssumption == "" \notin DOMAIN Scripts

VARIABLES
  cpu,          \* [pc, mem]
  breaks,       \* bp
  conditions,   \* c and condCount: [addr, kind, value]
  run,          \* "console", or "run" with _runFlag on, or "stop" with it off
  input,        \* what main reads: see Prompt
  asked,        \* history: [breaks, conditions] that the user asked for
  calls,        \* history: the scripts that have not ended, innermost last
  counts        \* [typed, executed]

debuggerVars == <<cpu, breaks, conditions, run, input, asked, calls, counts>>

NoFile == 0

Prompt ==
  [fp |-> NoFile, fpSave |-> NoFile,   \* indexes of opened
   fileToRead |-> FirstScript,
   opened |-> <<>>,                    \* FILEs: [name, at, eof, open]
   crashed |-> FALSE]                  \* read from a FILE that is closed
-----------------------------------------------------------------------------
(* The tables.                                                              *)
HasAddr(table, addr) == \E i \in DOMAIN table : table[i].addr = addr

TableAdd(table, entry, max) ==
  IF HasAddr(table, entry.addr) \/ Len(table) = max THEN table ELSE Append(table, entry)

(* Mutant: the entry behind is lost and the removed one stays.              *)
TableRemoveNext(table, addr) ==
  IF ~HasAddr(table, addr) THEN table
  ELSE LET i == CHOOSE i \in DOMAIN table : table[i].addr = addr
       IN  [j \in 1 .. Len(table) - 1 |-> IF j <= i THEN table[j] ELSE table[j + 1]]

(* The rest moves up.                                                       *)
TableRemove(table, addr) ==
  IF ~HasAddr(table, addr) THEN table
  ELSE LET i == CHOOSE i \in DOMAIN table : table[i].addr = addr
       IN  [j \in 1 .. Len(table) - 1 |-> IF j < i THEN table[j] ELSE table[j + 1]]

BreakPointHit(table, pc) == HasAddr(table, pc)

Holds(c, mem) ==
  CASE c.kind = "EQ" -> mem[c.addr] = c.value
    [] c.kind \in {"NE", "CH"} -> mem[c.addr] # c.value

(* conditionEval: a change is noticed once.                                 *)
Evaluated(c, mem) == IF c.kind = "CH" THEN [c EXCEPT !.value = mem[c.addr]] ELSE c

(* conditionTrue stops at the first that holds, 0 if none does.             *)
FirstTrue(table, mem) ==
  LET true == {i \in DOMAIN table : Holds(table[i], mem)}
  IN  IF true = {} THEN 0 ELSE CHOOSE i \in true : \A j \in true : i <= j

ConditionTrue(table, mem) ==
  [i \in DOMAIN table |-> IF i = FirstTrue(table, mem) THEN Evaluated(table[i], mem) ELSE table[i]]

(* conditionList evaluates as well.                                         *)
ConditionList(table, mem) == [i \in DOMAIN table |-> Evaluated(table[i], mem)]
-----------------------------------------------------------------------------
(* main: a script is opened, a line is read, a script that ends is closed.  *)
(* fpSave is a single place for the script to go back to.                   *)
Opened(in) ==
  IF in.fileToRead = "" THEN in
  ELSE [in EXCEPT
          !.fpSave = in.fp,
          !.fp = IF in.fileToRead \in DOMAIN Scripts THEN Len(in.opened) + 1 ELSE @,
          !.opened = IF in.fileToRead \in DOMAIN Scripts
                       THEN Append(@, [name |-> in.fileToRead, at |-> 0, eof |-> FALSE, open |-> TRUE])
                       ELSE @,
          !.fileToRead = ""]

(* fgets meets the end of the file behind the last line or, if that has no  *)
(* newline, with it.                                                        *)
Fetched(in) ==
  LET script == Scripts[in.opened[in.fp].name]
      n == Len(script.lines)
      at == in.opened[in.fp].at + 1
  IN  [in EXCEPT !.opened[in.fp].at = at,
                 !.opened[in.fp].eof = at > n \/ (at = n /\ ~script.newline)]

LineOf(in) ==
  LET file == in.opened[in.fp]
      script == Scripts[file.name]
  IN  IF file.at > Len(script.lines) THEN [op |-> "none"] ELSE script.lines[file.at]

(* Mutant: whatever script ends, the keyboard is next.                      *)
EndedAtKeyboard(in) ==
  IF in.fp # NoFile /\ in.opened[in.fp].eof
    THEN [in EXCEPT !.opened[in.fp].open = FALSE, !.fp = NoFile, !.fpSave = NoFile]
    ELSE in

Ended(in) ==
  IF in.fp # NoFile /\ in.opened[in.fp].eof
    THEN [in EXCEPT !.opened[in.fp].open = FALSE, !.fp = in.fpSave, !.fpSave = NoFile]
    ELSE in

(* The same for the stack of scripts that ought to be there.                *)
Called(in, stack) ==
  IF in.fileToRead \in DOMAIN Scripts THEN Append(stack, Len(in.opened) + 1) ELSE stack

Returned(in, stack) ==
  LET n == Len(stack)
  IN  IF stack # <<>> /\ in.opened[stack[n]].eof THEN SubSeq(stack, 1, n - 1) ELSE stack
-----------------------------------------------------------------------------
(* Instructions.                                                            *)
Execute ==
  /\ counts.executed < MaxExecuted
  /\ counts' = [counts EXCEPT !.executed = @ + 1]
  /\ \/ cpu' = [cpu EXCEPT !.pc = (@ + 1) % Pcs]
     \/ \E w \in Words, v \in WordValues :
          cpu' = [pc |-> (cpu.pc + 1) % Pcs, mem |-> [cpu.mem EXCEPT ![w] = v]]

(* A line: the commands of the tables, poke, @, go and, at the keyboard, the *)
(* empty line, which is a single step.  in is the input after it.           *)
NoChange == UNCHANGED <<cpu, breaks, conditions, asked, run>>

Break(line) ==
  /\ breaks' = IF line.op = "break add" THEN TableAdd(breaks, [addr |-> line.addr], MaxBreaks)
               ELSE TableRemove(breaks, line.addr)
  /\ asked' = [asked EXCEPT !.breaks =
                 IF line.op = "break remove" THEN @ \ {line.addr}
                 ELSE IF Cardinality(@) < MaxBreaks THEN @ \cup {line.addr} ELSE @]
  /\ UNCHANGED <<cpu, conditions, run>>

Condition(line) ==
  /\ conditions' = IF line.op = "condition add"
                     THEN TableAdd(conditions, [addr |-> line.addr, kind |-> line.kind, value |-> line.value],
                                   MaxConditions)
                     ELSE TableRemove(conditions, line.addr)
  /\ asked' = [asked EXCEPT !.conditions =
                 IF line.op = "condition remove"
                   THEN [a \in DOMAIN @ \ {line.addr} |-> @[a]]
                 ELSE IF Cardinality(DOMAIN @) < MaxConditions
                   THEN [a \in DOMAIN @ \cup {line.addr} |->
                           IF a \in DOMAIN @ THEN @[a] ELSE [kind |-> line.kind, value |-> line.value]]
                 ELSE @]
  /\ UNCHANGED <<cpu, breaks, run>>

(* A change that the user is told of is no longer news.                     *)
Told(told) ==
  [asked EXCEPT !.conditions =
     [a \in DOMAIN @ |-> IF a \in told /\ @[a].kind = "CH" THEN [@[a] EXCEPT !.value = cpu.mem[a]]
                         ELSE @[a]]]

Command(line, in) ==
  /\ CASE line.op \in {"break add", "break remove"} -> Break(line)
       [] line.op \in {"condition add", "condition remove"} -> Condition(line)
       [] line.op = "condition list" ->
            /\ conditions' = ConditionList(conditions, cpu.mem)
            /\ asked' = Told(DOMAIN asked.conditions)
            /\ UNCHANGED <<cpu, breaks, run>>
       [] line.op = "poke" ->
            /\ cpu' = [cpu EXCEPT !.mem[line.addr] = line.value]
            /\ UNCHANGED <<breaks, conditions, asked, run>>
       [] line.op = "go" -> run' = "run" /\ UNCHANGED <<cpu, breaks, conditions, asked>>
       [] OTHER -> NoChange
  /\ input' = LET d == IF line.op = "@" THEN [in EXCEPT !.fileToRead = line.name] ELSE in
              IN  IF line.op = "go" THEN d ELSE Ended(d)

ReadScript ==
  /\ run = "console" /\ ~input.crashed
  /\ LET in == Opened(input)
         stack == Called(input, calls)
     IN  /\ in.fp # NoFile
         /\ IF ~in.opened[in.fp].open
              THEN input' = [in EXCEPT !.crashed = TRUE] /\ calls' = stack /\ NoChange
              ELSE LET line == LineOf(Fetched(in))
                   IN  /\ Command(line, Fetched(in))
                       /\ calls' = IF line.op = "go" THEN stack ELSE Returned(Fetched(in), stack)
  /\ UNCHANGED counts

ReadKeyboard ==
  /\ run = "console" /\ ~input.crashed
  /\ LET in == Opened(input)
     IN  /\ in.fp = NoFile
         /\ calls' = Called(input, calls)
         /\ counts.typed < MaxTyped
         /\ \/ \E line \in Typed :
                 Command(line, in) /\ counts' = [counts EXCEPT !.typed = @ + 1]
            \/ /\ Execute
               /\ input' = in
               /\ UNCHANGED <<breaks, conditions, asked, run>>

(* TI994A::run: the conditions are tested before each instruction.          *)
Stopped ==
  /\ run' = "console"
  /\ input' = Ended(input)
  /\ calls' = Returned(input, calls)
  /\ UNCHANGED <<cpu, breaks, counts>>

RunStep ==
  /\ run = "run"
  /\ IF BreakPointHit(breaks, cpu.pc) THEN Stopped /\ UNCHANGED <<conditions, asked>>
     ELSE IF FirstTrue(conditions, cpu.mem) # 0
       THEN /\ conditions' = ConditionTrue(conditions, cpu.mem)
            /\ asked' = Told({conditions[FirstTrue(conditions, cpu.mem)].addr})
            /\ Stopped
     ELSE Execute /\ UNCHANGED <<breaks, conditions, asked, run, input, calls>>

(* SIGINT: the flag is looked at first.                                     *)
ClearRunFlag ==
  /\ run = "run" /\ run' = "stop"
  /\ UNCHANGED <<cpu, breaks, conditions, input, asked, calls, counts>>

RunEnds == run = "stop" /\ Stopped /\ UNCHANGED <<conditions, asked>>

FirstCpu == [pc |-> 0, mem |-> [w \in Words |-> 0]]
NotAsked == [breaks |-> {}, conditions |-> <<>>]
NoCounts == [typed |-> 0, executed |-> 0]

DebuggerInit ==
  /\ cpu = FirstCpu /\ run = "console" /\ counts = NoCounts
  /\ breaks = <<>> /\ conditions = <<>> /\ asked = NotAsked
  /\ input = Prompt /\ calls = <<>>

(* The emulator ends and starts again.                                      *)
Quit ==
  /\ run = "console"
  /\ cpu' = FirstCpu /\ run' = "console" /\ counts' = NoCounts
  /\ breaks' = <<>> /\ conditions' = <<>> /\ asked' = NotAsked
  /\ input' = Prompt /\ calls' = <<>>

DebuggerNext == ReadScript \/ ReadKeyboard \/ RunStep \/ ClearRunFlag \/ RunEnds \/ Quit
-----------------------------------------------------------------------------
DebuggerTypeOK ==
  /\ cpu.pc \in 0 .. Pcs - 1 /\ cpu.mem \in [Words -> WordValues]
  /\ Len(breaks) <= MaxBreaks /\ Len(conditions) <= MaxConditions
  /\ {input.fp, input.fpSave} \subseteq 0 .. Len(input.opened)
  /\ run \in {"console", "run", "stop"}

(* What the user asked for, by its meaning.                                 *)
AskedToStop ==
  \/ cpu.pc \in asked.breaks
  \/ \E a \in DOMAIN asked.conditions :
       CASE asked.conditions[a].kind = "EQ" -> cpu.mem[a] = asked.conditions[a].value
         [] OTHER -> cpu.mem[a] # asked.conditions[a].value

(* The run loop executes an instruction only if the user asked for no stop, *)
(* and it returns to the console only if he did or pressed ctrl-C: the      *)
(* tables hold what was added and not removed, with its value, in whatever  *)
(* order that was done, and a change that was not reported yet is not lost. *)
RunHeedsUser ==
  [][ /\ run = "run" /\ cpu' # cpu => ~AskedToStop
      /\ run = "run" /\ run' = "console" => AskedToStop ]_debuggerVars

(* When a script ends, the one that called it goes on, or the keyboard: the *)
(* file that is read is the innermost of the scripts that have not ended.   *)
(* (This is for scripts that exist, called by others that none called.)     *)
ScriptsResume ==
  /\ ~input.crashed
  /\ input.fp = IF calls = <<>> THEN NoFile ELSE calls[Len(calls)]
=============================================================================
