---------------------------- MODULE Interpreter ----------------------------
(***************************************************************************)
(* The interpreter that runs scripts in the server's own process           *)
(* (sandbox/interpreter.py): it walks the syntax tree, counts statements   *)
(* and expressions against a budget, and collects what is printed.         *)
(*                                                                         *)
(* A script is the body of a function f without arguments and a main       *)
(* program; values are abstracted away.  Every condition is true, and a    *)
(* for loop goes over a list of two.  Functions with default arguments are *)
(* left out: their evaluation is counted and printed elsewhere.            *)
(***************************************************************************)
EXTENDS Integers, Sequences, SequencesExt

CONSTANTS
  MaxSteps,     \* limits.max_steps
  MaxOutput,    \* limits.max_output_bytes, in printed marks
  FunctionBodies, MainBodies   \* the scripts of the model

ASSUME InterpreterAssumption == MaxSteps \in Nat /\ MaxOutput \in Nat

\* Statements; mark is what a print prints.
Prints(mark)       == [op |-> "print", mark |-> mark, body |-> <<>>]
Simple(op)         == [op |-> op, mark |-> 0, body |-> <<>>]
Compound(op, body) == [op |-> op, mark |-> 0, body |-> body]

VARIABLES script, scriptResult
interpreterVars == <<script, scriptResult>>

NoResult == [kind |-> "none", out |-> <<>>, work |-> 0, truncated |-> FALSE]

InterpreterInit ==
  /\ script \in [function : FunctionBodies, main : MainBodies]
  /\ scriptResult = NoResult

InterpreterTypeOK ==
  /\ scriptResult.kind \in {"none", "forbidden", "budget", "exit 0", "exit 1"}
  /\ scriptResult.work \in Nat /\ scriptResult.truncated \in BOOLEAN
-----------------------------------------------------------------------------
(***************************************************************************)
(* A context: its step counter and output, how its last statement ended    *)
(* (the exception on its way, if any), and, for the properties, all work   *)
(* that was done.                                                          *)
(***************************************************************************)
Fresh == [steps |-> 0, out |-> <<>>, signal |-> "ok", work |-> 0]

\* increment_steps(), n times.
Charge(c, n) ==
  IF c.steps + n <= MaxSteps THEN [c EXCEPT !.steps = @ + n, !.work = @ + n]
  ELSE [c EXCEPT !.steps = MaxSteps + 1, !.work = @ + (MaxSteps + 1 - c.steps), !.signal = "budget"]

Going(c) == c.signal = "ok"

\* Mutant of CallerAfter: the caller goes on with the steps it had.
CallerAsBefore(caller, callee) ==
  IF callee.signal \in {"ok", "return"}
  THEN [caller EXCEPT !.out = @ \o callee.out, !.work = callee.work]
  ELSE [caller EXCEPT !.signal = callee.signal, !.work = callee.work]

\* The callee counts on from the caller's steps and prints to a list of its
\* own; the caller takes over both, unless an exception passes through.
CallerAfter(caller, callee) ==
  IF callee.signal \in {"ok", "return"}
  THEN [caller EXCEPT !.steps = callee.steps, !.out = @ \o callee.out, !.work = callee.work]
  ELSE [caller EXCEPT !.signal = callee.signal, !.work = callee.work]

RECURSIVE ExecBody(_, _, _), ExecStmt(_, _, _), ExecWhile(_, _, _)

ExecBody(f, body, c) ==
  IF body = <<>> \/ ~Going(c) THEN c
  ELSE ExecBody(f, Tail(body), ExecStmt(f, Head(body), c))

\* The test costs a step, so the loop ends with the budget.
ExecWhile(f, body, c) ==
  LET tested == Charge(c, 1)
      done   == ExecBody(f, body, tested) IN
  IF ~Going(tested) THEN tested ELSE IF ~Going(done) THEN done ELSE ExecWhile(f, body, done)

\* The steps of a statement before its body: one for itself and one for every
\* expression in print(mark), f(), for _ in [1, 2], fail and if True.
Cost(stmt) ==
  CASE stmt.op \in {"print", "for"} -> 4
    [] stmt.op = "call" -> 3
    [] stmt.op \in {"fail", "if"} -> 2
    [] OTHER -> 1

\* Neither loop catches the break or continue of its body.
ExecStmt(f, stmt, before) ==
  LET c == Charge(before, Cost(stmt))
      callee == [c EXCEPT !.out = <<>>] IN
  IF ~Going(c) THEN c
  ELSE CASE stmt.op = "print" -> [c EXCEPT !.out = Append(@, stmt.mark)]
         [] stmt.op = "call"  -> CallerAfter(c, ExecBody(f, f, callee))
         [] stmt.op = "if"    -> ExecBody(f, stmt.body, c)
         [] stmt.op = "for"   -> ExecBody(f, stmt.body \o stmt.body, c)
         [] stmt.op = "while" -> ExecWhile(f, stmt.body, c)
         [] stmt.op = "fail"  -> [c EXCEPT !.signal = "error"]
         [] stmt.op \in {"return", "break", "continue"} -> [c EXCEPT !.signal = stmt.op]
         [] OTHER -> c

RECURSIVE Mentions(_, _)
Mentions(body, ops) ==
  \E k \in DOMAIN body : body[k].op \in ops \/ Mentions(body[k].body, ops)

Forbidden == {"import"}

\* run(); the definition of f is a statement, too.
RunScript ==
  LET c   == ExecBody(script.function, script.main, Charge(Fresh, 1))
      cut == Len(c.out) > MaxOutput IN
  /\ scriptResult = NoResult
  /\ scriptResult' =
       IF Mentions(script.function \o script.main, Forbidden) THEN [NoResult EXCEPT !.kind = "forbidden"]
       ELSE CASE c.signal = "budget" -> [NoResult EXCEPT !.kind = "budget", !.work = c.work]
              [] c.signal = "ok"     -> [kind |-> "exit 0", work |-> c.work, truncated |-> cut,
                                         out |-> SubSeq(c.out, 1, IF cut THEN MaxOutput ELSE Len(c.out))]
              [] OTHER               -> [kind |-> "exit 1", work |-> c.work, truncated |-> FALSE, out |-> c.out]
  /\ UNCHANGED script

InterpreterNext == RunScript
InterpreterSpec == InterpreterInit /\ [][InterpreterNext]_interpreterVars
-----------------------------------------------------------------------------
(***************************************************************************)
(* What Python prints for the script, without a budget but for fuel of     *)
(* loops and calls.                                                        *)
(***************************************************************************)
RECURSIVE PyBody(_, _, _), PyStmt(_, _, _), PyLoop(_, _, _, _)

PyBody(f, body, p) ==
  IF body = <<>> \/ ~Going(p) THEN p ELSE PyBody(f, Tail(body), PyStmt(f, Head(body), p))

PyLoop(f, body, p, times) ==
  LET q == PyBody(f, body, [p EXCEPT !.fuel = @ - 1]) IN
  IF times = 0 THEN p
  ELSE IF p.fuel = 0 THEN [p EXCEPT !.signal = "fuel"]
  ELSE CASE q.signal = "break" -> [q EXCEPT !.signal = "ok"]
         [] q.signal \in {"ok", "continue"} -> PyLoop(f, body, [q EXCEPT !.signal = "ok"], times - 1)
         [] OTHER -> q

PyCall(f, p) ==
  LET q == PyBody(f, f, [p EXCEPT !.fuel = @ - 1]) IN
  IF p.fuel = 0 THEN [p EXCEPT !.signal = "fuel"]
  ELSE IF q.signal = "return" THEN [q EXCEPT !.signal = "ok"] ELSE q

PyStmt(f, stmt, p) ==
  CASE stmt.op = "print" -> [p EXCEPT !.out = Append(@, stmt.mark)]
    [] stmt.op = "call"  -> PyCall(f, p)
    [] stmt.op = "if"    -> PyBody(f, stmt.body, p)
    [] stmt.op = "for"   -> PyLoop(f, stmt.body, p, 2)
    [] stmt.op = "while" -> PyLoop(f, stmt.body, p, -1)
    [] stmt.op = "fail"  -> [p EXCEPT !.signal = "error"]
    [] stmt.op \in {"return", "break", "continue"} -> [p EXCEPT !.signal = stmt.op]
    [] OTHER -> p

Python == PyBody(script.function, script.main, [out |-> <<>>, signal |-> "ok", fuel |-> MaxSteps])

(***************************************************************************)
(* What a script has printed is what Python would have printed by then.  A *)
(* script that ends well has printed all of it, up to the limit, and one   *)
(* that fails has met an error, or a break or continue, which no loop of   *)
(* the interpreter catches.                                                *)
(***************************************************************************)
PrintsAsPython ==
  scriptResult.kind \in {"exit 0", "exit 1"} =>
    /\ IsPrefix(scriptResult.out, Python.out)
    /\ scriptResult.kind = "exit 0" =>
         /\ Python.signal = "ok"
         /\ ~scriptResult.truncated => scriptResult.out = Python.out
         /\ scriptResult.truncated = (Len(Python.out) > MaxOutput)
    /\ scriptResult.kind = "exit 1" =>
         \/ Python.signal = "error"
         \/ Mentions(script.function \o script.main, {"break", "continue"})

(***************************************************************************)
(* Every script ends within the budget, however its work is spread over    *)
(* calls and loops, and is stopped only when it is used up.                *)
(***************************************************************************)
EndsInBudget ==
  /\ scriptResult.work <= MaxSteps + 1
  /\ scriptResult.kind = "budget" <=> scriptResult.work = MaxSteps + 1
=============================================================================
