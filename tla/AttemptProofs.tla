--------------------------- MODULE AttemptProofs ---------------------------
(***************************************************************************)
(* Theorems about Attempt for every set of specialists, tool lists and     *)
(* providers, any number of attempts and of tries.  IInv couples the agent *)
(* awaited to the ledger (Books), the recorded tool runs to what was seen  *)
(* of them (Witnessed) and the processes to the control point (Watched).   *)
(***************************************************************************)
EXTENDS Attempt, TLAPS

Agents == {"specialist", "evaluator", "reflector"}

\* A subtask has its final status when it has ended, and only then; it is
\* reflected on only when another attempt is left.
Control ==
    /\ status = "running" <=> pc # "ended"
    /\ pc = "reflector" => attempt < MaxAttempts

\* Every reply of the awaited agent but the last asked for is in its usage;
\* who asks no model uses none.
Books ==
    /\ meter = traced + usage + embedded
    /\ usage <= ask
    /\ pc \in Agents => ask >= 1 /\ usage = ask - 1 /\ try >= 1
    /\ pc \in {"context", "tools", "process"} \/ status = "passed" => usage = 0
    /\ pc = "specialist" /\ Agent \in Silent => usage = 0
    /\ pc = "evaluator" /\ MechanicalVerdict # "none" => usage = 0

\* The run is good in the sense of the evaluator.
Good(t, r) == r.ok /\ (t = "pytest_run" => r.output = "green")

\* The recorded runs of a tool, if there are any, have a last one.
HasLatest(t) ==
    RunsOf(t) # {} => \E i \in RunsOf(t) : \A j \in RunsOf(t) : j <= i

\* The latest run recorded of a judged tool tells how it really went.
Witnessed ==
    \A t \in Judged :
        /\ HasLatest(t)
        /\ seen[t] = "never" <=> RunsOf(t) = {}
        /\ RunsOf(t) # {} => (seen[t] = "good" <=> Good(t, Latest(t)))

\* The local provider names no tool, so none is ever run with it.
NoTools ==
    Offline => runs = << >> /\ calls = << >> /\ pc \notin {"tools", "process"}

\* The tool in hand is the first of those still to run.
InTool == pc = "process" => calls # << >> /\ Head(calls) \in Executing

Watched == HoldersWatched

IInv == TypeOK /\ Control /\ Books /\ Witnessed /\ NoTools /\ InTool
              /\ Watched /\ PassIsEarned

Run == [tool : STRING, ok : BOOLEAN, output : {"green", "red", "nothing"}]

-----------------------------------------------------------------------------
(* The operators of the model.                                             *)

\* What a reply can ask for; the local provider's asks for nothing and
\* passes nothing.
LEMMA ReplyFact ==
    ASSUME NEW r, r \in Replies(Agent) \cup {Default}
    PROVE  /\ r.tools \in Seq(STRING) /\ r.passed \in BOOLEAN
           /\ Offline => r.tools = << >> /\ ~r.passed
<1>1. CASE r = Default
    BY <1>1 DEF Default
<1>2. CASE Offline /\ r \in Replies(Agent)
    <2>1. r \in {MadeUp, MadeUpText}
        BY <1>2 DEF Replies
    <2>2. /\ MadeUp.tools = << >> /\ MadeUp.passed = FALSE
          /\ MadeUpText.tools = << >> /\ MadeUpText.passed = FALSE
        BY DEF MadeUp, MadeUpText, Default
    <2>3. << >> \in Seq(STRING)
        OBVIOUS
    <2>4. r.tools = << >> /\ r.passed = FALSE
        BY <2>1, <2>2
    <2> QED
        BY <2>3, <2>4
<1>3. CASE ~Offline /\ r \in Replies(Agent)
    BY <1>3, AttemptAssumption DEF Replies, Reply
<1> QED
    BY <1>1, <1>2, <1>3

\* With one run more, the new one is the latest of its tool and the latest
\* of every other tool is as before.
LEMMA AppendFact ==
    ASSUME runs \in Seq(Run), NEW e \in Run, runs' = Append(runs, e),
           NEW t, HasLatest(t)
    PROVE  /\ HasLatest(t)'
           /\ e.tool = t => RunsOf(t)' # {} /\ Latest(t)' = e
           /\ e.tool # t => RunsOf(t)' = RunsOf(t)
           /\ e.tool # t /\ RunsOf(t) # {} => Latest(t)' = Latest(t)
<1> DEFINE n == Len(runs)
           S == RunsOf(t)
<1>1. /\ n \in Nat /\ DOMAIN runs = 1 .. n /\ DOMAIN runs' = 1 .. n + 1
      /\ runs'[n + 1] = e
      /\ \A i \in 1 .. n : runs'[i] = runs[i]
    OBVIOUS
<1>2. S \subseteq 1 .. n
    BY <1>1 DEF RunsOf
<1>3. CASE e.tool = t
    <2>1. RunsOf(t)' = S \cup {n + 1}
        BY <1>1, <1>3 DEF RunsOf
    <2>2. \A j \in RunsOf(t)' : j <= n + 1
        BY <1>1, <1>2, <2>1
    <2>3. \A i \in RunsOf(t)' : (\A j \in RunsOf(t)' : j <= i) => i = n + 1
        BY <1>1, <1>2, <2>1
    <2>4. (CHOOSE i \in RunsOf(t)' : \A j \in RunsOf(t)' : j <= i) = n + 1
        BY <2>1, <2>2, <2>3
    <2>5. Latest(t)' = e
        BY <1>1, <2>4 DEF Latest
    <2> QED
        BY <1>3, <2>1, <2>2, <2>5 DEF HasLatest
<1>4. CASE e.tool # t
    <2>1. RunsOf(t)' = S
        BY <1>1, <1>4 DEF RunsOf
    <2>2. S # {} => (CHOOSE i \in S : \A j \in S : j <= i) \in S
        BY DEF HasLatest
    <2>3. S # {} => Latest(t)' = Latest(t)
        BY <1>1, <1>2, <2>1, <2>2 DEF Latest
    <2> QED
        BY <1>4, <2>1, <2>3 DEF HasLatest
<1> QED
    BY <1>3, <1>4

\* No run, no latest one; the same runs, the same verdict.
LEMMA NoRunFact ==
    ASSUME runs' = << >>, NEW t
    PROVE  RunsOf(t)' = {}
BY DEF RunsOf

LEMMA SameRuns ==
    ASSUME runs' = runs
    PROVE  /\ \A t : RunsOf(t)' = RunsOf(t) /\ Latest(t)' = Latest(t)
                    /\ HasLatest(t)' = HasLatest(t)
           /\ MechanicalVerdict' = MechanicalVerdict
BY DEF RunsOf, Latest, HasLatest, MechanicalVerdict

\* A verdict read off the tools is read off what was seen of them.
LEMMA MechanicalFact ==
    ASSUME Witnessed
    PROVE  /\ MechanicalVerdict = "none" =>
                 seen["pytest_run"] = "never" /\ seen["python_exec"] = "never"
           /\ MechanicalVerdict = "passed" =>
                 \/ seen["pytest_run"] = "good"
                 \/ seen["pytest_run"] = "never" /\ seen["python_exec"] = "good"
           /\ MechanicalVerdict # "none" => runs # << >>
<1>1. "pytest_run" \in Judged /\ "python_exec" \in Judged
    BY DEF Judged
<1>2. CASE RunsOf("pytest_run") # {}
    <2>1. MechanicalVerdict = IF Latest("pytest_run").ok
                                 /\ Latest("pytest_run").output = "green"
                              THEN "passed" ELSE "failed"
        BY <1>2 DEF MechanicalVerdict
    <2>2. runs # << >>
        BY <1>2 DEF RunsOf
    <2> QED
        BY <1>1, <1>2, <2>1, <2>2 DEF Witnessed, Good
<1>3. CASE RunsOf("pytest_run") = {} /\ RunsOf("python_exec") # {}
    <2>1. MechanicalVerdict = IF Latest("python_exec").ok
                              THEN "passed" ELSE "failed"
        BY <1>3 DEF MechanicalVerdict
    <2>2. runs # << >>
        BY <1>3 DEF RunsOf
    <2> QED
        BY <1>1, <1>3, <2>1, <2>2 DEF Witnessed, Good
<1>4. CASE RunsOf("pytest_run") = {} /\ RunsOf("python_exec") = {}
    BY <1>1, <1>4 DEF MechanicalVerdict, Witnessed
<1> QED
    BY <1>2, <1>3, <1>4

-----------------------------------------------------------------------------
(* Kinds of steps.                                                         *)

\* The steps of the processes a tool started, and its timeout.
ProcessStep ==
    \/ LeaderForks \/ Detach \/ ChildExits \/ Expire
    \/ \E code \in {"zero", "nonzero"} : LeaderExits(code)

\* A call that ends with an error.
FailStep == RefuseTool \/ RefuseArgs \/ RefuseSource \/ FailInside \/ SpawnFails

\* An error of a call of the model.
ErrorStep == \E retriable \in BOOLEAN : Awaiting /\ Retry(retriable)

LEMMA StepKinds ==
    ASSUME [Next]_vars
    PROVE  \/ BuildContext \/ SilentReturns \/ JudgeByTools \/ ErrorStep
           \/ \E r \in Replies(Agent) : Answer(r)
           \/ FailStep \/ RunInside \/ Spawn \/ LeaveWorkdir
           \/ \E output \in {"green", "red", "nothing"} : Collect(output)
           \/ ProcessStep \/ Cancel \/ UNCHANGED vars
BY DEF Next, Works, ProcessStep, FailStep, ErrorStep, ProviderFails, Garbled,
       Ended

LEMMA FailFact == FailStep => pc = "tools" /\ calls # << >> /\ Fails
BY DEF FailStep, RefuseTool, RefuseArgs, RefuseSource, FailInside, SpawnFails

LEMMA ProcessFact ==
    ASSUME ProcessStep
    PROVE  UNCHANGED <<specialist, provider, pc, attempt, ask, try, usage,
                       meter, traced, embedded, calls, runs, workdir, status,
                       seen>>
BY DEF ProcessStep, LeaderForks, Detach, ChildExits, LeaderExits, Expire, scene,
       asking, ledger

\* Embedding a query adds to the meter what it adds to the embeddings.
LEMMA EmbedFact ==
    ASSUME Embed
    PROVE  /\ traced' = traced
           /\ \E k \in Nat : meter' = meter + k /\ embedded' = embedded + k
BY DEF Embed, MostEmbeds

\* The awaited agent returns: to the tools, to another agent with nothing
\* used yet, to a new attempt, or to the end of the subtask.
Returned(r) ==
    /\ pc \in Agents /\ usage' = 0
    /\ pc' \in {"context", "evaluator", "reflector", "tools", "ended"}
    /\ pc' \in Agents => ask' = 1 /\ try' = 1
    /\ pc' \notin Agents => ask' = 0 /\ try' = 0
    /\ IF pc' = "ended"
       THEN pc = "evaluator" /\ status' = IF r.passed THEN "passed" ELSE "failed"
       ELSE UNCHANGED status
    /\ attempt' = IF pc = "reflector" THEN attempt + 1 ELSE attempt
    /\ pc' = "reflector" => pc = "evaluator" /\ attempt < MaxAttempts
    /\ IF pc = "specialist" THEN runs' = << >> /\ seen' = Unseen
       ELSE UNCHANGED <<runs, seen>>
    /\ IF pc' = "tools" THEN calls' = r.tools /\ calls' # << >> /\ workdir' = TRUE
       ELSE UNCHANGED <<calls, workdir>>
    /\ UNCHANGED proc

LEMMA ReturnFact ==
    ASSUME TypeOK, NEW r, r \in Replies(Agent) \cup {Default}, Return(r)
    PROVE  Returned(r)
<1> USE DEF Returned
<1>1. CASE pc = "specialist" /\ AfterSpecialist(r)
    BY <1>1 DEF AfterSpecialist, Await, Rest, Agents
<1>2. CASE pc = "evaluator" /\ AfterEvaluator(r)
    BY <1>2, AttemptAssumption
    DEF AfterEvaluator, Conclude, End, Await, Rest, Agents, batch, TypeOK
<1>3. CASE pc = "reflector" /\ AfterReflector
    BY <1>3 DEF AfterReflector, Rest, Agents, batch, TypeOK
<1> QED
    BY <1>1, <1>2, <1>3 DEF Return

\* A reply is asked for again, takes the agent along, or is returned.
LEMMA AnswerFact ==
    ASSUME TypeOK, NEW r \in Replies(Agent), Answer(r)
    PROVE  /\ Awaiting /\ meter' = meter + 1 /\ UNCHANGED <<scene, embedded>>
           /\ \/ /\ ask = 1 /\ ask' = 2 /\ try' = 1 /\ usage' = usage + 1
                 /\ UNCHANGED <<pc, status, attempt, traced, batch>>
              \/ /\ Raise /\ usage' = usage + 1
                 /\ UNCHANGED <<ask, try, attempt, traced, batch>>
              \/ /\ traced' = traced + usage + 1
                 /\ \E s \in Replies(Agent) \cup {Default} : Return(s)
<1> DEFINE read == IF Parses(Agent, r) THEN r ELSE Default
<1>1. read \in Replies(Agent) \cup {Default}
    OBVIOUS
<1>2. CASE ~Parses(Agent, r) /\ ask = 1
    BY <1>2 DEF Answer, Record, Total
<1>3. CASE Parses(Agent, r) /\ Unfit(Agent, r)
    BY <1>3 DEF Answer, Record, Total
<1>4. CASE /\ ~(~Parses(Agent, r) /\ ask = 1)
           /\ ~(Parses(Agent, r) /\ Unfit(Agent, r))
    <2>1. traced' = traced + Total /\ Return(read)
        BY <1>4 DEF Answer
    <2>2. traced + Total = traced + usage + 1
        BY DEF TypeOK, Total
    <2>3. Awaiting /\ meter' = meter + 1 /\ UNCHANGED <<scene, embedded>>
        BY DEF Answer, Record
    <2> HIDE DEF read
    <2> QED
        BY <1>1, <2>1, <2>2, <2>3
<1> QED
    BY <1>2, <1>3, <1>4

LEMMA RaiseFact ==
    ASSUME Raise
    PROVE  pc' = "ended" /\ status' \in {"failed", "crashed"}
BY DEF Raise, End

\* Run e is recorded, and noticed for what it was.
Added(e) ==
    /\ runs' = Append(runs, e)
    /\ seen' = IF e.tool \in Judged
               THEN [seen EXCEPT ![e.tool] = IF Good(e.tool, e) THEN "good"
                                             ELSE "bad"]
               ELSE seen

ToolStep ==
    FailStep \/ RunInside
      \/ \E output \in {"green", "red", "nothing"} : Collect(output)

\* A tool call that ends leaves one run in the list.
LEMMA ToolFact ==
    ASSUME TypeOK, InTool, ToolStep
    PROVE  /\ pc \in {"tools", "process"} /\ pc' = "tools"
           /\ calls # << >> /\ calls' = Tail(calls)
           /\ \E e \in Run : Added(e)
           /\ UNCHANGED <<specialist, provider, attempt, ask, try, usage,
                          meter, traced, embedded, workdir, status>>
           /\ proc' = IF pc = "tools" THEN proc
                      ELSE [proc EXCEPT !.leader = "none", !.late = FALSE]
           /\ pc = "process" => Drained
<1> DEFINE tool == Head(calls)
<1>1. CASE FailStep
    <2>1. pc = "tools" /\ calls # << >> /\ Fails
        BY <1>1, FailFact
    <2> DEFINE e == Result(tool, FALSE, "nothing")
    <2>2. tool \in STRING
        BY <2>1 DEF TypeOK
    <2>3. e \in Run /\ Added(e)
        BY <2>1, <2>2 DEF Fails, Notice, Result, Run, Added, Good
    <2> HIDE DEF e
    <2> QED
        BY <2>1, <2>3 DEF Fails, scene, asking, ledger
<1>2. CASE RunInside
    <2> DEFINE e == Result(tool, TRUE, "nothing")
    <2>1. tool \in STRING /\ tool \notin Judged
        BY <1>2 DEF RunInside, TypeOK, InProcess, Judged
    <2>2. e \in Run /\ Added(e)
        BY <1>2, <2>1 DEF RunInside, Result, Run, Added
    <2> HIDE DEF e
    <2> QED
        BY <1>2, <2>2 DEF RunInside, scene, asking, ledger
<1>3. ASSUME NEW output \in {"green", "red", "nothing"}, Collect(output)
      PROVE  /\ pc = "process" /\ pc' = "tools" /\ Drained
             /\ calls # << >> /\ calls' = Tail(calls)
             /\ \E e \in Run : Added(e)
             /\ UNCHANGED <<specialist, provider, attempt, ask, try, usage,
                            meter, traced, embedded, workdir, status>>
             /\ proc' = [proc EXCEPT !.leader = "none", !.late = FALSE]
    <2> DEFINE ok == IF tool = "pytest_run" THEN TestsOk(output) ELSE ProgramOk
               e == Result(tool, ok, output)
    <2>1. pc = "process" /\ calls # << >> /\ tool \in STRING
        BY <1>3 DEF Collect, InTool, TypeOK
    <2>2. ok \in BOOLEAN
        BY DEF TestsOk, ProgramOk, Exited
    <2>3. e \in Run /\ e.tool = tool /\ e.ok = ok /\ e.output = output
        BY <2>1, <2>2 DEF Result, Run
    <2>4. runs' = Append(runs, e)
        BY <1>3 DEF Collect
    <2>5. Good(tool, e) <=>
            Exited /\ (tool = "pytest_run" => output = "green")
        BY <2>3 DEF Good, TestsOk, ProgramOk
    <2>6. Notice(tool, Exited /\ (tool = "pytest_run" => output = "green"))
        BY <1>3 DEF Collect
    <2> HIDE DEF e, ok
    <2>7. Added(e)
        BY <2>3, <2>4, <2>5, <2>6 DEF Added, Notice
    <2> QED
        BY <1>3, <2>1, <2>3, <2>7 DEF Collect, scene, asking, ledger
<1> QED
    BY <1>1, <1>2, <1>3 DEF ToolStep

-----------------------------------------------------------------------------
(* Types and control.                                                      *)

LEMMA InitInv == Init => IInv
<1> SUFFICES ASSUME Init PROVE IInv
    OBVIOUS
<1> USE AttemptAssumption DEF Init, Idle, Unseen, Judged
<1>1. TypeOK
    <2>1. /\ seen \in [Judged -> {"never", "good", "bad"}]
          /\ runs \in Seq([tool : STRING, ok : BOOLEAN,
                           output : {"green", "red", "nothing"}])
        OBVIOUS
    <2>2. proc \in [leader : {"none", "running", "zero", "nonzero", "killed"},
                   holding : BOOLEAN, loose : BOOLEAN, late : BOOLEAN]
        OBVIOUS
    <2>3. attempt \in 1 .. MaxAttempts /\ try \in 0 .. Tries
        OBVIOUS
    <2>4. calls \in Seq(STRING)
        <3>1. << >> \in Seq(STRING) /\ calls = << >>
            OBVIOUS
        <3> QED
            BY ONLY <3>1
    <2>6. /\ meter \in Nat /\ traced \in Nat /\ embedded \in Nat
          /\ ask \in 0 .. 2 /\ usage \in 0 .. 2
        OBVIOUS
    <2>7. workdir \in BOOLEAN
        OBVIOUS
    <2>5. specialist \in Specialists /\ provider \in Providers
          /\ pc = "context" /\ status = "running"
        OBVIOUS
    <2> HIDE DEF Init
    <2> QED
        BY <2>1, <2>2, <2>3, <2>4, <2>5, <2>6, <2>7 DEF TypeOK
<1>2. Control /\ Books /\ NoTools /\ InTool /\ PassIsEarned
    BY DEF Control, Books, Agents, NoTools, InTool, PassIsEarned
<1>3. \A t : RunsOf(t) = {}
    BY DEF RunsOf
<1>4. Witnessed
    BY <1>3 DEF Witnessed, HasLatest
<1>5. Watched
    BY DEF Watched, HoldersWatched
<1> QED
    BY <1>1, <1>2, <1>4, <1>5 DEF IInv

LEMMA ControlStep == TypeOK /\ Control /\ [Next]_vars => Control'
<1> SUFFICES ASSUME TypeOK, Control, [Next]_vars PROVE Control'
    OBVIOUS
<1> USE DEF Control, Agents
<1>1. CASE BuildContext
    BY <1>1, RaiseFact DEF BuildContext, Await
<1>2. CASE SilentReturns
    <2>1. CASE Return(Default)
        BY <1>2, <2>1, ReturnFact DEF SilentReturns, Returned
    <2>2. CASE Raise
        BY <2>2, RaiseFact
    <2> QED
        BY <1>2, <2>1, <2>2 DEF SilentReturns
<1>3. CASE JudgeByTools
    BY <1>3, AttemptAssumption
    DEF JudgeByTools, Conclude, End, Await, TypeOK
<1>4. CASE ErrorStep
    BY <1>4, RaiseFact DEF ErrorStep, Retry
<1>5. ASSUME NEW r \in Replies(Agent), Answer(r) PROVE Control'
    <2>1. CASE Raise
        BY <2>1, RaiseFact
    <2>2. ASSUME NEW s \in Replies(Agent) \cup {Default}, Return(s)
          PROVE  Control'
        BY <2>2, ReturnFact DEF Returned
    <2> QED
        BY <1>5, <2>1, <2>2, AnswerFact
<1>6. CASE FailStep \/ RunInside \/ ProcessStep \/ UNCHANGED vars
    BY <1>6, FailFact, ProcessFact DEF Fails, RunInside, vars
<1>7. CASE Spawn \/ LeaveWorkdir
    BY <1>7 DEF Spawn, LeaveWorkdir, Await
<1>8. ASSUME NEW output, Collect(output) PROVE Control'
    BY <1>8 DEF Collect
<1>9. CASE Cancel
    BY <1>9 DEF Cancel, End
<1> QED
    BY <1>1, <1>2, <1>3, <1>4, <1>5, <1>6, <1>7, <1>8, <1>9, StepKinds

LEMMA TypeStep ==
    TypeOK /\ Control /\ Books /\ InTool /\ [Next]_vars => TypeOK'
<1> SUFFICES ASSUME TypeOK, Control, Books, InTool, [Next]_vars PROVE TypeOK'
    OBVIOUS
<1> USE AttemptAssumption
<1>13. ASSUME Embed
       PROVE  meter' \in Nat /\ traced' \in Nat /\ embedded' \in Nat
    BY <1>13, EmbedFact DEF TypeOK
<1>1. CASE BuildContext
    <2>1. meter' \in Nat /\ traced' \in Nat /\ embedded' \in Nat
        BY <1>1, <1>13 DEF BuildContext
    <2> QED
        BY <1>1, <2>1 DEF BuildContext, Raise, End, Await, TypeOK, scene,
                          asking, batch
<1>2. ASSUME NEW r, r \in Replies(Agent) \cup {Default}, Return(r),
             meter' \in Nat, traced' \in Nat, embedded' \in Nat, UNCHANGED scene
      PROVE  TypeOK'
    <2>1. r.tools \in Seq(STRING)
        BY <1>2, ReplyFact
    <2>2. Unseen \in [Judged -> {"never", "good", "bad"}]
        BY DEF Unseen
    <2>3. Returned(r)
        BY <1>2, ReturnFact
    <2>4. /\ pc' \in {"context", "evaluator", "reflector", "tools", "ended"}
          /\ attempt' \in 1 .. MaxAttempts
        BY <2>3 DEF Returned, TypeOK, Control
    <2>5. ask' \in 0 .. 2 /\ try' \in 0 .. Tries /\ usage' \in 0 .. 2
        <3>1. pc' \in Agents \/ pc' \notin Agents
            OBVIOUS
        <3> QED
            BY <2>3, <3>1 DEF Returned
    <2>6. /\ status' \in {"running", "passed", "failed", "crashed", "cancelled"}
          /\ workdir' \in BOOLEAN /\ proc' = proc
        BY <2>3 DEF Returned, TypeOK
    <2>7. seen' \in [Judged -> {"never", "good", "bad"}]
        BY <2>2, <2>3 DEF Returned, TypeOK
    <2>8. calls' \in Seq(STRING)
        BY <2>1, <2>3 DEF Returned, TypeOK
    <2>9. runs' \in Seq(Run)
        <3>1. << >> \in Seq(Run) /\ runs \in Seq(Run)
            BY DEF TypeOK, Run
        <3>2. runs' = << >> \/ runs' = runs
            BY <2>3 DEF Returned
        <3> QED
            BY <3>1, <3>2
    <2> QED
        BY <1>2, <2>4, <2>5, <2>6, <2>7, <2>8, <2>9 DEF TypeOK, scene, Run
<1>3. CASE SilentReturns
    <2>1. /\ UNCHANGED scene
          /\ meter' \in Nat /\ traced' \in Nat /\ embedded' \in Nat
        BY <1>3, <1>13 DEF SilentReturns
    <2>2. CASE Return(Default)
        BY <1>2, <2>1, <2>2
    <2>3. CASE Raise /\ UNCHANGED <<asking, attempt, batch>>
        BY <1>3, <2>1, <2>3
        DEF Raise, End, TypeOK, scene, asking, batch
    <2> QED
        BY <1>3, <2>2, <2>3 DEF SilentReturns
<1>4. CASE JudgeByTools
    BY <1>4 DEF JudgeByTools, Conclude, End, Await, Rest, TypeOK, scene,
                ledger, batch
<1>5. CASE ErrorStep
    BY <1>5 DEF ErrorStep, Retry, Raise, End, TypeOK, scene, asking, ledger,
                batch
<1>6. ASSUME NEW r \in Replies(Agent), Answer(r) PROVE TypeOK'
    <2>1. /\ Awaiting /\ meter' = meter + 1 /\ UNCHANGED <<scene, embedded>>
          /\ embedded \in Nat
          /\ pc \in Agents /\ ask >= 1 /\ usage = ask - 1 /\ ask \in 0 .. 2
          /\ meter \in Nat /\ traced \in Nat /\ usage \in 0 .. 2
        BY <1>6, AnswerFact DEF Awaiting, Books, Agents, TypeOK
    <2>2. CASE /\ ask = 1 /\ ask' = 2 /\ try' = 1 /\ usage' = usage + 1
               /\ UNCHANGED <<pc, status, attempt, traced, batch>>
        BY <2>1, <2>2 DEF TypeOK, scene, batch
    <2>3. CASE /\ Raise /\ usage' = usage + 1
               /\ UNCHANGED <<ask, try, attempt, traced, batch>>
        <3>1. usage' \in 0 .. 2 /\ meter' \in Nat
            BY <2>1, <2>3
        <3> QED
            BY <2>1, <2>3, <3>1, RaiseFact DEF TypeOK, scene, batch
    <2>4. CASE /\ traced' = traced + usage + 1
               /\ \E s \in Replies(Agent) \cup {Default} : Return(s)
        <3>1. traced' \in Nat /\ meter' \in Nat
            BY <2>1, <2>4
        <3> QED
            BY <1>2, <2>1, <2>4, <3>1
    <2> QED
        BY <1>6, <2>2, <2>3, <2>4, AnswerFact
<1>7. CASE ToolStep
    <2>1. PICK e \in Run : runs' = Append(runs, e)
        BY <1>7, ToolFact DEF Added
    <2>2. runs' \in Seq([tool : STRING, ok : BOOLEAN,
                        output : {"green", "red", "nothing"}])
        BY <2>1 DEF TypeOK, Run
    <2>3. seen' \in [Judged -> {"never", "good", "bad"}]
        BY <1>7, ToolFact DEF Added, TypeOK
    <2>4. calls' \in Seq(STRING)
        <3>1. calls \in Seq(STRING) /\ calls # << >> /\ calls' = Tail(calls)
            BY <1>7, ToolFact DEF TypeOK
        <3> QED
            BY <3>1
    <2>5. proc' \in [leader : {"none", "running", "zero", "nonzero", "killed"},
                    holding : BOOLEAN, loose : BOOLEAN, late : BOOLEAN]
        <3>1. proc' = IF pc = "tools" THEN proc
                      ELSE [proc EXCEPT !.leader = "none", !.late = FALSE]
            BY <1>7, ToolFact
        <3> QED
            BY <3>1 DEF TypeOK
    <2> QED
        BY <1>7, <2>2, <2>3, <2>4, <2>5, ToolFact DEF TypeOK
<1>8. CASE ProcessStep
    <2>1. proc' \in [leader : {"none", "running", "zero", "nonzero", "killed"},
                    holding : BOOLEAN, loose : BOOLEAN, late : BOOLEAN]
        <3>1. CASE LeaderForks \/ Detach \/ ChildExits \/ Expire
            <4>1. CASE LeaderForks
                BY <4>1 DEF LeaderForks, TypeOK
            <4>2. CASE Detach
                BY <4>2 DEF Detach, TypeOK
            <4>3. CASE ChildExits
                BY <4>3 DEF ChildExits, TypeOK
            <4>4. CASE Expire
                BY <4>4 DEF Expire, Killed, TypeOK
            <4> QED
                BY <3>1, <4>1, <4>2, <4>3, <4>4
        <3>2. ASSUME NEW code \in {"zero", "nonzero"}, LeaderExits(code)
              PROVE  proc' \in [leader : {"none", "running", "zero", "nonzero", "killed"},
                                holding : BOOLEAN, loose : BOOLEAN, late : BOOLEAN]
            BY <3>2 DEF LeaderExits, TypeOK
        <3> QED
            BY <1>8, <3>1, <3>2 DEF ProcessStep
    <2> QED
        BY <1>8, <2>1, ProcessFact DEF TypeOK
<1>9. CASE Spawn
    BY <1>9 DEF Spawn, TypeOK, scene, asking, ledger
<1>10. CASE LeaveWorkdir
    <2>1. ask' = 1 /\ try' = 1 /\ usage' = 0
        BY <1>10 DEF LeaveWorkdir, Await
    <2>2. try' \in 0 .. Tries /\ ask' \in 0 .. 2 /\ usage' \in 0 .. 2
        BY <2>1
    <2> QED
        BY <1>10, <2>2 DEF LeaveWorkdir, Await, TypeOK, scene, ledger
<1>11. CASE Cancel
    <2>1. meter' \in Nat /\ traced' \in Nat /\ embedded' \in Nat
        BY <1>11, <1>13 DEF Cancel
    <2> QED
        BY <1>11, <2>1 DEF Cancel, End, TypeOK, scene, asking
<1>12. CASE UNCHANGED vars
    BY <1>12 DEF vars, TypeOK, scene, asking, ledger, batch
<1> QED
    BY <1>1, <1>3, <1>4, <1>5, <1>6, <1>7, <1>8, <1>9, <1>10, <1>11, <1>12,
       StepKinds DEF ToolStep

-----------------------------------------------------------------------------
(* The ledger of the usage.                                                *)

\* The agent in hand asks the same things of the model as long as neither
\* the control point nor the runs change.
LEMMA SameAgent ==
    ASSUME UNCHANGED <<pc, specialist>>
    PROVE  Agent' = Agent
BY DEF Agent

LEMMA BooksStep ==
    TypeOK /\ Control /\ InTool /\ Books /\ [Next]_vars => Books'
<1> SUFFICES ASSUME TypeOK, Control, InTool, Books, [Next]_vars PROVE Books'
    OBVIOUS
<1>1. /\ meter \in Nat /\ traced \in Nat /\ usage \in Nat /\ ask \in Nat
      /\ embedded \in Nat /\ try \in Nat
      /\ meter = traced + usage + embedded /\ usage <= ask
    BY DEF TypeOK, Books
\* Nothing is used at a fresh start, whatever comes next.
<1>2. ASSUME usage' = 0, meter' = traced' + usage' + embedded',
             \/ pc' \in Agents /\ ask' = 1 /\ try' = 1
             \/ pc' \notin Agents /\ ask' \in Nat
      PROVE  Books'
    <2>1. usage' <= ask'
        BY <1>2
    <2>2. pc' \in Agents => ask' >= 1 /\ usage' = ask' - 1 /\ try' >= 1
        BY <1>2
    <2> QED
        BY <1>2, <2>1, <2>2 DEF Books
\* An end that settles nothing leaves the ledger as it is.
<1>3. ASSUME pc' = "ended", status' # "passed", usage' <= ask',
             meter' = traced' + usage' + embedded'
      PROVE  Books'
    BY <1>3 DEF Books, Agents
\* Nor does embedding disturb the balance.
<1>15. ASSUME Embed
       PROVE  /\ traced' = traced /\ embedded' \in Nat
              /\ meter' = traced + usage + embedded'
    BY <1>1, <1>15, EmbedFact
<1>4. CASE BuildContext
    <2>1. usage = 0 /\ traced' = traced /\ meter' = traced + usage + embedded'
        BY <1>4, <1>15 DEF BuildContext, Books
    <2>2. CASE Await("specialist")
        BY <1>2, <2>1, <2>2 DEF Await, Agents
    <2>3. CASE Raise /\ UNCHANGED asking
        BY <1>1, <1>3, <2>1, <2>3, RaiseFact DEF asking
    <2> QED
        BY <1>4, <2>2, <2>3 DEF BuildContext
<1>5. ASSUME NEW s \in Replies(Agent) \cup {Default}, Return(s),
             meter' = traced' + embedded', traced' \in Nat, embedded' \in Nat
      PROVE  Books'
    <2>1. Returned(s)
        BY <1>5, ReturnFact
    <2>2. usage' = 0 /\ (pc' \in Agents => ask' = 1 /\ try' = 1)
          /\ (pc' \notin Agents => ask' = 0)
        BY <2>1 DEF Returned
    <2>3. meter' = traced' + usage' + embedded'
        <3>1. \A n, m \in Nat : n + m = n + 0 + m
            OBVIOUS
        <3> QED
            BY <1>5, <2>2, <3>1
    <2> QED
        BY <1>2, <2>2, <2>3
<1>6. CASE SilentReturns
    <2>1. /\ traced' = traced /\ usage = 0 /\ embedded' \in Nat
          /\ meter' = traced + usage + embedded'
        BY <1>6, <1>15 DEF SilentReturns, Books
    <2>2. CASE Return(Default)
        BY <1>1, <1>5, <2>1, <2>2
    <2>3. CASE Raise /\ UNCHANGED asking
        BY <1>1, <1>3, <2>1, <2>3, RaiseFact DEF asking
    <2> QED
        BY <1>6, <2>2, <2>3 DEF SilentReturns
<1>7. CASE JudgeByTools
    <2>1. UNCHANGED <<meter, traced, embedded>> /\ usage = 0
        BY <1>7 DEF JudgeByTools, ledger, Books
    <2>2. /\ usage' = 0
          /\ \/ pc' \in Agents /\ ask' = 1 /\ try' = 1
             \/ pc' \notin Agents /\ ask' \in Nat
        BY <1>7 DEF JudgeByTools, Conclude, Await, Rest, End, Agents
    <2> QED
        BY <1>1, <1>2, <2>1, <2>2
<1>8. CASE ErrorStep
    <2>1. PICK retriable \in BOOLEAN : Awaiting /\ Retry(retriable)
        BY <1>8 DEF ErrorStep
    <2>2. UNCHANGED <<meter, traced, embedded, usage, ask, runs, specialist>>
        BY <2>1 DEF Retry, asking, ledger, batch, scene
    <2>3. CASE try' = try + 1 /\ UNCHANGED <<pc, status>>
        BY <1>1, <2>2, <2>3, SameRuns, SameAgent DEF Books
    <2>4. CASE Raise
        BY <1>1, <1>3, <2>2, <2>4, RaiseFact
    <2> QED
        BY <2>1, <2>3, <2>4 DEF Retry
<1>9. ASSUME NEW r \in Replies(Agent), Answer(r) PROVE Books'
    <2>1. Awaiting /\ meter' = meter + 1 /\ UNCHANGED <<scene, embedded>>
        BY <1>9, AnswerFact
    <2>2. /\ pc \in Agents /\ Agent \notin Silent
          /\ pc = "evaluator" => MechanicalVerdict = "none"
          /\ usage = ask - 1
        BY <2>1 DEF Awaiting, Books, Agents
    <2>3. CASE /\ ask = 1 /\ ask' = 2 /\ try' = 1 /\ usage' = usage + 1
               /\ UNCHANGED <<pc, status, attempt, traced, batch>>
        <3>1. Agent' = Agent /\ MechanicalVerdict' = MechanicalVerdict
            BY <2>1, <2>3, SameRuns, SameAgent DEF scene, batch
        <3>2. status # "passed"
            BY <2>2 DEF Control, Agents
        <3> QED
            BY <1>1, <2>1, <2>2, <2>3, <3>1, <3>2 DEF Books, Agents
    <2>4. CASE /\ Raise /\ usage' = usage + 1
               /\ UNCHANGED <<ask, try, attempt, traced, batch>>
        <3>1. pc' = "ended" /\ status' # "passed"
            BY <2>4, RaiseFact
        <3>2. meter' = traced' + usage' + embedded' /\ usage' <= ask'
            BY <1>1, <2>1, <2>2, <2>4
        <3> QED
            BY <1>3, <3>1, <3>2
    <2>5. CASE /\ traced' = traced + usage + 1
               /\ \E s \in Replies(Agent) \cup {Default} : Return(s)
        <3>1. meter' = traced' + embedded' /\ traced' \in Nat /\ embedded' \in Nat
            BY <1>1, <2>1, <2>5
        <3> QED
            BY <1>5, <2>5, <3>1
    <2> QED
        BY <1>9, <2>3, <2>4, <2>5, AnswerFact
<1>10. CASE ToolStep
    <2>1. /\ pc \in {"tools", "process"} /\ pc' = "tools"
          /\ UNCHANGED <<meter, traced, embedded, usage, ask, status>>
        BY <1>10, ToolFact
    <2>2. usage = 0
        BY <2>1 DEF Books
    <2> QED
        BY <1>1, <1>2, <2>1, <2>2 DEF Agents
<1>11. CASE ProcessStep
    <2>1. /\ UNCHANGED <<pc, specialist, ask, try, usage, meter, traced,
                         embedded, status, runs>>
        BY <1>11, ProcessFact
    <2> QED
        BY <2>1, SameRuns, SameAgent DEF Books
<1>12. CASE Spawn \/ LeaveWorkdir
    <2>1. usage = 0 /\ UNCHANGED <<meter, traced, embedded>>
        BY <1>12 DEF Spawn, LeaveWorkdir, Books, ledger
    <2>2. /\ usage' = 0
          /\ \/ pc' \in Agents /\ ask' = 1 /\ try' = 1
             \/ pc' \notin Agents /\ ask' \in Nat
        BY <1>1, <1>12, <2>1 DEF Spawn, LeaveWorkdir, Await, asking, Agents
    <2> QED
        BY <1>1, <1>2, <2>1, <2>2
<1>13. CASE Cancel
    BY <1>1, <1>3, <1>13, <1>15 DEF Cancel, End, asking
<1>14. CASE UNCHANGED vars
    <2>1. /\ UNCHANGED <<pc, specialist, ask, try, usage, meter, traced,
                         embedded, status, runs>>
        BY <1>14 DEF vars, scene, asking, ledger, batch
    <2> QED
        BY <2>1, SameRuns, SameAgent DEF Books
<1> QED
    BY <1>4, <1>6, <1>7, <1>8, <1>9, <1>10, <1>11, <1>12, <1>13, <1>14,
       StepKinds DEF ToolStep

-----------------------------------------------------------------------------
(* The tool runs and what was seen of them.                                *)

\* What a step does to the runs: nothing, a new list, or one run more.
LEMMA RunsKinds ==
    ASSUME TypeOK, InTool, [Next]_vars
    PROVE  \/ UNCHANGED <<runs, seen>>
           \/ runs' = << >> /\ seen' = Unseen
           \/ \E e \in Run : Added(e)
<1>1. ASSUME NEW s \in Replies(Agent) \cup {Default}, Return(s)
      PROVE  \/ UNCHANGED <<runs, seen>>
             \/ runs' = << >> /\ seen' = Unseen
    BY <1>1, ReturnFact DEF Returned
<1>2. CASE SilentReturns
    BY <1>1, <1>2 DEF SilentReturns, batch
<1>3. ASSUME NEW r \in Replies(Agent), Answer(r)
      PROVE  \/ UNCHANGED <<runs, seen>>
             \/ runs' = << >> /\ seen' = Unseen
    BY <1>1, <1>3, AnswerFact DEF batch
<1>4. CASE ToolStep
    BY <1>4, ToolFact
<1>5. CASE \/ BuildContext \/ JudgeByTools \/ ErrorStep \/ Spawn
           \/ LeaveWorkdir \/ ProcessStep \/ Cancel \/ UNCHANGED vars
    BY <1>5, ProcessFact
    DEF BuildContext, JudgeByTools, ErrorStep, Retry, Spawn, LeaveWorkdir,
        Cancel, vars, batch
<1> QED
    BY <1>2, <1>3, <1>4, <1>5, StepKinds DEF ToolStep

LEMMA WitnessedStep ==
    TypeOK /\ InTool /\ Witnessed /\ [Next]_vars => Witnessed'
<1> SUFFICES ASSUME TypeOK, InTool, Witnessed, [Next]_vars PROVE Witnessed'
    OBVIOUS
<1>1. CASE UNCHANGED <<runs, seen>>
    BY <1>1, SameRuns DEF Witnessed
<1>2. CASE runs' = << >> /\ seen' = Unseen
    <2>1. \A t : RunsOf(t)' = {}
        BY <1>2, NoRunFact
    <2> QED
        BY <1>2, <2>1 DEF Witnessed, HasLatest, Unseen
<1>3. ASSUME NEW e \in Run, Added(e) PROVE Witnessed'
    <2> SUFFICES ASSUME NEW t \in Judged
                 PROVE  /\ HasLatest(t)'
                        /\ seen'[t] = "never" <=> RunsOf(t)' = {}
                        /\ RunsOf(t)' # {} =>
                             (seen'[t] = "good" <=> Good(t, Latest(t)'))
        BY DEF Witnessed, Good
    <2>1. /\ runs \in Seq(Run) /\ runs' = Append(runs, e) /\ HasLatest(t)
          /\ seen \in [Judged -> {"never", "good", "bad"}]
        BY <1>3 DEF Added, TypeOK, Run, Witnessed
    <2>2. CASE e.tool = t
        <3>1. HasLatest(t)' /\ RunsOf(t)' # {} /\ Latest(t)' = e
            BY <2>1, <2>2, AppendFact
        <3>2. seen'[t] = IF Good(t, e) THEN "good" ELSE "bad"
            BY <1>3, <2>1, <2>2 DEF Added
        <3> QED
            BY <3>1, <3>2
    <2>3. CASE e.tool # t
        <3>1. /\ HasLatest(t)' /\ RunsOf(t)' = RunsOf(t)
              /\ RunsOf(t) # {} => Latest(t)' = Latest(t)
            BY <2>1, <2>3, AppendFact
        <3>2. seen'[t] = seen[t]
            BY <1>3, <2>1, <2>3 DEF Added
        <3> QED
            BY <3>1, <3>2 DEF Witnessed
    <2> QED
        BY <2>2, <2>3
<1> QED
    BY <1>1, <1>2, <1>3, RunsKinds

-----------------------------------------------------------------------------
(* The batch and its processes.                                            *)

LEMMA NoToolsStep ==
    TypeOK /\ InTool /\ NoTools /\ [Next]_vars => NoTools'
<1> SUFFICES ASSUME TypeOK, InTool, NoTools, [Next]_vars, Offline'
             PROVE  /\ runs' = << >> /\ calls' = << >>
                    /\ pc' \notin {"tools", "process"}
    BY DEF NoTools
<1>1. provider' = provider
    <2>1. CASE ToolStep \/ ProcessStep
        BY <2>1, ToolFact, ProcessFact
    <2>2. CASE \E r \in Replies(Agent) : Answer(r)
        BY <2>2, AnswerFact DEF scene
    <2> QED
        BY <2>1, <2>2, StepKinds
        DEF ToolStep, BuildContext, SilentReturns, JudgeByTools, ErrorStep,
            Retry, Spawn, LeaveWorkdir, Cancel, vars, scene
<1>2. Offline /\ runs = << >> /\ calls = << >> /\ pc \notin {"tools", "process"}
    BY <1>1 DEF Offline, NoTools
<1>3. ASSUME NEW s \in Replies(Agent) \cup {Default}, Return(s)
      PROVE  /\ runs' = << >> /\ calls' = << >>
             /\ pc' \notin {"tools", "process"}
    <2>1. s.tools = << >>
        BY <1>2, ReplyFact
    <2>2. Returned(s)
        BY <1>3, ReturnFact
    <2> QED
        BY <1>2, <2>1, <2>2 DEF Returned
<1>4. ASSUME pc' = "ended" \/ pc' = pc, UNCHANGED <<runs, calls>>
      PROVE  /\ runs' = << >> /\ calls' = << >>
             /\ pc' \notin {"tools", "process"}
    BY <1>2, <1>4
<1>5. CASE SilentReturns
    BY <1>3, <1>4, <1>5, RaiseFact DEF SilentReturns, batch
<1>6. ASSUME NEW r \in Replies(Agent), Answer(r)
      PROVE  /\ runs' = << >> /\ calls' = << >>
             /\ pc' \notin {"tools", "process"}
    BY <1>3, <1>4, <1>6, AnswerFact, RaiseFact DEF batch
<1>7. CASE BuildContext \/ JudgeByTools
    BY <1>2, <1>7, RaiseFact
    DEF BuildContext, JudgeByTools, Conclude, End, Await, batch
<1>8. CASE ErrorStep
    BY <1>4, <1>8, RaiseFact DEF ErrorStep, Retry, batch
<1>9. CASE ToolStep \/ Spawn \/ LeaveWorkdir
    BY <1>2, <1>9, ToolFact DEF Spawn, LeaveWorkdir
<1>10. CASE ProcessStep
    BY <1>4, <1>10, ProcessFact
<1>11. CASE Cancel \/ UNCHANGED vars
    BY <1>4, <1>11 DEF Cancel, End, vars, batch
<1> QED
    BY <1>5, <1>6, <1>7, <1>8, <1>9, <1>10, <1>11, StepKinds DEF ToolStep

LEMMA InToolStep == TypeOK /\ InTool /\ [Next]_vars => InTool'
<1> SUFFICES ASSUME TypeOK, InTool, [Next]_vars, pc' = "process"
             PROVE  calls' # << >> /\ Head(calls') \in Executing
    BY DEF InTool
<1>1. CASE Spawn
    BY <1>1 DEF Spawn
<1>2. CASE ~Spawn
    <2>1. UNCHANGED <<pc, calls>>
        <3>1. CASE SilentReturns
            BY <3>1, ReturnFact, RaiseFact DEF SilentReturns, Returned
        <3>2. ASSUME NEW r \in Replies(Agent), Answer(r)
              PROVE  UNCHANGED <<pc, calls>>
            BY <3>2, AnswerFact, ReturnFact, RaiseFact DEF Returned, batch
        <3>3. CASE BuildContext \/ JudgeByTools
            BY <3>3, RaiseFact
            DEF BuildContext, JudgeByTools, Conclude, End, Await
        <3>4. CASE ErrorStep
            BY <3>4, RaiseFact DEF ErrorStep, Retry, batch
        <3>5. CASE ToolStep \/ ProcessStep
            BY <3>5, ToolFact, ProcessFact
        <3>6. CASE LeaveWorkdir \/ Cancel \/ UNCHANGED vars
            BY <3>6 DEF LeaveWorkdir, Await, Cancel, End, vars, batch
        <3> QED
            BY <1>2, <3>1, <3>2, <3>3, <3>4, <3>5, <3>6, StepKinds
            DEF ToolStep
    <2> QED
        BY <2>1 DEF InTool
<1> QED
    BY <1>1, <1>2

\* The workdir goes with the batch, the process of a tool with its call.
LEMMA WatchedStep ==
    TypeOK /\ Control /\ InTool /\ Watched /\ [Next]_vars => Watched'
<1> SUFFICES ASSUME TypeOK, Control, InTool, Watched, [Next]_vars
             PROVE  HoldersWatched'
    BY DEF Watched
<1> USE DEF Watched, HoldersWatched
<1>1. ASSUME NEW s \in Replies(Agent) \cup {Default}, Return(s)
      PROVE  HoldersWatched'
    <2>1. Returned(s)
        BY <1>1, ReturnFact
    <2>2. pc \in Agents /\ status = "running"
        BY <2>1 DEF Returned, Control, Agents
    <2> QED
        BY <2>1, <2>2 DEF Returned, Agents
<1>2. ASSUME pc \in Agents \cup {"context"}, UNCHANGED <<workdir, proc>>,
             pc' \notin {"tools", "process"}
      PROVE  HoldersWatched'
    BY <1>2 DEF Agents, Control
<1>3. CASE SilentReturns
    BY <1>1, <1>2, <1>3, RaiseFact DEF SilentReturns, batch, Agents
<1>4. ASSUME NEW r \in Replies(Agent), Answer(r) PROVE HoldersWatched'
    <2>1. pc \in Agents
        BY <1>4, AnswerFact DEF Awaiting, Agents
    <2> QED
        BY <1>1, <1>2, <1>4, <2>1, AnswerFact, RaiseFact DEF batch, Agents
<1>5. CASE BuildContext \/ JudgeByTools
    BY <1>2, <1>5, RaiseFact
    DEF BuildContext, JudgeByTools, Conclude, End, Await, batch, Agents
<1>6. CASE ErrorStep
    BY <1>2, <1>6, RaiseFact DEF ErrorStep, Awaiting, Retry, batch, Agents
<1>7. CASE ToolStep
    <2>1. /\ pc \in {"tools", "process"} /\ pc' = "tools"
          /\ UNCHANGED <<workdir, status>>
          /\ proc' = IF pc = "tools" THEN proc
                     ELSE [proc EXCEPT !.leader = "none", !.late = FALSE]
          /\ pc = "process" => ~proc.holding
        BY <1>7, ToolFact DEF Drained
    <2>2. proc'.leader # "running" /\ ~proc'.holding
        BY <2>1 DEF TypeOK, Control
    <2> QED
        BY <2>1, <2>2
<1>8. CASE ProcessStep
    <2>1. UNCHANGED <<pc, status, workdir>>
        BY <1>8, ProcessFact
    <2>2. CASE pc = "process" \/ status = "cancelled"
        BY <2>1, <2>2
    <2>3. CASE pc # "process" /\ status # "cancelled"
        <3>1. proc.leader # "running" /\ ~proc.holding
            BY <2>3
        <3> QED
            <4>1. CASE LeaderForks \/ Detach \/ Expire
                BY <4>1, <2>3, <3>1 DEF LeaderForks, Detach, Expire
            <4>2. CASE ChildExits
                BY <4>2, <2>1, <3>1 DEF ChildExits, TypeOK
            <4>3. ASSUME NEW code \in {"zero", "nonzero"}, LeaderExits(code)
                  PROVE  HoldersWatched'
                BY <4>3, <3>1 DEF LeaderExits
            <4> QED
                BY <1>8, <4>1, <4>2, <4>3 DEF ProcessStep
    <2> QED
        BY <2>2, <2>3
<1>9. CASE Spawn
    BY <1>9 DEF Spawn
<1>10. CASE LeaveWorkdir
    BY <1>10 DEF LeaveWorkdir, Await, Control
<1>11. CASE Cancel
    BY <1>11 DEF Cancel, End
<1>12. CASE UNCHANGED vars
    BY <1>12 DEF vars, batch
<1> QED
    BY <1>3, <1>4, <1>5, <1>6, <1>7, <1>8, <1>9, <1>10, <1>11, <1>12,
       StepKinds DEF ToolStep

-----------------------------------------------------------------------------
(* What a pass needs.                                                      *)

LEMMA EarnedStep ==
    IInv /\ [Next]_vars => PassIsEarned'
<1> SUFFICES ASSUME IInv, [Next]_vars, status' = "passed"
             PROVE  /\ \/ seen'["pytest_run"] = "good"
                       \/ seen'["pytest_run"] = "never"
                            /\ seen'["python_exec"] # "bad"
                    /\ ~Offline'
    BY DEF PassIsEarned
<1> USE DEF IInv
<1> DEFINE Earned == /\ \/ seen["pytest_run"] = "good"
                        \/ seen["pytest_run"] = "never"
                             /\ seen["python_exec"] # "bad"
                     /\ ~Offline
<1>1. ASSUME UNCHANGED <<status, seen, provider>> PROVE Earned'
    BY <1>1 DEF PassIsEarned, Offline
<1>2. ASSUME NEW s \in Replies(Agent) \cup {Default}, Return(s), Awaiting,
             UNCHANGED scene
      PROVE  Earned'
    <2>1. Returned(s)
        BY <1>2, ReturnFact
    <2>2. pc = "evaluator" /\ s.passed /\ UNCHANGED seen
        BY <2>1 DEF Returned, Control, Agents
    <2>3. ~Offline
        BY <2>2, ReplyFact
    <2>4. MechanicalVerdict = "none"
        BY <1>2, <2>2 DEF Awaiting
    <2>5. seen["pytest_run"] = "never" /\ seen["python_exec"] = "never"
        BY <2>4, MechanicalFact
    <2> QED
        BY <1>2, <2>2, <2>3, <2>5 DEF Offline, scene
<1>3. CASE JudgeByTools
    <2>1. MechanicalVerdict = "passed" /\ UNCHANGED <<seen, provider>>
        BY <1>3 DEF JudgeByTools, Conclude, End, Control, batch, scene
    <2>2. runs # << >>
        BY <2>1, MechanicalFact
    <2>3. ~Offline
        BY <2>2 DEF NoTools
    <2> QED
        BY <2>1, <2>3, MechanicalFact DEF Offline
<1>4. CASE SilentReturns
    <2>1. CASE Return(Default)
        <3>1. Returned(Default)
            BY <2>1, ReturnFact
        <3> QED
            BY <1>4, <3>1 DEF SilentReturns, Returned, Control, Default
    <2>2. CASE Raise
        BY <2>2, RaiseFact
    <2> QED
        BY <1>4, <2>1, <2>2 DEF SilentReturns
<1>5. ASSUME NEW r \in Replies(Agent), Answer(r) PROVE Earned'
    <2>1. Awaiting /\ UNCHANGED scene
        BY <1>5, AnswerFact
    <2>2. CASE UNCHANGED <<status, batch>>
        BY <1>1, <2>1, <2>2 DEF scene, batch
    <2>3. CASE Raise
        BY <2>3, RaiseFact
    <2> QED
        BY <1>2, <1>5, <2>1, <2>2, <2>3, AnswerFact
<1>6. CASE BuildContext \/ ErrorStep
    <2>1. CASE Raise
        BY <2>1, RaiseFact
    <2>2. CASE UNCHANGED status
        BY <1>1, <1>6, <2>2
        DEF BuildContext, ErrorStep, Retry, scene, batch
    <2> QED
        BY <1>6, <2>1, <2>2 DEF BuildContext, ErrorStep, Retry
<1>7. CASE ToolStep
    <2>1. status' = status /\ pc \in {"tools", "process"}
        BY <1>7, ToolFact
    <2> QED
        BY <2>1 DEF Control
<1>8. CASE ProcessStep
    BY <1>1, <1>8, ProcessFact
<1>9. CASE Spawn \/ LeaveWorkdir \/ UNCHANGED vars
    BY <1>1, <1>9 DEF Spawn, LeaveWorkdir, vars, scene, batch
<1>10. CASE Cancel
    BY <1>10 DEF Cancel, End
<1> QED
    BY <1>2, <1>3, <1>4, <1>5, <1>6, <1>7, <1>8, <1>9, <1>10, StepKinds
    DEF ToolStep

LEMMA InvStep == IInv /\ [Next]_vars => IInv'
BY TypeStep, ControlStep, BooksStep, WitnessedStep, NoToolsStep, InToolStep,
   WatchedStep, EarnedStep DEF IInv

LEMMA Invariant == Spec => []IInv
BY InitInv, InvStep, PTL DEF Spec

\* Every variable keeps its type: an agent asks at most twice and a call of
\* the model is tried at most Tries times, however many attempts there are.
THEOREM TypeCorrect == Spec => []TypeOK
<1>1. IInv => TypeOK
    BY DEF IInv
<1> QED
    BY <1>1, Invariant, PTL

\* The trace accounts for the replies the meter counted: none is lost between
\* the usage of the agent awaited and the closed spans, and a subtask that
\* passed has all of them traced; the meter's other calls are the embeddings of
\* queries, which are traced nowhere.
THEOREM UsageAlwaysTraced == Spec => []UsageTraced
<1>1. IInv => UsageTraced
    BY DEF IInv, Books, UsageTraced
<1> QED
    BY <1>1, Invariant, PTL

\* No order of tool runs, retries and replies lets a subtask pass against
\* its latest test run, or at all with the local provider.
THEOREM PassAlwaysEarned == Spec => []PassIsEarned
<1>1. IInv => PassIsEarned
    BY DEF IInv
<1> QED
    BY <1>1, Invariant, PTL

\* Neither the program of a tool nor a child that holds its output outlives
\* its call of Sandbox.run, and no workdir its batch, unless the client goes
\* away.  Of a child with output of its own nothing is claimed.
THEOREM HoldersAlwaysWatched == Spec => []HoldersWatched
<1>1. IInv => HoldersWatched
    BY DEF IInv, Watched
<1> QED
    BY <1>1, Invariant, PTL

-----------------------------------------------------------------------------
(* The way to the end.  That a subtask ends needs fairness and is TLC's;   *)
(* that no reply, error or tool keeps it going is a matter of safety.      *)

\* What a subtask still has before it, the coarsest count first: its end,
\* attempts, stages of this attempt, questions of the agent or calls of the
\* batch, tries of the question or waits for the tool in hand.
Open == IF pc = "ended" THEN 0 ELSE 1
LeftAttempts == MaxAttempts - attempt
LeftStages == CASE pc = "context"              -> 5
                [] pc = "specialist"           -> 4
                [] pc \in {"tools", "process"} -> 3
                [] pc = "evaluator"            -> 2
                [] pc = "reflector"            -> 1
                [] OTHER                       -> 0
LeftCalls == CASE pc \in Agents               -> 2 - ask
               [] pc \in {"tools", "process"} -> Len(calls)
               [] OTHER                       -> 0
LeftWaits == CASE pc \in Agents                -> Tries - try
               [] pc = "tools"                 -> 2
               [] pc = "process" /\ ~proc.late -> 1
               [] OTHER                        -> 0

CountsAreNatural ==
    /\ Open \in Nat /\ LeftAttempts \in Nat /\ LeftStages \in Nat
    /\ LeftCalls \in Nat /\ LeftWaits \in Nat

\* The five counts fall in their lexicographic order.
Descends ==
    \/ Open' < Open
    \/ /\ Open' = Open
       /\ \/ LeftAttempts' < LeftAttempts
          \/ /\ LeftAttempts' = LeftAttempts
             /\ \/ LeftStages' < LeftStages
                \/ /\ LeftStages' = LeftStages
                   /\ \/ LeftCalls' < LeftCalls
                      \/ LeftCalls' = LeftCalls /\ LeftWaits' < LeftWaits

\* The steps of the programs the tools started, which may run for ever.
Programs == \/ LeaderForks \/ Detach \/ ChildExits
            \/ \E code \in {"zero", "nonzero"} : LeaderExits(code)

CountsStay ==
    UNCHANGED <<Open, LeftAttempts, LeftStages, LeftCalls, LeftWaits>>

LEMMA CountsFact ==
    ASSUME TypeOK
    PROVE  CountsAreNatural
<1>1. LeftAttempts \in Nat
    BY AttemptAssumption DEF TypeOK, LeftAttempts
<1>2. LeftCalls \in Nat
    <2>1. ask \in 0 .. 2 /\ Len(calls) \in Nat
        BY DEF TypeOK
    <2> QED
        BY <2>1 DEF LeftCalls
<1>3. LeftWaits \in Nat
    BY AttemptAssumption DEF TypeOK, LeftWaits
<1> QED
    BY <1>1, <1>2, <1>3 DEF CountsAreNatural, Open, LeftStages

\* Ending is the coarsest step, and a later stage of the same attempt is
\* coarser than anything within a stage.
LEMMA EndDescends ==
    ASSUME pc # "ended", pc' = "ended"
    PROVE  Descends
BY DEF Descends, Open

LEMMA StageDescends ==
    ASSUME pc # "ended", pc' # "ended", attempt' = attempt,
           LeftStages' < LeftStages
    PROVE  Descends
BY DEF Descends, Open, LeftAttempts

\* An agent that returns makes way for a later stage or a new attempt.
LEMMA ReturnDescends ==
    ASSUME TypeOK, NEW r, r \in Replies(Agent) \cup {Default}, Return(r)
    PROVE  Descends
<1>1. pc # "ended" /\ pc \in Agents
    BY DEF Return, Agents
<1>2. CASE pc' = "ended"
    BY <1>1, <1>2, EndDescends
<1>3. CASE pc = "specialist" /\ pc' # "ended"
    <2>1. attempt' = attempt /\ pc' \in {"tools", "evaluator"}
        BY <1>3 DEF Return, AfterSpecialist, Await
    <2> QED
        BY <1>1, <1>3, <2>1, StageDescends DEF LeftStages
<1>4. CASE pc = "evaluator" /\ pc' # "ended"
    <2>1. attempt' = attempt /\ pc' = "reflector"
        BY <1>4 DEF Return, AfterEvaluator, Conclude, Await, End
    <2> QED
        BY <1>1, <1>4, <2>1, StageDescends DEF LeftStages
<1>5. CASE pc = "reflector"
    <2>1. attempt' = attempt + 1 /\ pc' = "context"
        BY <1>5 DEF Return, AfterReflector
    <2>2. LeftAttempts' < LeftAttempts
        BY <2>1, AttemptAssumption DEF TypeOK, LeftAttempts
    <2> QED
        BY <1>5, <2>1, <2>2 DEF Descends, Open
<1> QED
    BY <1>1, <1>2, <1>3, <1>4, <1>5 DEF Agents

\* A question is asked at most twice, each time with so many tries.
LEMMA AskDescends ==
    ASSUME TypeOK, pc \in Agents, UNCHANGED <<pc, attempt>>,
           \/ ask = 1 /\ ask' = 2
           \/ try < Tries /\ try' = try + 1 /\ ask' = ask
    PROVE  Descends
<1>1. /\ Open' = Open /\ LeftAttempts' = LeftAttempts
      /\ LeftStages' = LeftStages
    BY DEF Open, LeftAttempts, LeftStages
<1>2. LeftCalls = 2 - ask /\ LeftCalls' = 2 - ask'
    BY DEF LeftCalls, Agents
<1>3. LeftWaits = Tries - try /\ LeftWaits' = Tries - try'
    BY DEF LeftWaits, Agents
<1>4. ask \in Int /\ try \in Int /\ Tries \in Int
    BY AttemptAssumption DEF TypeOK
<1> QED
    BY <1>1, <1>2, <1>3, <1>4 DEF Descends

\* Each call of the batch takes one off the list; starting a process and
\* its timeout are the only steps on the way.
LEMMA BatchDescends ==
    ASSUME TypeOK, InTool, ToolStep \/ Spawn \/ Expire
    PROVE  Descends
<1>1. attempt' = attempt /\ pc \in {"tools", "process"}
      /\ pc' \in {"tools", "process"}
    BY ToolFact DEF Spawn, Expire
<1>2. /\ Open' = Open /\ LeftAttempts' = LeftAttempts
      /\ LeftStages' = LeftStages
    BY <1>1 DEF Open, LeftAttempts, LeftStages
<1>3. CASE ToolStep
    <2>1. calls # << >> /\ calls' = Tail(calls)
        BY <1>3, ToolFact
    <2>2. Len(calls') < Len(calls)
        BY <2>1 DEF TypeOK
    <2>3. LeftCalls = Len(calls) /\ LeftCalls' = Len(calls')
        BY <1>1 DEF LeftCalls, Agents
    <2> QED
        BY <1>2, <2>2, <2>3 DEF Descends
<1>4. CASE Spawn \/ Expire
    <2>1. calls' = calls
        BY <1>4 DEF Spawn, Expire
    <2>2. LeftCalls' = LeftCalls
        BY <1>1, <2>1 DEF LeftCalls, Agents
    <2>3. LeftWaits' < LeftWaits
        <3>1. CASE Spawn
            BY <3>1 DEF Spawn, LeftWaits, Agents
        <3>2. CASE Expire
            BY <3>2 DEF Expire, LeftWaits, Agents, TypeOK
        <3> QED
            BY <1>4, <3>1, <3>2
    <2> QED
        BY <1>2, <2>2, <2>3 DEF Descends
<1> QED
    BY <1>3, <1>4

LEMMA WorksDescend ==
    ASSUME IInv, Works
    PROVE  Descends
<1>1. TypeOK /\ InTool
    BY DEF IInv
<1>2. CASE BuildContext
    <2>1. pc = "context" /\ pc' \in {"specialist", "ended"}
          /\ attempt' = attempt
        BY <1>2 DEF BuildContext, Await, Raise, End
    <2> QED
        BY <2>1, EndDescends, StageDescends DEF LeftStages
<1>3. CASE SilentReturns
    <2>1. \/ Return(Default)
          \/ pc = "specialist" /\ pc' = "ended"
        BY <1>3 DEF SilentReturns, Raise, End
    <2> QED
        BY <1>1, <2>1, ReturnDescends, EndDescends
<1>4. CASE JudgeByTools
    <2>1. pc = "evaluator" /\ pc' \in {"reflector", "ended"}
          /\ attempt' = attempt
        BY <1>4 DEF JudgeByTools, Conclude, Await, End
    <2> QED
        BY <2>1, EndDescends, StageDescends DEF LeftStages
<1>5. CASE ErrorStep
    <2>1. PICK retriable \in BOOLEAN : Awaiting /\ Retry(retriable)
        BY <1>5 DEF ErrorStep
    <2>2. pc \in Agents
        BY <2>1 DEF Awaiting, Agents
    <2>3. \/ try < Tries /\ try' = try + 1 /\ UNCHANGED <<ask, pc, attempt>>
          \/ pc' = "ended"
        BY <2>1 DEF Retry, Raise, End
    <2> QED
        BY <1>1, <2>2, <2>3, AskDescends, EndDescends DEF Agents
<1>6. CASE \E r \in Replies(Agent) : Answer(r)
    <2>1. PICK r \in Replies(Agent) : Answer(r)
        BY <1>6
    <2>2. Awaiting /\ \/ ask = 1 /\ ask' = 2 /\ UNCHANGED <<pc, attempt>>
                      \/ Raise
                      \/ \E s \in Replies(Agent) \cup {Default} : Return(s)
        BY <1>1, <2>1, AnswerFact
    <2>3. pc \in Agents
        BY <2>2 DEF Awaiting, Agents
    <2> QED
        BY <1>1, <2>2, <2>3, AskDescends, EndDescends, ReturnDescends,
           RaiseFact DEF Agents
<1>7. CASE ToolStep \/ Spawn \/ Expire
    BY <1>1, <1>7, BatchDescends
<1>8. CASE LeaveWorkdir
    <2>1. pc = "tools" /\ pc' = "evaluator" /\ attempt' = attempt
        BY <1>8 DEF LeaveWorkdir, Await
    <2> QED
        BY <2>1, StageDescends DEF LeftStages
<1> QED
    BY <1>2, <1>3, <1>4, <1>5, <1>6, <1>7, <1>8
    DEF Works, ErrorStep, ProviderFails, Garbled, ToolStep, FailStep

LEMMA ProgramsStay ==
    ASSUME TypeOK, Programs
    PROVE  CountsStay
<1>1. UNCHANGED <<pc, attempt, ask, try, calls>> /\ proc'.late = proc.late
    BY DEF Programs, LeaderForks, Detach, ChildExits, LeaderExits, asking, TypeOK
<1> QED
    BY <1>1
    DEF CountsStay, Open, LeftAttempts, LeftStages, LeftCalls, LeftWaits

\* No reply, error, retry or tool keeps a subtask going: with every step of
\* its own, and with the client's leaving, five natural numbers fall in
\* their lexicographic order, and what the started programs do raises none
\* of them.  Together with the promise that what is ready is run this is
\* SubtaskEnds, up to the pipe a child of a killed program holds open.
THEOREM EveryStepDescends ==
    Spec => []CountsAreNatural /\ [][Descends \/ (Programs /\ CountsStay)]_vars
<1>1. IInv => CountsAreNatural
    BY CountsFact DEF IInv
<1>2. IInv /\ [Next]_vars => [Descends \/ (Programs /\ CountsStay)]_vars
    <2> SUFFICES ASSUME IInv, Next
                 PROVE  [Descends \/ (Programs /\ CountsStay)]_vars
        OBVIOUS
    <2>1. CASE Works
        BY <2>1, WorksDescend
    <2>2. CASE Cancel
        BY <2>2, EndDescends DEF Cancel, End
    <2>3. CASE Ended
        BY <2>3 DEF Ended
    <2>4. CASE Programs
        BY <2>4, ProgramsStay DEF IInv
    <2> QED
        BY <2>1, <2>2, <2>3, <2>4 DEF Next, Programs
<1> QED
    BY <1>1, <1>2, Invariant, PTL DEF Spec
=============================================================================
