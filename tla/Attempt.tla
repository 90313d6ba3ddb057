------------------------------ MODULE Attempt ------------------------------
(***************************************************************************)
(* What happens inside one subtask: Orchestrator._run_subtask with the     *)
(* agents it awaits, the provider calls and retries under each agent, the  *)
(* meter and the trace spans they fill, and the tools a specialist asked   *)
(* for, run in one workdir by Sandbox.run.  Orchestrator.tla drives many   *)
(* subtasks and takes all of this as one answer per agent.                 *)
(*                                                                         *)
(* A reply of the model is what its reader tells apart: whether JSON can   *)
(* be pulled out of it, whether that is an object, how its confidence      *)
(* compares with the threshold, the tools it names, the verdict it gives.  *)
(* One metered call, completion or embedding, counts one unit of usage.    *)
(* The context itself, which only changes the prompts, is left out.        *)
(***************************************************************************)
EXTENDS Integers, Sequences

CONSTANTS
    Specialists,  \* agent names a plan may give the subtask, registered or not
    Providers,    \* LLM_PROVIDER: "openai", "anthropic" or "local"
    Batches,      \* the tool lists a reply may name, each a sequence
    Networked,    \* whether sandbox_network_default is "allow"
    MaxAttempts,  \* max(1, min(max_attempts, safety_max_recursion_depth))
    Tries         \* provider calls before with_retry gives up (4 in the code)

ASSUME AttemptAssumption ==
    /\ Specialists \subseteq STRING /\ Providers \subseteq STRING
    /\ Batches \subseteq Seq(STRING) /\ Networked \in BOOLEAN
    /\ MaxAttempts \in Nat \ {0} /\ Tries \in Nat \ {0}

VARIABLES
    specialist, \* the agent the plan named
    provider,   \* the provider of this process
    pc,         \* "context", the agent awaited, "tools", "process" or "ended"
    attempt,    \* the attempt in hand
    ask,        \* complete() calls of this agent so far, this one included
    try,        \* provider calls of this complete(), this one included
    usage,      \* usage_total of the agent awaited
    meter,      \* calls the TokenMeter has recorded for this subtask
    traced,     \* usage on the END events of closed agent spans
    embedded,   \* history: those of the metered calls that embed a query
    calls,      \* tool invocations still to run
    runs,       \* tool_runs of this attempt
    workdir,    \* whether the batch is in its workdir
    proc,       \* the process of the tool in hand, and what it has started
    status,     \* status of the subtask; "crashed" or "cancelled" with its run
    seen        \* history: how the latest run of a judged tool really went

scene == <<specialist, provider>>
asking == <<ask, try, usage>>
ledger == <<meter, traced, embedded>>
batch == <<calls, runs, workdir, proc, seen>>
vars == <<scene, pc, attempt, asking, ledger, batch, status>>

Registered == {"coder", "debugger", "researcher", "planner", "decomposer",
               "memory_agent", "evaluator", "reflector", "context_builder",
               "tool_executor"}
Silent == {"context_builder", "tool_executor"}             \* ask no model
Scored == {"coder", "debugger", "evaluator", "reflector"}  \* score themselves

\* The tools of the registry; the first three start a process, and two of
\* these look at what they are asked to run
Judged == {"python_exec", "pytest_run"}
Executing == Judged \cup {"shell"}
Picky == {"python_exec", "shell"}
InProcess == {"file_read", "file_write", "file_list", "repo_analyzer"}
                 \cup (IF Networked THEN {"web_search"} ELSE {})
Offered == Executing \cup InProcess

\* The agent awaited.  An unregistered specialist is played by the coder
Agent ==
    IF pc # "specialist" THEN pc
    ELSE IF specialist \in Registered THEN specialist ELSE "coder"

(***************************************************************************)
(* Replies                                                                 *)
(***************************************************************************)
Reply == [form : {"prose", "list", "object"}, tools : Batches, passed : BOOLEAN,
          confidence : {"low", "high", "unusable"}]

\* What is left when no reply could be parsed: every .get takes its default
Default == [form |-> "object", tools |-> <<>>, passed |-> FALSE,
            confidence |-> "low"]

\* The researcher reads any text; the others parse JSON
ReadsText == {"researcher"}

\* The local provider needs no network.  It makes up the smallest value of the
\* schema, all "ok", 0.0 and false, without what is optional: the tools are
Offline == provider = "local"
MadeUp == Default
MadeUpText == [Default EXCEPT !.form = "prose"]

\* The replies agent a tells apart
Replies(a) ==
    IF Offline THEN {IF a \in ReadsText THEN MadeUpText ELSE MadeUp} ELSE
    {r \in Reply :
        /\ r.form # "object" => r = [Default EXCEPT !.form = r.form]
        /\ a \notin {"coder", "debugger"} => r.tools = <<>>
        /\ a # "evaluator" => ~r.passed
        /\ a \notin Scored => r.confidence = "low"}

Parses(a, r) == a \in ReadsText \/ r.form # "prose"

\* A list has no .get; AgentOutput and EvaluationResult refuse a confidence
\* that is not a number of [0, 1]
Unfit(a, r) ==
    \/ a \notin ReadsText /\ r.form = "list"
    \/ a \in Scored /\ r.confidence = "unusable"

(***************************************************************************)
(* Verdicts read off the tool runs                                         *)
(***************************************************************************)
\* Where in the list the runs of a tool are
RunsOf(tool) == {i \in DOMAIN runs : runs[i].tool = tool}
Earliest(tool) ==
    runs[CHOOSE i \in RunsOf(tool) : \A j \in RunsOf(tool) : i <= j]
Latest(tool) ==
    runs[CHOOSE i \in RunsOf(tool) : \A j \in RunsOf(tool) : j <= i]

\* _mechanical_verdict: "none" leaves the verdict to the model
MechanicalVerdict ==
    CASE RunsOf("pytest_run") # {} ->
            LET r == Latest("pytest_run")
            IN  IF r.ok /\ r.output = "green" THEN "passed" ELSE "failed"
      [] RunsOf("pytest_run") = {} /\ RunsOf("python_exec") # {} ->
            IF Latest("python_exec").ok THEN "passed" ELSE "failed"
      [] OTHER -> "none"

(***************************************************************************)
(* The loop over attempts                                                  *)
(***************************************************************************)
Idle == [leader |-> "none", holding |-> FALSE, loose |-> FALSE, late |-> FALSE]
Unseen == [t \in Judged |-> "never"]

Init ==
    /\ specialist \in Specialists /\ provider \in Providers
    /\ pc = "context" /\ attempt = 1 /\ status = "running"
    /\ ask = 0 /\ try = 0 /\ usage = 0 /\ meter = 0 /\ traced = 0
    /\ embedded = 0
    /\ calls = <<>> /\ runs = <<>> /\ workdir = FALSE
    /\ proc = Idle /\ seen = Unseen

Await(role) == pc' = role /\ ask' = 1 /\ try' = 1 /\ usage' = 0
Rest == ask' = 0 /\ try' = 0 /\ usage' = 0

End(how) == pc' = "ended" /\ status' = how

\* A raising specialist fails the subtask; any other agent takes the run along.
\* What it had used goes with it
Raise == End(IF pc = "specialist" THEN "failed" ELSE "crashed")

\* A context is built before every attempt, and by the agent of that name.
\* It embeds its query to search the memories, the episodes and the documents,
\* unless there is no user, no need or a cached vector; an embedding that fails
\* is swallowed, and Anthropic's always does.  The meter counts the others,
\* and no span has them
Building == pc = "context" \/ (pc = "specialist" /\ Agent = "context_builder")
MostEmbeds == IF Building /\ provider # "anthropic" THEN 3 ELSE 0
Embed ==
    /\ \E k \in 0 .. MostEmbeds :
           meter' = meter + k /\ embedded' = embedded + k
    /\ UNCHANGED traced

\* 1) the context: a failed document search is swallowed, a failing database
\*    or short-term store is not
BuildContext ==
    /\ pc = "context"
    /\ \/ Await("specialist") /\ UNCHANGED status
       \/ Raise /\ UNCHANGED asking
    /\ Embed
    /\ UNCHANGED <<scene, attempt, batch>>

\* A verdict settles the subtask, or sends it to reflection and a new attempt
Conclude(passed) ==
    \/ passed /\ End("passed") /\ Rest
    \/ ~passed /\ attempt < MaxAttempts /\ Await("reflector") /\ UNCHANGED status
    \/ ~passed /\ attempt = MaxAttempts /\ End("failed") /\ Rest

\* 3) tools, if the specialist is sure enough; 4) the evaluator
AfterSpecialist(r) ==
    /\ runs' = <<>> /\ seen' = Unseen
    /\ IF r.tools # <<>> /\ r.confidence = "high"
       THEN pc' = "tools" /\ Rest /\ calls' = r.tools /\ workdir' = TRUE
       ELSE Await("evaluator") /\ UNCHANGED <<calls, workdir>>
    /\ UNCHANGED <<attempt, proc, status>>

\* The evaluator asked the model, and believes it
AfterEvaluator(r) == Conclude(r.passed) /\ UNCHANGED <<attempt, batch>>

\* 5) whatever the reflection proposes, the next attempt starts over
AfterReflector ==
    /\ pc' = "context" /\ Rest /\ attempt' = attempt + 1
    /\ UNCHANGED <<status, batch>>

\* The awaited agent returns what it read from reply r
Return(r) ==
    \/ pc = "specialist" /\ AfterSpecialist(r)
    \/ pc = "evaluator" /\ AfterEvaluator(r)
    \/ pc = "reflector" /\ AfterReflector

\* Silent agents are registered too, and a plan may name them
SilentReturns ==
    /\ pc = "specialist" /\ Agent \in Silent
    /\ \/ Return(Default)
       \/ /\ Agent = "context_builder" /\ Raise
          /\ UNCHANGED <<asking, attempt, batch>>
    /\ Embed
    /\ UNCHANGED scene

JudgeByTools ==
    /\ pc = "evaluator" /\ MechanicalVerdict # "none"
    /\ Conclude(MechanicalVerdict = "passed")
    /\ UNCHANGED <<scene, attempt, ledger, batch>>

(***************************************************************************)
(* One call of the model                                                   *)
(***************************************************************************)
Awaiting ==
    /\ pc \in {"specialist", "evaluator", "reflector"}
    /\ Agent \notin Silent
    /\ pc = "evaluator" => MechanicalVerdict = "none"

\* An error of the call: another try if the wording allows it, else it goes
\* through the agent
Retry(retriable) ==
    /\ IF retriable /\ try < Tries
       THEN try' = try + 1 /\ UNCHANGED <<ask, usage, pc, status>>
       ELSE Raise /\ UNCHANGED asking
    /\ UNCHANGED <<scene, attempt, ledger, batch>>

ProviderFails(retriable) == Awaiting /\ ~Offline /\ Retry(retriable)

\* A response without the expected fields is a KeyError before the meter: the
\* provider charged for it, nobody counts it, and it is tried again
Garbled == Awaiting /\ ~Offline /\ Retry(TRUE)

\* usage_total after one more reply
LastReplyOnly == 1
Total == usage + 1

\* What complete() counts for one response
Record == meter' = meter + 1 /\ UNCHANGED embedded

\* A reply is metered, added to the usage, and parsed.  One that does not
\* parse is asked for once more; the second time the defaults stand in.  The
\* span of an agent that raises ends in an ERROR event, which has no tokens.
Answer(r) ==
    /\ Awaiting
    /\ Record
    /\ IF ~Parses(Agent, r) /\ ask = 1
       THEN /\ ask' = 2 /\ try' = 1 /\ usage' = Total
            /\ UNCHANGED <<pc, status, attempt, traced, batch>>
       ELSE IF Parses(Agent, r) /\ Unfit(Agent, r)
       THEN /\ Raise /\ usage' = Total
            /\ UNCHANGED <<ask, try, attempt, traced, batch>>
       ELSE /\ traced' = traced + Total
            /\ Return(IF Parses(Agent, r) THEN r ELSE Default)
    /\ UNCHANGED scene

(***************************************************************************)
(* The tools of a batch, one after the other                               *)
(***************************************************************************)
Result(tool, ok, output) == [tool |-> tool, ok |-> ok, output |-> output]

\* What the run of a judged tool showed, kept apart from what is recorded
Notice(tool, good) ==
    seen' = IF tool \in Judged
            THEN [seen EXCEPT ![tool] = IF good THEN "good" ELSE "bad"] ELSE seen

\* A call that ends with an error of the registry or of the tool itself
Fails ==
    /\ runs' = Append(runs, Result(Head(calls), FALSE, "nothing"))
    /\ Notice(Head(calls), FALSE)
    /\ calls' = Tail(calls)
    /\ UNCHANGED <<scene, pc, attempt, asking, ledger, workdir, proc, status>>

\* An unknown name, or one whose permission the policy does not give
RefuseTool == pc = "tools" /\ calls # <<>> /\ Head(calls) \notin Offered /\ Fails

\* A missing argument, or one of a type that cannot be coerced
RefuseArgs == pc = "tools" /\ calls # <<>> /\ Head(calls) \in Offered /\ Fails

\* A denied pattern or command, a source that cannot be staged
RefuseSource == pc = "tools" /\ calls # <<>> /\ Head(calls) \in Picky /\ Fails

\* A path out of the workdir, no such file, a full disk, a search without answer
FailInside == pc = "tools" /\ calls # <<>> /\ Head(calls) \in InProcess /\ Fails

\* No such executable, no process to be had
SpawnFails == pc = "tools" /\ calls # <<>> /\ Head(calls) \in Executing /\ Fails

RunInside ==
    /\ pc = "tools" /\ calls # <<>> /\ Head(calls) \in InProcess
    /\ runs' = Append(runs, Result(Head(calls), TRUE, "nothing"))
    /\ calls' = Tail(calls)
    /\ UNCHANGED <<scene, pc, attempt, asking, ledger, workdir, proc, status,
                   seen>>

Spawn ==
    /\ pc = "tools" /\ calls # <<>> /\ Head(calls) \in Executing
    /\ pc' = "process"
    /\ proc' = [proc EXCEPT !.leader = "running"]
    /\ UNCHANGED <<scene, attempt, asking, ledger, calls, runs, workdir,
                   status, seen>>

LeaveWorkdir ==
    /\ pc = "tools" /\ calls = <<>>
    /\ workdir' = FALSE
    /\ Await("evaluator")
    /\ UNCHANGED <<scene, attempt, ledger, calls, runs, proc, status, seen>>

\* The program the tool runs is anyone's: it may start a child that inherits
\* its output pipes, exit with any code, or never end; and it or this child may
\* start one with other output, in a session of its own
LeaderForks ==
    /\ proc.leader = "running" /\ ~proc.holding
    /\ proc' = [proc EXCEPT !.holding = TRUE]
    /\ UNCHANGED <<scene, pc, attempt, asking, ledger, calls, runs, workdir,
                   status, seen>>

Detach ==
    /\ proc.leader = "running" \/ proc.holding
    /\ ~proc.loose
    /\ proc' = [proc EXCEPT !.loose = TRUE]
    /\ UNCHANGED <<scene, pc, attempt, asking, ledger, calls, runs, workdir,
                   status, seen>>

LeaderExits(code) ==
    /\ proc.leader = "running"
    /\ proc' = [proc EXCEPT !.leader = code]
    /\ UNCHANGED <<scene, pc, attempt, asking, ledger, calls, runs, workdir,
                   status, seen>>

ChildExits ==
    /\ \/ proc.holding /\ proc' = [proc EXCEPT !.holding = FALSE]
       \/ proc.loose /\ proc' = [proc EXCEPT !.loose = FALSE]
    /\ UNCHANGED <<scene, pc, attempt, asking, ledger, calls, runs, workdir,
                   status, seen>>

\* proc.kill() after the wait_for: the leader only
Spared(leader) == leader
Killed(leader) == IF leader = "running" THEN "killed" ELSE leader

Expire ==
    /\ pc = "process" /\ ~proc.late
    /\ proc' = [proc EXCEPT !.late = TRUE, !.leader = Killed(@)]
    /\ UNCHANGED <<scene, pc, attempt, asking, ledger, calls, runs, workdir,
                   status, seen>>

\* communicate() returns when both pipes are closed and the leader is reaped
LeaderGone == proc.leader # "running"
Drained == proc.leader # "running" /\ ~proc.holding

Exited == proc.leader = "zero" /\ ~proc.late

\* ok of a program or a command, and of a test run
ProgramOk == Exited
TestsOk(output) == Exited /\ output # "red"

Collect(output) ==
    /\ pc = "process" /\ Drained
    /\ LET tool == Head(calls)
           tests == tool = "pytest_run"
           ok == IF tests THEN TestsOk(output) ELSE ProgramOk
       IN  /\ output # "nothing" => tests
           /\ runs' = Append(runs, Result(tool, ok, output))
           /\ Notice(tool, Exited /\ (tests => output = "green"))
    /\ calls' = Tail(calls)
    /\ pc' = "tools"
    /\ proc' = [proc EXCEPT !.leader = "none", !.late = FALSE]
    /\ UNCHANGED <<scene, attempt, asking, ledger, workdir, status>>

\* The client goes away: CancelledError at the await in hand.  The workdir is
\* left and removed on the way out, the process is left alone
Cancel ==
    /\ pc # "ended" /\ End("cancelled")
    /\ workdir' = FALSE
    /\ Embed
    /\ UNCHANGED <<scene, attempt, asking, calls, runs, proc, seen>>

Ended == pc = "ended" /\ UNCHANGED vars

Works ==
    \/ BuildContext \/ SilentReturns \/ JudgeByTools
    \/ \E retriable \in BOOLEAN : ProviderFails(retriable)
    \/ Garbled \/ \E r \in Replies(Agent) : Answer(r)
    \/ RefuseTool \/ RefuseArgs \/ RefuseSource \/ FailInside \/ SpawnFails
    \/ RunInside \/ Spawn \/ LeaveWorkdir
    \/ Expire \/ \E output \in {"green", "red", "nothing"} : Collect(output)

Next ==
    \/ Works \/ Cancel \/ Ended
    \/ LeaderForks \/ Detach \/ ChildExits
    \/ \E code \in {"zero", "nonzero"} : LeaderExits(code)

Spec == Init /\ [][Next]_vars

\* The event loop runs what is ready, a provider call ends by its request
\* timeout, wait_for's timer fires.  The child processes and the client promise
\* nothing
FairSpec == Spec /\ WF_vars(Works)

(***************************************************************************)
(* Properties                                                              *)
(***************************************************************************)
TypeOK ==
    /\ specialist \in Specialists /\ provider \in Providers
    /\ pc \in {"context", "specialist", "evaluator", "reflector", "tools",
               "process", "ended"}
    /\ attempt \in 1..MaxAttempts /\ ask \in 0..2 /\ try \in 0..Tries
    /\ usage \in 0..2 /\ meter \in Nat /\ traced \in Nat
    /\ embedded \in Nat
    /\ calls \in Seq(STRING) /\ workdir \in BOOLEAN
    /\ runs \in Seq([tool : STRING, ok : BOOLEAN,
                    output : {"green", "red", "nothing"}])
    /\ proc \in [leader : {"none", "running", "zero", "nonzero", "killed"},
                 holding : BOOLEAN, loose : BOOLEAN, late : BOOLEAN]
    /\ status \in {"running", "passed", "failed", "crashed", "cancelled"}
    /\ seen \in [Judged -> {"never", "good", "bad"}]

\* The trace accounts for the replies the meter counted: each is in the usage
\* of the agent awaited or on a closed span, the first of two and the one that
\* did not parse included; only an agent that raises or is cancelled takes its
\* usage with it.  So what the trace of a subtask that passed is short of the
\* meter is just the embeddings of its queries, which are on no span
\* (base.py:117-154, the span of each agent, token_meter.py:115)
UsageTraced ==
    /\ meter = traced + usage + embedded
    /\ pc \in {"context", "tools", "process"} \/ status = "passed" => usage = 0

\* A subtask whose attempt ran tests passes only if the latest of them, in this
\* attempt, exited by itself in time with tests passed and none failed; with
\* no test run, a program run likewise.  The model is not asked, and the tools
\* of an earlier attempt count for nothing (evaluator.py:100, orchestrator.py:392).
\* With the local provider no subtask passes: it asks for no tool and judges
\* every attempt false (local_provider.py:151)
PassIsEarned ==
    status = "passed" =>
        /\ \/ seen["pytest_run"] = "good"
           \/ seen["pytest_run"] = "never" /\ seen["python_exec"] # "bad"
        /\ ~Offline

\* Outside Sandbox.run neither the program of a tool is left nor a child that
\* holds its output, and outside the batch no workdir is entered; only a client
\* that leaves orphans them.  A child with output of its own is another matter:
\* nobody waits for it, no timeout kills it (sandbox.py:90-176,
\* tool_executor.py:57)
HoldersWatched ==
    /\ pc # "process" /\ status # "cancelled" =>
           proc.leader # "running" /\ ~proc.holding
    /\ pc \notin {"tools", "process"} => ~workdir

\* A subtask ends, whatever the provider answers and however long the tools'
\* programs want to run, unless a child of a killed program keeps the output
\* pipe open for ever: the second communicate() has no timeout (sandbox.py:165)
SubtaskEnds == <>(pc = "ended") \/ <>[](proc.late /\ proc.holding)
=============================================================================
