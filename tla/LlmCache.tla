------------------------------ MODULE LlmCache ------------------------------
(***************************************************************************)
(* The stored answers of the language model: CachedLlm::generate in        *)
(* llm/cache.rs.                                                           *)
(*                                                                         *)
(* Every process has one connection of its own for the cache, so it has at *)
(* most one request under way.  A request holds the advisory lock of its   *)
(* prompt from the first look until the answer is committed, the call to   *)
(* the provider included; its transaction is apart from the one the answer *)
(* is for, so a paid answer outlives a work that is rolled back.           *)
(***************************************************************************)
EXTENDS Naturals, FiniteSets

CONSTANTS Processes, Prompts,
          Breaks        \* bound: providers that fail, processes that die, readers
                        \* of answers that are replaced by stricter ones

VARIABLES answer,       \* grammar_llm_cache: none, good, or refused by today's reader
          request,      \* what each process is asking
          breaks

vars == <<answer, request, breaks>>

Asleep == [at |-> "rest", prompt |-> "", dropped |-> FALSE]

Init ==
    /\ answer = [p \in Prompts |-> "none"]
    /\ request = [x \in Processes |-> Asleep]
    /\ breaks = 0

On(x, step) == request[x].at = step
To(x, step) == request' = [request EXCEPT ![x].at = step]
Break == breaks < Breaks /\ breaks' = breaks + 1
Holds(x) == request[x].at \in {"look", "call", "store"}
LockFree(p) == \A x \in Processes : ~(Holds(x) /\ request[x].prompt = p)

\* begin, on the process's only connection.
Generate(x, p) ==
    /\ On(x, "rest")
    /\ request' = [request EXCEPT ![x] = [at |-> "lock", prompt |-> p, dropped |-> FALSE]]
    /\ UNCHANGED <<answer, breaks>>

\* Mutant of Lock: the prompt is not locked.
LockNot(x) == On(x, "lock") /\ To(x, "look")
Lock(x) ==
    /\ On(x, "lock") /\ LockFree(request[x].prompt)
    /\ To(x, "look")

\* A stored answer that today's parser or `reusable` refuses is deleted, in the
\* transaction that asks again.
Look(x) ==
    /\ On(x, "look")
    /\ IF answer[request[x].prompt] = "good"
       THEN request' = [request EXCEPT ![x] = Asleep]
       ELSE request' = [request EXCEPT ![x].at = "call",
                           ![x].dropped = answer[request[x].prompt] = "refused"]

\* The provider's answer: usable, partial, not readable, or none.  What is not
\* `reusable` is handed on and not stored; an error rolls the deletion back.
Call(x) ==
    /\ On(x, "call")
    /\ \/ /\ To(x, "store")
          /\ UNCHANGED <<answer, breaks>>
       \/ /\ Break
          /\ \E partial \in BOOLEAN :
                answer' = IF partial /\ request[x].dropped
                          THEN [answer EXCEPT ![request[x].prompt] = "none"] ELSE answer
          /\ request' = [request EXCEPT ![x] = Asleep]

StoreAnswer(x) ==
    /\ On(x, "store")
    /\ answer' = [answer EXCEPT ![request[x].prompt] = "good"]
    /\ request' = [request EXCEPT ![x] = Asleep]
    /\ UNCHANGED breaks

\* The process dies, or its work is cancelled: the transaction is rolled back.
Die(x) ==
    /\ ~On(x, "rest") /\ Break
    /\ request' = [request EXCEPT ![x] = Asleep]
    /\ UNCHANGED answer

\* A build whose parser refuses what an older one stored.
Stricter(p) ==
    /\ answer[p] = "good" /\ \A x \in Processes : On(x, "rest")
    /\ Break
    /\ answer' = [answer EXCEPT ![p] = "refused"]
    /\ UNCHANGED request

Locked(x) == (Lock(x) \/ Look(x)) /\ UNCHANGED <<answer, breaks>>

Next ==
    \/ \E x \in Processes : Locked(x) \/ Call(x) \/ StoreAnswer(x) \/ Die(x)
    \/ \E x \in Processes, p \in Prompts : Generate(x, p)
    \/ \E p \in Prompts : Stricter(p)

-----------------------------------------------------------------------------
TypeOK ==
    /\ answer \in [Prompts -> {"none", "good", "refused"}]
    /\ \A x \in Processes : request[x].prompt \in Prompts \cup {""}
    /\ breaks \in 0 .. Breaks

\* A prompt is paid for once: nobody calls the provider for an answer that is
\* stored, or that another process is asking for.
PaidOnce ==
    \A x \in Processes : On(x, "call") \/ On(x, "store") =>
        /\ answer[request[x].prompt] # "good"
        /\ \A y \in Processes \ {x} :
              ~(request[y].at \in {"call", "store"} /\ request[y].prompt = request[x].prompt)
=============================================================================
