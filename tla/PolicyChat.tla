----------------------------- MODULE PolicyChat -----------------------------
(***************************************************************************)
(* The AI Generate tab of the policies page (app/(app)/policies/page.tsx): *)
(* a conversation per AI system. A turn, a question and its answer, is     *)
(* shown from the component's pendingMessages until persistConversation    *)
(* has filed it with the server and fetched the filed history again.       *)
(*                                                                         *)
(* An open tab shows one conversation, but turns go on being answered and  *)
(* filed when the user looks at another one or has left the tab.           *)
(*                                                                         *)
(* A history is read by the server at one moment and answered at a later   *)
(* one. Invalidation drops the request in flight and sends a new one, but  *)
(* a first load, which has nothing to show meanwhile, is joined.           *)
(***************************************************************************)
EXTENDS Naturals, Sequences, SequencesExt

CONSTANTS
    Systems,       \* the organization's AI systems
    NoSystem,
    MaxTurns,      \* bound: questions asked
    MaxMoves       \* bound: times the user leaves the tab or takes another system

ChatAssumption ==
    NoSystem \notin Systems /\ MaxTurns \in Nat /\ MaxMoves \in Nat

Turns == 1..MaxTurns
Messages == [turn : Turns, role : {"user", "ai"}]
User(t) == [turn |-> t, role |-> "user"]
Ai(t) == [turn |-> t, role |-> "ai"]

VARIABLES
    filed,        \* the server: the history of every system
    cached,       \* the query cache: policy-chat-history by system
    fetch,        \* the requests for histories: idle, sent, or read by the server
    answer,       \* what it has read
    open,         \* the tab is mounted
    first,        \* systems[0], once loaded
    chosen,       \* selectedSystemId
    pending,      \* pendingMessages
    typing,       \* isTyping
    of,           \* the system each turn asked so far is about
    mine,         \* turns asked since the tab was mounted
    answering,    \* turns the copilot is working on
    filing,       \* turns being filed: the step each has come to
    saving,       \* a policy of the conversation is being saved
    moves,        \* counts what MaxMoves bounds
    mixed,        \* history: systems for which two turns were being filed together
    disturbed,    \* history: of the mounted tab, a filing failed or something overtook one
    loaded,       \* systems whose history has been fetched
    invalid       \* those whose cached history was invalidated, or could not be fetched, since

queries == <<cached, fetch, answer, loaded, invalid>>
conversation == <<filed, queries>>
vars == <<conversation, open, first, chosen, pending, typing, of, mine, answering, filing, saving,
          moves, mixed, disturbed>>

Resolved == IF chosen # NoSystem THEN chosen ELSE first       \* resolveSystemIdOrEmpty
Shown == IF Resolved = NoSystem THEN {} ELSE Range(cached[Resolved]) \cup Range(pending)

TypeOK ==
    /\ filed \in [Systems -> Seq(Messages)] /\ cached \in [Systems -> Seq(Messages)]
    /\ fetch \in [Systems -> {"idle", "sent", "read"}] /\ answer \in [Systems -> Seq(Messages)]
    /\ loaded \subseteq Systems /\ invalid \subseteq Systems
    /\ open \in BOOLEAN /\ typing \in BOOLEAN /\ saving \in BOOLEAN /\ disturbed \in BOOLEAN
    /\ {first, chosen} \subseteq Systems \cup {NoSystem}
    /\ pending \in Seq(Messages)
    /\ of \in Seq(Systems) /\ Len(of) <= MaxTurns
    /\ mine \subseteq DOMAIN of /\ answering \subseteq DOMAIN of
    /\ DOMAIN filing \subseteq DOMAIN of /\ filing \in [DOMAIN filing -> {"user", "ai", "refetch", "wait"}]
    /\ moves \in 0..MaxMoves /\ mixed \subseteq Systems

Init ==
    /\ filed = [s \in Systems |-> <<>>] /\ cached = [s \in Systems |-> <<>>]
    /\ fetch = [s \in Systems |-> "idle"] /\ answer = [s \in Systems |-> <<>>]
    /\ loaded = {} /\ invalid = {}
    /\ open = TRUE /\ first = NoSystem /\ chosen = NoSystem
    /\ pending = <<>> /\ typing = FALSE
    /\ of = <<>> /\ mine = {} /\ answering = {} /\ filing = [t \in {} |-> "user"]
    /\ saving = FALSE /\ moves = 0 /\ mixed = {} /\ disturbed = FALSE

Start(t) == [u \in DOMAIN filing \cup {t} |-> IF u = t THEN "user" ELSE filing[u]]
Drop(ended) == [u \in DOMAIN filing \ ended |-> filing[u]]
Beside(t) == {u \in DOMAIN filing : of[u] = of[t]}

-----------------------------------------------------------------------------
(* The history of a system.                                                *)

\* An observer that comes to a history asks for it if nobody is asking; it may do without if
\* what is cached is not invalidated, and recent.
Observe(s) == fetch' = [fetch EXCEPT ![s] = IF @ = "idle" THEN "sent" ELSE @]
Come(s) == Observe(s) \/ (s \in loaded \ invalid /\ UNCHANGED fetch)

Serve(s) ==
    /\ fetch[s] = "sent"
    /\ fetch' = [fetch EXCEPT ![s] = "read"]
    /\ answer' = [answer EXCEPT ![s] = filed[s]]
    /\ UNCHANGED <<filed, cached, loaded, invalid, open, first, chosen, pending, typing, of, mine,
                   answering, filing, saving, moves, mixed, disturbed>>

\* A request has ended, either way: whoever awaited it in persistConversation empties
\* pendingMessages, whatever they hold.
Waiting(s) == {t \in DOMAIN filing : filing[t] = "wait" /\ of[t] = s}
FetchEnds(s) ==
    /\ fetch' = [fetch EXCEPT ![s] = "idle"]
    /\ answer' = [answer EXCEPT ![s] = <<>>]
    /\ filing' = Drop(Waiting(s))
    /\ pending' = IF Waiting(s) \cap mine # {} THEN <<>> ELSE pending

Delivered(s) ==
    /\ fetch[s] = "read"
    /\ FetchEnds(s)
    /\ cached' = [cached EXCEPT ![s] = answer[s]]
    /\ loaded' = loaded \cup {s} /\ invalid' = invalid \ {s}
    /\ UNCHANGED <<filed, open, first, chosen, typing, of, mine, answering, saving, moves, mixed,
                   disturbed>>

\* The page keeps what it has, and says that the history could not be fetched.
HistoryFails(s) ==
    /\ fetch[s] # "idle"
    /\ FetchEnds(s)
    /\ invalid' = invalid \cup {s}
    /\ UNCHANGED <<filed, cached, loaded, open, first, chosen, typing, of, mine, answering, saving,
                   moves, mixed, disturbed>>

-----------------------------------------------------------------------------
(* The tab and the system whose conversation it shows.                     *)

\* The list of systems arrives, or arrives again with another system in front.
SystemsLoaded(s) ==
    /\ open /\ s # first
    /\ first # NoSystem => moves < MaxMoves
    /\ first' = s
    /\ moves' = IF first = NoSystem THEN moves ELSE moves + 1
    /\ IF chosen = NoSystem THEN Come(s) ELSE UNCHANGED fetch
    /\ UNCHANGED <<filed, cached, answer, loaded, invalid, open, chosen, pending, typing, of, mine,
                   answering, filing, saving, mixed, disturbed>>

\* The selection is disabled while an answer is awaited, and not while a turn is filed.
Choose(s) ==
    /\ open /\ ~typing /\ first # NoSystem /\ s # Resolved /\ moves < MaxMoves
    /\ chosen' = s
    /\ Come(s)
    /\ pending' = <<>>
    /\ moves' = moves + 1
    /\ disturbed' = (disturbed \/ DOMAIN filing # {})
    /\ UNCHANGED <<filed, cached, answer, loaded, invalid, open, first, typing, of, mine, answering,
                   filing, saving, mixed>>

Unmounted ==
    /\ open' = FALSE /\ chosen' = NoSystem /\ pending' = <<>> /\ typing' = FALSE /\ mine' = {}

\* Another tab is taken.
Leave ==
    /\ open /\ moves < MaxMoves
    /\ moves' = moves + 1
    /\ Unmounted
    /\ UNCHANGED <<conversation, first, of, answering, filing, saving, mixed, disturbed>>

Mount ==
    /\ ~open
    /\ open' = TRUE
    /\ IF first = NoSystem THEN UNCHANGED fetch ELSE Observe(first)
    /\ disturbed' = FALSE
    /\ UNCHANGED <<filed, cached, answer, loaded, invalid, first, chosen, pending, typing, of, mine,
                   answering, filing, saving, moves, mixed>>

-----------------------------------------------------------------------------
(* A turn.                                                                 *)

\* handleSend: the copilot is asked, or a refinement of a policy shown is worked out here.
Send(local) ==
    /\ open /\ ~typing /\ Resolved # NoSystem /\ Len(of) < MaxTurns
    /\ local => \E m \in Shown : m.role = "ai"
    /\ LET t == Len(of) + 1
       IN  /\ of' = Append(of, Resolved)
           /\ mine' = mine \cup {t}
           /\ pending' = IF local THEN pending \o <<User(t), Ai(t)>> ELSE Append(pending, User(t))
           /\ typing' = ~local
           /\ answering' = IF local THEN answering ELSE answering \cup {t}
           /\ filing' = IF local THEN Start(t) ELSE filing
           /\ mixed' = IF local /\ \E u \in DOMAIN filing : of[u] = Resolved
                         THEN mixed \cup {Resolved} ELSE mixed
    /\ disturbed' = (disturbed \/ DOMAIN filing # {})
    /\ UNCHANGED <<conversation, open, first, chosen, saving, moves>>

\* An answer, or the one generateAIResponse makes up when the copilot fails, is filed
\* under the system that was selected when the question was asked.
Answered(t) ==
    /\ t \in answering
    /\ answering' = answering \ {t}
    /\ pending' = IF t \in mine THEN Append(pending, Ai(t)) ELSE pending
    /\ typing' = (t \notin mine /\ typing)
    /\ filing' = Start(t)
    /\ mixed' = IF Beside(t) # {} THEN mixed \cup {of[t]} ELSE mixed
    /\ UNCHANGED <<conversation, open, first, chosen, of, mine, saving, moves, disturbed>>

\* persistConversation: the question, then the answer.
FileMessage(t) ==
    /\ t \in DOMAIN filing /\ filing[t] \in {"user", "ai"}
    /\ filed' = [filed EXCEPT ![of[t]] = Append(@, [turn |-> t, role |-> filing[t]])]
    /\ filing' = [filing EXCEPT ![t] = IF @ = "user" THEN "ai" ELSE "refetch"]
    /\ UNCHANGED <<queries, open, first, chosen, pending, typing, of, mine, answering, saving,
                   moves, mixed, disturbed>>

\* Mutant: every message is tried by itself.
FilingGoesOn(t) ==
    /\ t \in DOMAIN filing /\ filing[t] \in {"user", "ai"}
    /\ filing' = [filing EXCEPT ![t] = IF @ = "user" THEN "ai" ELSE "refetch"]
    /\ disturbed' = (disturbed \/ t \in mine)
    /\ UNCHANGED <<conversation, open, first, chosen, pending, typing, of, mine, answering,
                   saving, moves, mixed>>

\* The error is logged and the rest of the turn is not filed. The message may have been.
FilingFails(t) ==
    /\ t \in DOMAIN filing /\ filing[t] \in {"user", "ai"}
    /\ filing' = Drop({t})
    /\ filed' \in {filed, [filed EXCEPT ![of[t]] = Append(@, [turn |-> t, role |-> filing[t]])]}
    /\ disturbed' = (disturbed \/ t \in mine)
    /\ UNCHANGED <<queries, open, first, chosen, pending, typing, of, mine, answering, saving,
                   moves, mixed>>

\* invalidateQueries, when the history is on show: it is fetched anew, or its first load joined,
\* which may have been read before the turn was filed.
Invalidate(s) ==
    /\ invalid' = invalid \cup {s}
    /\ IF s \in loaded
       THEN fetch' = [fetch EXCEPT ![s] = "sent"] /\ answer' = [answer EXCEPT ![s] = <<>>]
       ELSE Observe(s) /\ UNCHANGED answer

\* Mutant: the pending messages are emptied before the history is fetched.
EmptiedFirst(t) ==
    /\ t \in DOMAIN filing /\ filing[t] = "refetch" /\ open /\ Resolved = of[t]
    /\ filing' = [filing EXCEPT ![t] = "wait"]
    /\ Invalidate(of[t])
    /\ pending' = IF t \in mine THEN <<>> ELSE pending
    /\ disturbed' = (disturbed \/ (t \in mine /\ fetch[of[t]] = "read" /\ of[t] \notin loaded))
    /\ UNCHANGED <<filed, cached, loaded, open, first, chosen, typing, of, mine, answering, saving,
                   moves, mixed>>

Invalidated(t) ==
    /\ t \in DOMAIN filing /\ filing[t] = "refetch" /\ open /\ Resolved = of[t]
    /\ filing' = [filing EXCEPT ![t] = "wait"]
    /\ Invalidate(of[t])
    /\ disturbed' = (disturbed \/ (t \in mine /\ fetch[of[t]] = "read" /\ of[t] \notin loaded))
    /\ UNCHANGED <<filed, cached, loaded, open, first, chosen, pending, typing, of, mine, answering,
                   saving, moves, mixed>>

\* When it is not, it is fetched by whoever comes to it. A request still in flight goes on, and
\* its answer counts as new.
InvalidatedAway(t) ==
    /\ t \in DOMAIN filing /\ filing[t] = "refetch" /\ ~(open /\ Resolved = of[t])
    /\ filing' = Drop({t})
    /\ invalid' = invalid \cup {of[t]}
    /\ pending' = IF t \in mine THEN <<>> ELSE pending
    /\ disturbed' = (disturbed \/ (t \in mine /\ fetch[of[t]] = "read"))
    /\ UNCHANGED <<filed, cached, fetch, answer, loaded, open, first, chosen, typing, of, mine,
                   answering, saving, moves, mixed>>

\* handleSavePolicy, and handleCreate, which goes to the list of policies.
Save ==
    /\ open /\ ~saving /\ \E m \in Shown : m.role = "ai"
    /\ saving' = TRUE
    /\ UNCHANGED <<conversation, open, first, chosen, pending, typing, of, mine, answering, filing,
                   moves, mixed, disturbed>>

Saved ==
    /\ saving /\ saving' = FALSE
    /\ \/ Unmounted
       \/ UNCHANGED <<open, chosen, pending, typing, mine>>
    /\ UNCHANGED <<conversation, first, of, answering, filing, moves, mixed, disturbed>>

Next ==
    \/ \E s \in Systems : \/ SystemsLoaded(s) \/ Choose(s)
                          \/ Serve(s) \/ Delivered(s) \/ HistoryFails(s)
    \/ Leave \/ Mount \/ \E local \in BOOLEAN : Send(local)
    \/ \E t \in Turns : \/ Answered(t) \/ FileMessage(t) \/ FilingFails(t)
                        \/ Invalidated(t) \/ InvalidatedAway(t)
    \/ Save \/ Saved

Spec == Init /\ [][Next]_vars

-----------------------------------------------------------------------------
(* Properties.                                                             *)

\* A system's history holds turns asked about it, wherever the user has gone since, and an
\* answer right behind its question unless two turns about the system were filed together: a
\* question that could not be filed keeps its answer out too.
TurnsFiledWhole ==
    \A s \in Systems : \A i \in DOMAIN filed[s] :
        /\ of[filed[s][i].turn] = s
        /\ filed[s][i].role = "ai" /\ s \notin mixed =>
              i > 1 /\ filed[s][i - 1] = User(filed[s][i].turn)

\* What was said since the tab was opened is on show with its system's conversation: no message
\* disappears between the pending ones and the filed ones, unless the history that should have
\* them could not be fetched since. Not asked about is a tab in which filing failed, the user
\* asked on or took another system while a turn was being filed, or the request that was to
\* show a turn had been read before the turn was filed, as a first load may have been.
ConversationKept ==
    open /\ ~disturbed =>
        \A t \in mine :
            of[t] = Resolved /\ (t \in answering \cup DOMAIN filing \/ Resolved \notin invalid) =>
            /\ User(t) \in Shown
            /\ t \notin answering => Ai(t) \in Shown

-----------------------------------------------------------------------------
(* The inductive invariant.                                                *)

Turn(t) == {User(t), Ai(t)}

\* What is cached was filed; what is filed is filed with the system it was asked about, and an
\* answer behind its question.
FiledInv ==
    \A s \in Systems :
        /\ Range(cached[s]) \cup Range(answer[s]) \subseteq Range(filed[s])
        /\ \A i \in DOMAIN filed[s] :
              /\ filed[s][i].turn \in DOMAIN of /\ of[filed[s][i].turn] = s
              /\ filed[s][i].role = "ai" /\ s \notin mixed =>
                    i > 1 /\ filed[s][i - 1] = User(filed[s][i].turn)

\* Where a turn has come to in its filing, and the history it is filed in.
FilingInv ==
    \A t \in DOMAIN filing :
        LET history == filed[of[t]]
        IN  /\ \A u \in DOMAIN filing : of[u] = of[t] /\ u # t => of[t] \in mixed
            /\ filing[t] = "ai" /\ of[t] \notin mixed =>
                  Len(history) > 0 /\ history[Len(history)] = User(t)
            /\ filing[t] # "user" => User(t) \in Range(history)
            /\ filing[t] \in {"refetch", "wait"} => Ai(t) \in Range(history)

\* The tab awaits one answer at a time.
AskingInv ==
    /\ ~open => mine = {}
    /\ \A t \in mine \cap answering : typing /\ mine \cap answering = {t}

\* Unless disturbed, a tab whose turn is answered or filed is about that turn alone, and holds
\* what is not filed of it; a turn that was filed is in the answer under way, if that counts, and
\* in the cached history once it has ended, unless that is known to be old.
ShownInv ==
    open /\ ~disturbed =>
        /\ \A t \in mine \cap answering : User(t) \in Range(pending) /\ mine \cap DOMAIN filing = {}
        /\ \A t \in mine \cap DOMAIN filing :
              /\ Turn(t) \subseteq Range(pending) /\ mine \cap DOMAIN filing = {t}
              /\ filing[t] = "wait" /\ fetch[of[t]] = "read" =>
                    Turn(t) \subseteq Range(answer[of[t]])
        /\ \A t \in mine \ (answering \cup DOMAIN filing) :
              /\ Turn(t) \subseteq Range(filed[of[t]])
              /\ fetch[of[t]] = "read" => Turn(t) \subseteq Range(answer[of[t]])
              /\ of[t] \notin invalid => Turn(t) \subseteq Range(cached[of[t]])

IInv == TypeOK /\ FiledInv /\ FilingInv /\ AskingInv /\ ShownInv
=============================================================================
