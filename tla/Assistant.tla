----------------------------- MODULE Assistant -----------------------------
(***************************************************************************)
(* One conversation with the shopping assistant. A send reads the          *)
(* conversation, waits for the language model, looks up what the model     *)
(* asked for and answers, and then appends question and answer if the      *)
(* conversation is still as it was read. What the model says is open: any  *)
(* function, any passages found, any text.                                 *)
(***************************************************************************)
EXTENDS Integers, Sequences

CONSTANTS
    Sends,        \* requests, a repeated one being another
    AboutProduct, \* those sent from the page of a product
    NoSend

ASSUME AssistantAssumption == AboutProduct \subseteq Sends /\ NoSend \notin Sends

VARIABLES
    conversation, \* last_sequence, and whose question is the title
    turns,        \* the rows of assistant.messages: sequence, role, send
    sending,      \* of each send: step, last_sequence as read, answer
    outcome,      \* what the client of each send was told
    visible,      \* is the product published by an approved shop?
    faulty        \* ghost: sends that lost a dependency on the way

assistantVars == <<conversation, turns, sending, outcome, visible, faulty>>

Answer(text, action) == [text |-> text, action |-> action]
NoAnswer == Answer("", FALSE)

AssistantInit ==
    /\ conversation = [last |-> 0, title |-> NoSend]
    /\ turns = {}
    /\ sending = [s \in Sends |-> [step |-> "new", read |-> 0, answer |-> NoAnswer]]
    /\ outcome = [s \in Sends |-> "none"]
    /\ visible = TRUE
    /\ faulty = {}

---------------------------------------------------------------------------
(* What the answer is, by the function the model chose.                    *)

\* answerProductQuestion: nothing usable generated, or the data does not say.
ProductAnswers == {Answer("sellerHelp", TRUE), Answer("fromProduct", TRUE), Answer("fromProduct", FALSE)}

\* policyNotFoundWithSellerSuggestion
NoPolicy(s) == Answer("policyNotFound", s \in AboutProduct /\ visible)

\* answerPolicyQuestion: an empty text is "not found", too; drafts are marked.
PolicyAnswers == {Answer(t, FALSE) : t \in {"fromPolicies", "fromDrafts", "policyNotFound"}}

\* lookup.SearchProducts and the orders of the user, by list or by id.
Found(function) == {Answer(function, FALSE), Answer("nothingFound", FALSE)}

Answers(s, function) ==
    CASE function = "search_products" -> Found(function) \cup {Answer("productHelp", FALSE)}
      [] function = "list_my_orders"  -> Found(function)
      [] function = "get_my_order"    -> Found(function) \cup {Answer("orderHelp", FALSE)}
      [] function = "answer_current_product_question" ->
            IF s \notin AboutProduct THEN {Answer("scope", FALSE)}
            ELSE IF ~visible THEN {Answer("productUnavailable", FALSE)}
            ELSE ProductAnswers
      [] function = "search_policies" -> PolicyAnswers \cup {NoPolicy(s)}
      [] OTHER                        -> {Answer("scope", FALSE)}

Functions ==
    {"search_products", "list_my_orders", "get_my_order", "answer_current_product_question",
     "search_policies", "scope_refusal"}

---------------------------------------------------------------------------

Step(s, record) == sending' = [sending EXCEPT ![s] = record]

Tell(s, what) ==
    /\ outcome' = [outcome EXCEPT ![s] = what]
    /\ Step(s, [sending[s] EXCEPT !.step = "done"])

ReadConversation(s) ==
    /\ sending[s].step = "new"
    /\ Step(s, [step |-> "asked", read |-> conversation.last, answer |-> NoAnswer])
    /\ UNCHANGED <<conversation, turns, outcome, visible, faulty>>

\* The limiter counts the request before anything is read.
RateLimited(s) ==
    /\ sending[s].step = "new"
    /\ Tell(s, "rate limited")
    /\ UNCHANGED <<conversation, turns, visible, faulty>>

ModelAnswers(s) ==
    /\ sending[s].step = "asked"
    /\ \E function \in Functions : \E answer \in Answers(s, function) :
        Step(s, [sending[s] EXCEPT !.step = "answered", !.answer = answer])
    /\ UNCHANGED <<conversation, turns, outcome, visible, faulty>>

Turn(s, read) ==
    {[sequence |-> read + 1, role |-> "user", send |-> s],
     [sequence |-> read + 2, role |-> "assistant", send |-> s]}

\* Mutant: whatever was appended meanwhile.
UnchangedNever(read) == TRUE

Unchanged(read) == conversation.last = read

\* The unique index of the messages on conversation and sequence.
Free(read) == \A row \in turns : row.sequence \notin {read + 1, read + 2}

\* titleFor
TitleFor(s) == IF conversation.title = NoSend THEN s ELSE conversation.title

\* The transaction; its commit may succeed and yet be answered with an error.
AppendTurn(s) ==
    LET read == sending[s].read IN
    /\ sending[s].step = "answered"
    /\ IF Unchanged(read) /\ Free(read)
       THEN /\ turns' = turns \cup Turn(s, read)
            /\ conversation' = [last |-> read + 2, title |-> TitleFor(s)]
            /\ \/ Tell(s, "ok") /\ UNCHANGED faulty
               \/ Tell(s, "unavailable") /\ faulty' = faulty \cup {s}
       ELSE /\ Tell(s, IF Unchanged(read) THEN "unavailable" ELSE "conflict")
            /\ UNCHANGED <<turns, conversation, faulty>>
    /\ UNCHANGED visible

\* Redis, the database, the model or a lookup fails, or the process stops.
SendFails(s) ==
    /\ sending[s].step # "done"
    /\ Tell(s, "unavailable")
    /\ faulty' = faulty \cup {s}
    /\ UNCHANGED <<conversation, turns, visible>>

\* The shop, or an administrator.
ProductChanges ==
    /\ visible' = ~visible
    /\ UNCHANGED <<conversation, turns, sending, outcome, faulty>>

AssistantNext ==
    \/ ProductChanges
    \/ \E s \in Sends :
        \/ ReadConversation(s) \/ RateLimited(s) \/ ModelAnswers(s)
        \/ AppendTurn(s) \/ SendFails(s)

AssistantSpec == AssistantInit /\ [][AssistantNext]_assistantVars

---------------------------------------------------------------------------

Saved == {row.send : row \in turns}

\* Sends that overlap: the conversation is made of whole turns, one after the
\* other, its title is the first question; and the clients are told the truth:
\* a turn is saved if it says so, a conflict is another turn since the reading,
\* an outage is one. (An answer that was saved may still be told as an outage.)
TurnsToldRight ==
    /\ {row.sequence : row \in turns} = 1..conversation.last
    /\ \A row \in turns :
        row.sequence % 2 = 1 => \E answer \in turns :
            answer.sequence = row.sequence + 1 /\ answer.send = row.send /\ answer.role # row.role
    /\ \A row \in turns : row.sequence = 1 => conversation.title = row.send
    /\ \A s \in Sends :
        /\ outcome[s] = "ok" => s \in Saved
        /\ outcome[s] = "conflict" => s \notin Saved /\ conversation.last > sending[s].read
        /\ outcome[s] = "unavailable" => s \in faulty

=============================================================================
