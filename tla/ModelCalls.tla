------------------------------- MODULE ModelCalls -------------------------------
(***************************************************************************)
(* The two models the server calls: the one that embeds, for the frames of *)
(* an indexing batch and for the queries of find, behind a limit on calls  *)
(* in flight and a cache by the hash of the text                           *)
(* (retrieval/provider-factory.ts, work-activity/embedding-service.ts,     *)
(* hash-index.ts); and the one that summarises sessions, behind a timeout, *)
(* with a template to fall back on (llm/llm-client.ts, work-activity/      *)
(* summary).  A step runs from one await on a provider or a file to the    *)
(* next.  Nothing else bounds a call: an embedding takes as long as its    *)
(* provider does.                                                          *)
(*                                                                         *)
(* An embedding is [text, model]: what it was made of and by which model.  *)
(* A hash stands for its text.                                             *)
(***************************************************************************)
EXTENDS Naturals, Sequences, FiniteSets

CONSTANTS
  Batch,              \* frames to index: 1..Batch
  Text,               \* Text[f]: the extracted text of a frame, or NoText
  NoText,
  Queries,            \* find requests by meaning
  EmbeddingModels,    \* values of providers.embeddings.model
  Limit,              \* providers.embeddings.concurrency, 0 for none
  Pool,               \* embeddingConcurrency of the indexing service
  Readers,            \* recall and inspect requests that want a summary
  Sessions,
  RemoteConfigured,   \* provider remote-llm, with llm.base_url and llm.api_key
  MaxCallFaults,      \* bound on failing calls, reads and writes
  MaxSwitches,        \* bound on restarts
  MaxPauses, MaxAsks  \* bounds on pauses, and on summaries asked for

Indexed == 1..Batch
Callers == Indexed \cup Queries

ASSUME CallAssumption ==
  /\ Batch \in Nat /\ Queries \cap Indexed = {} /\ DOMAIN Text = Indexed
  /\ {Limit, Pool, MaxCallFaults, MaxSwitches, MaxPauses, MaxAsks} \subseteq Nat
  /\ RemoteConfigured \in BOOLEAN

VARIABLES
  model,                   \* the configured embedding model
  slot,                    \* per caller: "idle", "waiting", "calling" or, of a query, "answered"
  active, waiting,         \* ConcurrencyLimitedEmbeddingProvider: #activeCount and #queue
  batch,                   \* the indexing run: [pc, next, result]
  covered,                 \* the checkpoint: frames up to here are not indexed again
  cache, embedded,         \* embedding_hash_index by text, and vectors by frame
  providerHealth,          \* providerHealth.embedding and .summary
  pausedNow, row,          \* the privacy state, and the summary columns per session
  reader,                  \* per request: [pc, session]
  used,                    \* ghost: embedding models configured since the vectors were reset
  atLiberty,               \* ghost: requests during which the privacy state was not paused
  callFaults, switches, pauses, asks
embedding == <<model, slot, active, waiting, batch, covered, cache, embedded, used>>
summaries == <<pausedNow, row, reader, atLiberty>>
counters  == <<switches, pauses, asks>>
callVars  == <<embedding, summaries, providerHealth, callFaults, counters>>

NoEmbedding == [text |-> NoText, model |-> NoText]
Failed      == [NoEmbedding EXCEPT !.model = "failed"]
NoBatch     == [pc |-> "idle", next |-> 1, result |-> [f \in Indexed |-> NoEmbedding]]
NoReader    == [pc |-> "idle", session |-> "none"]
Unknown     == [embedding |-> "unknown", summary |-> "unknown"]

CallsInit ==
  /\ model \in EmbeddingModels
  /\ slot = [c \in Callers |-> "idle"] /\ active = 0 /\ waiting = <<>>
  /\ batch = NoBatch /\ covered = 0
  /\ cache = [t \in {Text[f] : f \in Indexed} |-> NoEmbedding]
  /\ embedded = [f \in Indexed |-> NoEmbedding]
  /\ providerHealth = Unknown /\ used = {model}
  /\ pausedNow = FALSE /\ row = [s \in Sessions |-> [status |-> "pending", kind |-> "none"]]
  /\ reader = [r \in Readers |-> NoReader] /\ atLiberty = {}
  /\ callFaults = 0 /\ switches = 0 /\ pauses = 0 /\ asks = 0

CallFault == callFaults < MaxCallFaults /\ callFaults' = callFaults + 1

-----------------------------------------------------------------------------
(* ConcurrencyLimitedEmbeddingProvider: embed() acquires, calls, releases. *)

Acquire(c) ==
  IF Limit = 0 \/ active < Limit
  THEN /\ slot' = [slot EXCEPT ![c] = "calling"]
       /\ active' = IF Limit = 0 THEN active ELSE active + 1
       /\ UNCHANGED waiting
  ELSE /\ slot' = [slot EXCEPT ![c] = "waiting"]
       /\ waiting' = Append(waiting, c)
       /\ UNCHANGED active

(* Mutants: the next caller is woken without taking the place; it is not   *)
(* woken.                                                                  *)
GiveBackUncounted(c, after) ==
  IF Limit = 0 \/ waiting = <<>>
  THEN /\ slot' = [slot EXCEPT ![c] = after]
       /\ active' = IF Limit = 0 THEN active ELSE active - 1
       /\ UNCHANGED waiting
  ELSE /\ slot' = [slot EXCEPT ![c] = after, ![Head(waiting)] = "calling"]
       /\ waiting' = Tail(waiting)
       /\ active' = active - 1

GiveBackOnly(c, after) ==
  /\ slot' = [slot EXCEPT ![c] = after]
  /\ active' = IF Limit = 0 THEN active ELSE active - 1
  /\ UNCHANGED waiting

(* #release gives the place back, and the caller it wakes takes it.        *)
GiveBack(c, after) ==
  IF Limit = 0 \/ waiting = <<>>
  THEN /\ slot' = [slot EXCEPT ![c] = after]
       /\ active' = IF Limit = 0 THEN active ELSE active - 1
       /\ UNCHANGED waiting
  ELSE /\ slot' = [slot EXCEPT ![c] = after, ![Head(waiting)] = "calling"]
       /\ waiting' = Tail(waiting)
       /\ UNCHANGED active

(* recordOk and recordFailure replace what was known of the provider;      *)
(* nothing calls them for the language model.                              *)
Report(outcome) == providerHealth' = [providerHealth EXCEPT !.embedding = outcome]

-----------------------------------------------------------------------------
(* The indexing run: embedConcurrently keeps Pool calls going, puts each   *)
(* result at the index of its frame, and the batch is stored as one.       *)

InFlight == {f \in Indexed : slot[f] \in {"waiting", "calling"}}

StartBatch ==
  /\ batch.pc = "idle" /\ covered < Batch
  /\ batch' = [NoBatch EXCEPT !.pc = "pool", !.next = covered + 1]
  /\ UNCHANGED <<model, used, slot, active, waiting, covered, cache, embedded, summaries,
                 providerHealth, callFaults, counters>>

(* computeEmbedding: an empty text is skipped, a text in the cache is not  *)
(* embedded again, and a cache that cannot be read counts as a miss.       *)
EmbedNext ==
  /\ batch.pc = "pool" /\ batch.next <= Batch
  /\ Cardinality(InFlight) < IF Pool > 1 THEN Pool ELSE 1
  /\ LET f == batch.next
         hit == cache[Text[f]] # NoEmbedding
         launched == [batch EXCEPT !.next = @ + 1]
     IN  \/ /\ Text[f] = NoText
            /\ batch' = launched /\ UNCHANGED <<slot, active, waiting, callFaults>>
         \/ /\ Text[f] # NoText /\ hit
            /\ batch' = [launched EXCEPT !.result[f] = cache[Text[f]]]
            /\ UNCHANGED <<slot, active, waiting, callFaults>>
         \/ /\ Text[f] # NoText /\ Acquire(f) /\ batch' = launched
            /\ IF hit THEN CallFault ELSE UNCHANGED callFaults
  /\ UNCHANGED <<model, used, covered, cache, embedded, summaries, providerHealth, counters>>

(* What the provider made of it goes into the cache, where the first       *)
(* writer wins, and to the frame it was made for.  A failing write is      *)
(* ignored.  Mutant: to the frame the pool has come to.                    *)
EmbeddedAtNext(f) ==
  /\ batch' = [batch EXCEPT !.result[batch.next - 1] = [text |-> Text[f], model |-> model]]
  /\ \/ /\ cache' = IF cache[Text[f]] = NoEmbedding
                    THEN [cache EXCEPT ![Text[f]] = [text |-> Text[f], model |-> model]] ELSE cache
        /\ UNCHANGED callFaults
     \/ CallFault /\ UNCHANGED cache

Embedded(f) ==
  LET made == [text |-> Text[f], model |-> model]
  IN  /\ batch' = [batch EXCEPT !.result[f] = made]
      /\ \/ /\ cache' = IF cache[Text[f]] = NoEmbedding THEN [cache EXCEPT ![Text[f]] = made] ELSE cache
            /\ UNCHANGED callFaults
         \/ CallFault /\ UNCHANGED cache

EmbedSettles(f) ==
  /\ f \in Indexed /\ slot[f] = "calling" /\ GiveBack(f, "idle")
  /\ \/ Embedded(f) /\ Report("ok")
     \/ /\ CallFault /\ Report("unavailable")
        /\ batch' = [batch EXCEPT !.result[f] = Failed] /\ UNCHANGED cache
  /\ UNCHANGED <<model, used, covered, embedded, summaries, counters>>

(* Step 3 of a run: one upsert for all that were embedded - a row replaces *)
(* the frame's row - and the checkpoint moves up to the first frame that   *)
(* failed; if the upsert fails, to the first that was to be stored.        *)
NotStored(f, stored) ==
  Text[f] # NoText /\ (batch.result[f] = Failed \/ ~stored)

EndBatch ==
  /\ batch.pc = "pool" /\ batch.next > Batch /\ InFlight = {}
  /\ \E stored \in BOOLEAN :
       LET pending == {f \in Indexed : f > covered}
           behind  == {f \in pending : NotStored(f, stored)}
       IN  /\ IF stored THEN UNCHANGED callFaults ELSE CallFault
           /\ embedded' = [f \in Indexed |->
                IF stored /\ f \in pending /\ Text[f] # NoText /\ batch.result[f] # Failed
                THEN batch.result[f] ELSE embedded[f]]
           /\ covered' = IF behind = {} THEN Batch
                         ELSE (CHOOSE f \in behind : \A g \in behind : f <= g) - 1
  /\ batch' = NoBatch
  /\ UNCHANGED <<model, used, slot, active, waiting, cache, summaries, providerHealth, counters>>

-----------------------------------------------------------------------------
(* find by meaning embeds its query with the same provider; a failure      *)
(* makes it a keyword search.  Neither is reported or cached.              *)

EmbedQuery(q) ==
  /\ q \in Queries /\ slot[q] = "idle" /\ Acquire(q)
  /\ UNCHANGED <<model, used, batch, covered, cache, embedded, summaries, providerHealth,
                 callFaults, counters>>

QuerySettles(q) ==
  /\ q \in Queries /\ slot[q] = "calling" /\ GiveBack(q, "answered")
  /\ UNCHANGED callFaults \/ CallFault
  /\ UNCHANGED <<model, used, batch, covered, cache, embedded, summaries, providerHealth, counters>>

-----------------------------------------------------------------------------
(* The server is started again, with a model that may be another; calls in *)
(* flight and everything in memory is gone.  rebuild-index runs in between *)
(* and resets vectors and checkpoint, not the cache.                       *)
Restart ==
  /\ switches < MaxSwitches /\ switches' = switches + 1
  /\ model' \in EmbeddingModels
  /\ slot' = [c \in Callers |-> "idle"] /\ active' = 0 /\ waiting' = <<>>
  /\ batch' = NoBatch /\ providerHealth' = Unknown
  /\ reader' = [r \in Readers |-> NoReader] /\ atLiberty' = {}
  /\ UNCHANGED <<cache, pausedNow, row, callFaults, pauses, asks>>

ResetIndex == covered' = 0 /\ used' = {model'} /\ embedded' = [f \in Indexed |-> NoEmbedding]

KeepIndex == used' = used \cup {model'} /\ UNCHANGED <<covered, embedded>>

RestartServer == Restart /\ (ResetIndex \/ KeepIndex)

-----------------------------------------------------------------------------
(* SummaryWorker.ensureSummary: the row, its evidence, the privacy state,  *)
(* the provider, the row.                                                  *)

Ends(r)    == reader' = [reader EXCEPT ![r] = NoReader]
Goes(r, pc) == reader' = [reader EXCEPT ![r].pc = pc]
SummaryOnly == UNCHANGED <<embedding, providerHealth, switches>>

(* updateSummary: an UPDATE, which finds no row when the session is gone.  *)
UpdateSummary(r, status, kind) ==
  LET s == reader[r].session
  IN  row' = [row EXCEPT ![s] = IF @.status = "gone" THEN @ ELSE [status |-> status, kind |-> kind]]

(* A session that is gone fails, one that has a summary answers with it.   *)
EnsureSummary(r, s) ==
  /\ reader[r].pc = "idle" /\ asks < MaxAsks /\ asks' = asks + 1
  /\ IF row[s].status \in {"gone", "ready"} THEN UNCHANGED <<reader, atLiberty>>
     ELSE /\ reader' = [reader EXCEPT ![r] = [pc |-> "select", session |-> s]]
          /\ atLiberty' = IF pausedNow THEN atLiberty \ {r} ELSE atLiberty \cup {r}
  /\ UNCHANGED <<pausedNow, row, callFaults, pauses>> /\ SummaryOnly

(* selectProvider: paused, or a state that cannot be read, means the       *)
(* template, which does not fail.  Mutant: unreadable counts as unpaused.  *)
MayLeaveUnlessPaused(readable) == RemoteConfigured /\ ~(readable /\ pausedNow)

MayLeave(readable) == RemoteConfigured /\ readable /\ ~pausedNow

SelectProvider(r) ==
  /\ reader[r].pc = "select"
  /\ \E readable \in BOOLEAN :
       /\ IF readable THEN UNCHANGED callFaults ELSE CallFault
       /\ IF MayLeave(readable) THEN Goes(r, "headers") /\ UNCHANGED row
          ELSE Ends(r) /\ UpdateSummary(r, "ready", "template")
  /\ UNCHANGED <<pausedNow, atLiberty, pauses, asks>> /\ SummaryOnly

(* LlmClient.complete: a request has left; the answer is a status, then a  *)
(* body.  The timer runs until both are there.                             *)
HeadersArrive(r) ==
  /\ reader[r].pc = "headers" /\ Goes(r, "body")
  /\ UNCHANGED <<pausedNow, row, atLiberty, callFaults, pauses, asks>> /\ SummaryOnly

BodyArrives(r) ==
  /\ reader[r].pc = "body" /\ Ends(r) /\ UpdateSummary(r, "ready", "remote-llm")
  /\ UNCHANGED <<pausedNow, atLiberty, callFaults, pauses, asks>> /\ SummaryOnly

(* PROVIDER_UNAVAILABLE, PARSE_FAILED or TIMEOUT: the template it is.      *)
Degrade(r) == Ends(r) /\ UpdateSummary(r, "degraded", "template")

RequestFails(r) ==
  /\ reader[r].pc \in {"headers", "body"} /\ CallFault /\ Degrade(r)
  /\ UNCHANGED <<pausedNow, atLiberty, pauses, asks>> /\ SummaryOnly

(* Mutant: the timer is cleared when the status arrives.                   *)
TimerFiresForHeaders(r) ==
  /\ reader[r].pc = "headers" /\ Degrade(r)
  /\ UNCHANGED <<pausedNow, atLiberty, callFaults, pauses, asks>> /\ SummaryOnly

TimerFires(r) ==
  /\ reader[r].pc \in {"headers", "body"} /\ Degrade(r)
  /\ UNCHANGED <<pausedNow, atLiberty, callFaults, pauses, asks>> /\ SummaryOnly

(* Around them: the user pauses and resumes, and sessions are deleted.     *)
PauseOrResume ==
  /\ pauses < MaxPauses /\ pauses' = pauses + 1
  /\ pausedNow' = ~pausedNow
  /\ atLiberty' = IF pausedNow THEN {r \in Readers : reader[r].pc # "idle"} \cup atLiberty ELSE atLiberty
  /\ UNCHANGED <<row, reader, callFaults, asks>> /\ SummaryOnly

DeleteSession(s) ==
  /\ row[s].status # "gone" /\ row' = [row EXCEPT ![s] = [status |-> "gone", kind |-> "none"]]
  /\ UNCHANGED <<pausedNow, reader, atLiberty, callFaults, pauses, asks>> /\ SummaryOnly

-----------------------------------------------------------------------------
EmbeddingNext ==
  \/ StartBatch \/ EmbedNext \/ EndBatch
  \/ \E c \in Callers : EmbedSettles(c) \/ EmbedQuery(c) \/ QuerySettles(c)

SummaryNext ==
  \/ PauseOrResume
  \/ \E r \in Readers :
       \/ \E s \in Sessions : EnsureSummary(r, s)
       \/ SelectProvider(r) \/ HeadersArrive(r) \/ BodyArrives(r) \/ RequestFails(r) \/ TimerFires(r)
  \/ \E s \in Sessions : DeleteSession(s)

CallsNext == EmbeddingNext \/ SummaryNext \/ RestartServer

CallsSpec == CallsInit /\ [][CallsNext]_callVars

(* The embedding provider answers or refuses every call: nothing in the    *)
(* code makes it.  The language model need not: its timer does fire, and   *)
(* the privacy state is a file.                                            *)
CallsFairness ==
  /\ \A c \in Callers : WF_callVars(EmbedSettles(c)) /\ WF_callVars(QuerySettles(c))
  /\ \A r \in Readers : WF_callVars(SelectProvider(r)) /\ WF_callVars(TimerFires(r))

-----------------------------------------------------------------------------
(* The limiter's count is the calls that are out, never more than the      *)
(* limit; the queue holds each waiting caller once, and nobody waits while *)
(* there is a place: no wake-up is lost, whoever fails, and in whatever    *)
(* order indexing and searches come and go.                                *)
SlotsAccounted ==
  LET calling == {c \in Callers : slot[c] = "calling"}
      queued  == {c \in Callers : slot[c] = "waiting"}
  IN  Limit > 0 =>
        /\ active = Cardinality(calling) /\ active <= Limit
        /\ waiting # <<>> => active = Limit
        /\ queued = {waiting[i] : i \in 1..Len(waiting)} /\ Len(waiting) = Cardinality(queued)

(* Every call that waits for a place gets one, as long as the provider     *)
(* ends the calls it has: a find is not starved by an indexing run.        *)
EveryCallServed == \A c \in Callers : slot[c] = "waiting" ~> slot[c] # "waiting"

(* Up to the checkpoint every frame with a text has a vector of that text, *)
(* in whatever order the calls of the pool ended, however often a failed   *)
(* batch was repeated.  It is of a model configured since the last rebuild *)
(* unless the cache held it from before: the hash is of the text alone,    *)
(* and a rebuild with another model does not clear it.                     *)
VectorsAccounted ==
  \A f \in Indexed :
    /\ f <= covered /\ Text[f] # NoText => embedded[f].text = Text[f]
    /\ embedded[f] # NoEmbedding =>
         /\ embedded[f].text = Text[f]
         /\ embedded[f].model \in used \/ cache[Text[f]] = embedded[f]

(* Whoever asks for a summary gets an answer though the language model     *)
(* never gives one, before the status of its response or in the middle of  *)
(* the body.                                                               *)
EverySummaryEnds == \A r \in Readers : reader[r].pc = "select" ~> reader[r].pc = "idle"

(* W27 No_Outbound_When_Paused (summary/worker.ts:36-41): no request       *)
(* leaves for a language model on behalf of a call all of which fell in a  *)
(* pause, though the privacy state could not be read.                      *)
NoOutboundWhenPaused ==
  \A r \in Readers : reader[r].pc \in {"headers", "body"} => r \in atLiberty
=================================================================================
