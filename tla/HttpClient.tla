----------------------------- MODULE HttpClient -----------------------------
(***************************************************************************)
(* BulkHttpClient over a network that may lose a request or an answer: a   *)
(* signed transaction and the exchange that executes it, the methods for   *)
(* single actions, and a page of account history with the bounded reading  *)
(* of its error bodies.                                                    *)
(***************************************************************************)
EXTENDS Commands

CONSTANTS
  SignerKey,    \* public key of the client's signer
  StatusLists,  \* lists of statuses the exchange may answer a transaction with
  MaxClock,     \* bound on the readings of the clock
  MaxErrorBody, \* HISTORY_ERROR_BODY_MAX_BYTES, in chunks
  Pages         \* what /account may answer: see HistoryAnswer

ASSUME HttpAssumption ==
  /\ MaxClock \in Nat /\ MaxErrorBody \in Nat
  /\ SignerKey # "none"
  /\ StatusLists \subseteq Seq(STRING)
  /\ \A a \in Pages : a.chunks \in Seq(Nat)

VARIABLES
  clock,     \* SystemTime
  phase,     \* of place_tx: "idle", "sent", "ended"
  tx,        \* the transaction of this call
  inbox,     \* requests on their way to the exchange
  answer,    \* on its way back: [code, statuses]
  result,    \* of the call: "none", "responses", "error" or "panic", and the statuses
  executed,  \* transactions the exchange has executed
  page       \* a request that only reads: [at, method, out], and of the body of its error: what
             \* was sent, the chunks to come, those kept with their size, and what it is

netVars  == <<phase, tx, inbox, answer, result, executed>>
httpVars == <<clock, netVars, page>>

NoTx     == [run |-> 0, account |-> "none", nonce |-> 0, actions |-> <<>>]
NoList   == <<"no list">>
NoAnswer == [code |-> "none", statuses |-> <<>>]
NoResult == [kind |-> "none", statuses |-> <<>>]
NoPage   == [at |-> "off", method |-> "none", sent |-> <<>>, chunks |-> <<>>, kept |-> <<>>,
             size |-> 0, body |-> "none", out |-> "none"]

HttpInit ==
  /\ clock = 0
  /\ phase = "idle" /\ tx = NoTx /\ inbox = {} /\ answer = NoAnswer /\ result = NoResult
  /\ executed = <<>>

\* The clock may be set back, and is coarser than two calls.
ClockMoves ==
  /\ clock' \in (0..MaxClock) \ {clock}
  /\ UNCHANGED <<netVars, page>>

MakeNonce == clock

-----------------------------------------------------------------------------
(* What each method for a single action makes of its arguments.  Account   *)
(* and nonce only reach the meta data of the action, which is neither      *)
(* signed nor sent.                                                        *)

PlaceLimitOrder(args)     == Built("LimitOrder", args, Bare)
PlaceMarketOrder(args)    ==
  Built("MarketOrder", args,
        Bare @@ [slippage |-> IF args.slippage = "none" THEN "100bps" ELSE args.slippage])
CancelOrder(args)         == Built("Cancel", args, NothingFixed)
CancelAllOrders(args)     == Built("CancelAll", args, NothingFixed)
UpdateLeverage(args)      == Built("UpdateUserSettings", args, NothingFixed)
ManageAgentWallet(args)   == Built("AgentWalletCreation", args, NothingFixed)
ApproveBuilderCode(args)  == Built("ApproveCommissionFee", args, NothingFixed)
RevokeBuilderCode(args)   == Built("RevokeCommissionFee", args, NothingFixed)
WhitelistAccount(args)    == Built("WhitelistFaucet", args, NothingFixed)
RequestFaucet(args)       ==
  Built("Faucet", args, [user |-> IF args.user = "none" THEN SignerKey ELSE args.user])

SingleAction(method, args) ==
  CASE method = "place_limit_order"    -> PlaceLimitOrder(args)
    [] method = "place_market_order"   -> PlaceMarketOrder(args)
    [] method = "cancel_order"         -> CancelOrder(args)
    [] method = "cancel_all"           -> CancelAllOrders(args)
    [] method = "update_leverage"      -> UpdateLeverage(args)
    [] method = "manage_agent_wallet"  -> ManageAgentWallet(args)
    [] method = "approve_builder_code" -> ApproveBuilderCode(args)
    [] method = "revoke_builder_code"  -> RevokeBuilderCode(args)
    [] method = "whitelist_faucet"     -> WhitelistAccount(args)
    [] OTHER                           -> RequestFaucet(args)

-----------------------------------------------------------------------------
\* BulkHttpClient::new: a signer needs a domain.
Configured(key, domain) == key = "none" \/ domain

(* place_tx.                                                               *)

\* Mutant: a nonce of its own.
PlaceTxOwnNonce(run, actions, account, nonce) ==
  /\ phase = "idle"
  /\ tx' = [run |-> run, actions |-> actions,
            account |-> IF account = "none" THEN SignerKey ELSE account,
            nonce   |-> MakeNonce]
  /\ \/ phase' = "sent" /\ inbox' = inbox \cup {tx'} /\ UNCHANGED result
     \/ phase' = "ended" /\ result' = [NoResult EXCEPT !.kind = "error"] /\ UNCHANGED inbox
  /\ UNCHANGED <<clock, answer, executed, page>>

\* Signs and posts; a Ledger may refuse, and a connection may not come about.  The nonce is
\* -1 when it is left to the client.
PlaceTx(run, actions, account, nonce) ==
  /\ phase = "idle"
  /\ tx' = [run |-> run, actions |-> actions,
            account |-> IF account = "none" THEN SignerKey ELSE account,
            nonce   |-> IF nonce = -1 THEN MakeNonce ELSE nonce]
  /\ \/ phase' = "sent" /\ inbox' = inbox \cup {tx'} /\ UNCHANGED result
     \/ phase' = "ended" /\ result' = [NoResult EXCEPT !.kind = "error"] /\ UNCHANGED inbox
  /\ UNCHANGED <<clock, answer, executed, page>>

\* place_tx without a signer.
NoSigner ==
  /\ phase = "idle"
  /\ phase' = "ended" /\ result' = [NoResult EXCEPT !.kind = "error"]
  /\ UNCHANGED <<clock, tx, inbox, answer, executed, page>>

\* The exchange executes a request, or refuses it, whether or not the client still waits.
Reply(request, code, statuses) ==
  answer' = IF phase = "sent" /\ request = tx THEN [code |-> code, statuses |-> statuses] ELSE answer

Execute ==
  \E request \in inbox :
    /\ inbox' = inbox \ {request}
    /\ \/ /\ executed' = Append(executed, request)
          /\ \E s \in StatusLists : Reply(request, "ok", s)
       \/ /\ Reply(request, "http error", <<>>)
          /\ executed' \in {executed, Append(executed, request)}
    /\ UNCHANGED <<clock, phase, tx, result, page>>

\* A request or an answer is lost.
Lose ==
  /\ \/ \E request \in inbox : inbox' = inbox \ {request} /\ UNCHANGED answer
     \/ answer # NoAnswer /\ answer' = NoAnswer /\ UNCHANGED inbox
  /\ UNCHANGED <<clock, phase, tx, result, executed, page>>

\* Response::parse_responses: the tag of every entry of the list of statuses, "" for an entry
\* that is no object, and nothing at all when there is no such list.
ParseResponses(list) ==
  IF list = NoList THEN <<>> ELSE [i \in DOMAIN list |-> IF list[i] = "scalar" THEN "" ELSE list[i]]

Receive ==
  /\ phase = "sent" /\ answer # NoAnswer
  /\ result' = IF answer.code = "ok"
               THEN [kind |-> "responses", statuses |-> ParseResponses(answer.statuses)]
               ELSE [NoResult EXCEPT !.kind = "error"]
  /\ phase' = "ended" /\ answer' = NoAnswer
  /\ UNCHANGED <<clock, tx, inbox, executed, page>>

\* Mutant: the request is sent again.
TimeoutRetries ==
  /\ phase = "sent"
  /\ inbox' = inbox \cup {tx}
  /\ UNCHANGED <<clock, phase, tx, answer, result, executed, page>>

\* Mutant: only the sending has a timeout.
TimeoutOfSending ==
  /\ phase = "sent" /\ tx \in inbox
  /\ phase' = "ended" /\ result' = [NoResult EXCEPT !.kind = "error"] /\ answer' = NoAnswer
  /\ UNCHANGED <<clock, tx, inbox, executed, page>>

\* The timeout of the reqwest client.  An answer that comes later is dropped.
Timeout ==
  /\ phase = "sent"
  /\ phase' = "ended" /\ result' = [NoResult EXCEPT !.kind = "error"] /\ answer' = NoAnswer
  /\ UNCHANGED <<clock, tx, inbox, executed, page>>

\* The caller has its result and the client is free again.
Finish ==
  /\ phase' = "idle" /\ result' = NoResult
  /\ UNCHANGED <<clock, tx, inbox, answer, executed, page>>

-----------------------------------------------------------------------------
(* Requests that only read.                                                *)

Done(out) == page' = [page EXCEPT !.at = "done", !.out = out]

\* exchangeInfo, config, ticker, klines and l2book: what a 200 holds, if it can be decoded.
GetMarketData ==
  /\ page.at = "asked" /\ page.method = "market data"
  /\ Done("data") \/ Done("transport error")
  /\ UNCHANGED <<clock, netVars>>

\* fullAccount: the first entry of the list that is answered.
GetAccount ==
  /\ page.at = "asked" /\ page.method = "fullAccount"
  /\ \E list \in {<<>>, <<"first">>, <<"first", "second">>} :
       Done(IF list = <<>> THEN "empty fullAccount response" ELSE Head(list))
     \/ Done("transport error")
  /\ UNCHANGED <<clock, netVars>>

\* openOrders: every entry is unwrapped, and one that cannot be read loses the answer.
GetOpenOrders ==
  /\ page.at = "asked" /\ page.method = "openOrders"
  /\ Done("open orders") \/ Done("transport error")
  /\ UNCHANGED <<clock, netVars>>

(* get_history_page.                                                       *)

HistoryMethods == {"fills", "positions", "fundingHistory", "orderHistory", "activityHistory",
                   "riskHistory"}
ReadMethods    == HistoryMethods \cup {"market data", "fullAccount", "openOrders"}

\* Deserialize for HistoryPageInfo: `next` is "absent", "null", "" or a cursor.
PageInfoOk(i) ==
  /\ i.next # "absent"
  /\ i.has_more = (i.next # "null") /\ i.next # ""
  /\ i.start <= i.end /\ i.end <= i.as_of
  /\ i.coverage = "complete" /\ i.oldest # -1 => i.oldest <= i.start

\* Deserialize for HistoryFill: the trade id is the one of the message, or the slot and the
\* sequence of a fill that has none; text that is not two numbers fails.
FillOk(trade) == trade \in {"id", "absent"}

HistoryAnswer(a) ==
  \/ a.status = 200 /\ page' = [page EXCEPT !.at = "done",
       !.out = IF PageInfoOk(a.info) /\ (page.method = "fills" => FillOk(a.trade))
               THEN "page" ELSE "transport error"]
  \/ a.status # 200 /\ page' = [page EXCEPT !.at = "body", !.sent = a.chunks, !.chunks = a.chunks,
                                             !.body = a.body]

GetHistoryPage ==
  /\ page.at = "asked" /\ page.method \in HistoryMethods
  /\ \/ \E a \in Pages : HistoryAnswer(a)
     \/ Done("transport error")
  /\ UNCHANGED <<clock, netVars>>

Fallback == Done("HISTORY_HTTP_ERROR")

\* The next chunk is taken; a chunk is its size.
Keeps ==
  page' = [page EXCEPT !.kept = Append(@, Head(page.chunks)), !.size = @ + Head(page.chunks),
                       !.chunks = Tail(@)]

Fits == page.size + Head(page.chunks) <= MaxErrorBody

\* Mutant: what fits is kept and the rest is left.
ReadErrorBodyTruncates ==
  /\ page.at = "body" /\ page.chunks # <<>>
  /\ \/ Fits /\ Keeps
     \/ ~Fits /\ page' = [page EXCEPT !.chunks = Tail(@)]
     \/ Fallback
  /\ UNCHANGED <<clock, netVars>>

\* history_api_error: one chunk, unless it takes the body over the limit or cannot be read.
ReadErrorBody ==
  /\ page.at = "body" /\ page.chunks # <<>>
  /\ \/ Fits /\ Keeps
     \/ Fallback
  /\ UNCHANGED <<clock, netVars>>

DecodeErrorBody ==
  /\ page.at = "body" /\ page.chunks = <<>>
  /\ \/ page.body = "envelope" /\ Done("the server's")
     \/ page.body # "envelope" /\ Fallback
  /\ UNCHANGED <<clock, netVars>>

=============================================================================
