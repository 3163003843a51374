------------------------------ MODULE BulkCli ------------------------------
(***************************************************************************)
(* Whole runs of the programs that submit transactions: bulk-cli ("cli"),  *)
(* bulk-sdk ("sdk") and a program that uses the library ("lib").  A user   *)
(* runs a command, reads the preview, answers the prompt, and runs the     *)
(* command again when it ended in an error.                                *)
(***************************************************************************)
EXTENDS MarketPlan, HttpClient, SolanaTransfer

CONSTANTS
  CommandLines, \* [program, name, args, key, domain, preview, yes]
  MaxRuns       \* bound on the runs

ASSUME BulkCliAssumption == MaxRuns \in Nat /\ \A c \in CommandLines : Cli(c)

VARIABLES
  stage,    \* of the program: "idle" between runs
  stored,   \* api_url in the config file: "absent", "reset", a url, or "broken"
  asked,    \* the actions the command asks for
  at,       \* wrap_admin_actions: position of the next action
  wrapped,  \* and what it has made so far: [multisig, at], with the positions of the actions
  pending,  \* the proposal being filled, or NoProposal
  nonce,    \* of submit_actions
  runs      \* history: [cmd, shown, said, told, report, outcome]

cliVars  == <<stage, stored, asked, at, wrapped, pending, nonce, runs>>
wrapVars == <<asked, at, wrapped, pending>>
vars     == <<cliVars, httpVars, solVars>>

NoProposal == [multisig |-> "none", at |-> <<>>]
Idle       == stage = "idle"
Current    == Len(runs)
Cmd        == runs[Current].cmd

NewRun(c, outcome) ==
  [cmd |-> c, shown |-> NoTx, said |-> "none", told |-> <<>>, report |-> <<>>, outcome |-> outcome]

Init ==
  /\ HttpInit /\ page \in {NoPage} \cup {[NoPage EXCEPT !.at = "asked", !.method = m] : m \in ReadMethods}
  /\ SolInit
  /\ stage = "idle" /\ stored = "absent"
  /\ asked = <<>> /\ at = 1 /\ wrapped = <<>> /\ pending = NoProposal
  /\ nonce = 0 /\ runs = <<>>

-----------------------------------------------------------------------------
(* Starting a command.                                                     *)

\* A first command, one after a change of the configuration, or the same one after an error.
MayRun(c) ==
  /\ Idle /\ Current < MaxRuns /\ page.at = "off"
  /\ \/ Current = 0
     \/ Current > 0 /\ Cmd.name \in {"set-api-url", "reset-api-url"}
     \/ Current > 0 /\ runs[Current].outcome = "error" /\ c = Cmd

AtOnce(c, outcome) ==
  /\ runs' = Append(runs, NewRun(c, outcome))
  /\ UNCHANGED <<stage, stored, nonce, wrapVars, httpVars, solVars>>

Begins(c, next) ==
  /\ runs' = Append(runs, NewRun(c, "running"))
  /\ stage' = next

\* CliConfig::load, before anything else.
LoadFails(c) ==
  MayRun(c) /\ c.program = "cli" /\ stored = "broken" /\ AtOnce(c, "broken config")

Loads(c) == MayRun(c) /\ c.program = "cli" /\ stored # "broken"

HandleLedgerInfo(c) ==
  Loads(c) /\ c.name = "ledger-info" /\ \E o \in {"listed", "error"} : AtOnce(c, o)

HandleConfig(c) ==
  /\ Loads(c) /\ c.name \in ConfigCommands
  /\ \/ c.name = "show" /\ AtOnce(c, "listed")
     \/ /\ c.name # "show" /\ Begins(c, "saving")
        /\ UNCHANGED <<stored, nonce, wrapVars, httpVars, solVars>>

\* CliConfig::save: the file is truncated before it is written.
Save ==
  /\ stage = "saving"
  /\ \/ /\ stored' = IF Cmd.name = "set-api-url" THEN Cmd.args.url ELSE "reset"
        /\ runs' = [runs EXCEPT ![Current].outcome = "saved"]
     \/ stored' = "broken" /\ runs' = [runs EXCEPT ![Current].outcome = "interrupted"]
  /\ stage' = "idle"
  /\ UNCHANGED <<nonce, wrapVars, httpVars, solVars>>

\* Neither a Ledger nor a missing or malformed key will do.
HandleOnChain(c) ==
  /\ Loads(c) /\ c.name \in OnChain
  /\ \/ c.key # "soft" /\ AtOnce(c, "refused")
     \/ c.key = "soft" /\ c.args.dry_run /\ AtOnce(c, "dry run")
     \/ /\ c.key = "soft" /\ ~c.args.dry_run
        /\ Begins(c, IF c.preview /\ ~c.yes THEN "prompt" ELSE "chain")
        /\ UNCHANGED <<stored, nonce, wrapVars, httpVars, solVars>>

\* The signer: --ledger may find no device; without it a private key is needed.
SignerFails(c) == c.key \in {"none", "ledger"}
SignerWorks(c) == c.key \in {"soft", "ledger"}

StartWrapping(c, actions) ==
  /\ Begins(c, "wrap")
  /\ asked' = actions /\ at' = 1 /\ wrapped' = <<>> /\ pending' = NoProposal
  /\ UNCHANGED <<stored, nonce, httpVars, solVars>>

HandleSigned(c) ==
  /\ Loads(c) /\ c.name \notin OnChain \cup ConfigCommands \cup {"ledger-info"}
  /\ \/ SignerFails(c) /\ AtOnce(c, "refused")
     \/ SignerWorks(c) /\ ~c.domain /\ AtOnce(c, "refused")
     \/ /\ SignerWorks(c) /\ c.domain
        /\ LET made == Dispatch(c, SignerKey) IN
           \/ ~made.ok /\ AtOnce(c, "refused")
           \/ made.ok /\ StartWrapping(c, made.actions)

\* bulk-sdk builds the actions first, and a dry run needs no signer.
HandleSdk(c) ==
  /\ MayRun(c) /\ c.program = "sdk"
  /\ LET made == SdkDispatch(c)
         dry  == c.name \in Markets /\ c.args.dry_run IN
     \/ ~made.ok /\ AtOnce(c, "refused")
     \/ made.ok /\ dry /\ AtOnce(c, "dry run")
     \/ made.ok /\ ~dry /\ (~c.domain \/ SignerFails(c)) /\ AtOnce(c, "refused")
     \/ /\ made.ok /\ ~dry /\ c.domain /\ SignerWorks(c)
        /\ Begins(c, "propose")
        /\ asked' = made.actions
        /\ UNCHANGED <<stored, nonce, at, wrapped, pending, httpVars, solVars>>

\* A method of BulkHttpClient; c.args.account and c.args.nonce may override the defaults.
HandleLibrary(c) ==
  /\ MayRun(c) /\ c.program = "lib"
  /\ \/ ~Configured(c.key, c.domain) /\ AtOnce(c, "refused")
     \/ /\ Configured(c.key, c.domain)
        /\ \/ c.key = "none" /\ NoSigner
           \/ /\ c.key # "none" /\ c.name = "place_tx"
              /\ PlaceTx(Current + 1, c.args.actions, c.args.account, c.args.nonce)
           \/ /\ c.key # "none" /\ c.name # "place_tx"
              /\ PlaceTx(Current + 1, <<SingleAction(c.name, c.args)>>, "none", -1)
        /\ Begins(c, "wait")
        /\ UNCHANGED <<stored, nonce, wrapVars, solVars>>

-----------------------------------------------------------------------------
(* wrap_admin_actions.                                                     *)

\* Mutant: a policy update goes out as it is.
MultisigOfUpdatesBare(a) ==
  CASE IsFeeAdmin(a.kind) -> "FEEADM1N" [] IsAdmin(a.kind) -> "ADM1N" [] OTHER -> "none"

MultisigOf(a) ==
  CASE a.kind = "UpdateMultisigPolicy" -> a.vals["multisig"]
    [] IsFeeAdmin(a.kind)              -> "FEEADM1N"
    [] IsAdmin(a.kind)                 -> "ADM1N"
    [] OTHER                           -> "none"

\* flush_admin_proposal
Flushed == IF pending = NoProposal THEN wrapped ELSE Append(wrapped, pending)

\* One turn of the loop.
WrapNext ==
  /\ stage = "wrap" /\ at <= Len(asked)
  /\ LET multisig == MultisigOf(asked[at]) IN
     \/ /\ multisig # "none" /\ pending # NoProposal /\ pending.multisig = multisig
        /\ pending' = [pending EXCEPT !.at = Append(@, at)]
        /\ UNCHANGED wrapped
     \/ /\ multisig # "none" /\ (pending = NoProposal \/ pending.multisig # multisig)
        /\ wrapped' = Flushed
        /\ pending' = [multisig |-> multisig, at |-> <<at>>]
     \/ /\ multisig = "none"
        /\ wrapped' = Append(Flushed, [multisig |-> "none", at |-> <<at>>])
        /\ pending' = NoProposal
  /\ at' = at + 1
  /\ UNCHANGED <<stage, stored, asked, nonce, runs, httpVars, solVars>>

WrapEnd ==
  /\ stage = "wrap" /\ at > Len(asked)
  /\ wrapped' = Flushed /\ pending' = NoProposal
  /\ stage' = "submit"
  /\ UNCHANGED <<stored, asked, at, nonce, runs, httpVars, solVars>>

TxActions(list) ==
  [i \in DOMAIN list |->
     IF list[i].multisig = "none" THEN asked[list[i].at[1]]
     ELSE [Built("MultisigPropose", [multisig |-> list[i].multisig],
                 [proposal_lifetime_secs |-> "none"])
           EXCEPT !.kids = [k \in DOMAIN list[i].at |-> asked[list[i].at[k]]]]]

-----------------------------------------------------------------------------
(* submit_actions, submit_action and run_solana_ix.                        *)

\* The nonce is taken, and the transaction shown if a preview is asked for.
Previews(list) ==
  /\ nonce' = MakeNonce
  /\ runs' = IF Cmd.preview
             THEN [runs EXCEPT ![Current].shown = [run |-> Current, account |-> SignerKey,
                                                   nonce |-> MakeNonce, actions |-> TxActions(list)]]
             ELSE runs
  /\ stage' = IF Cmd.preview /\ ~Cmd.yes THEN "prompt" ELSE "post"

Submit ==
  /\ stage = "submit"
  /\ Previews(wrapped)
  /\ UNCHANGED <<stored, wrapVars, httpVars, solVars>>

\* bulk-sdk proposes everything to the admin multisig.
SubmitAction ==
  /\ stage = "propose"
  /\ wrapped' = <<[multisig |-> "ADM1N", at |-> [i \in DOMAIN asked |-> i]]>>
  /\ Previews(wrapped')
  /\ UNCHANGED <<stored, asked, at, pending, httpVars, solVars>>

\* The user's line: only y and yes go on.
Answer ==
  /\ stage = "prompt"
  /\ \E said \in {"yes", "no", "other"} :
       \/ /\ said = "yes"
          /\ runs' = [runs EXCEPT ![Current].said = said]
          /\ stage' = IF Cmd.name \in OnChain THEN "chain" ELSE "post"
       \/ /\ said # "yes"
          /\ runs' = [runs EXCEPT ![Current].said = said, ![Current].outcome = "declined"]
          /\ stage' = "idle"
  /\ UNCHANGED <<stored, nonce, wrapVars, httpVars, solVars>>

Post ==
  /\ stage = "post"
  /\ PlaceTx(Current, TxActions(wrapped), "none", nonce)
  /\ stage' = "wait"
  /\ UNCHANGED <<stored, nonce, runs, wrapVars, solVars>>

Outcomes == {"proposalFailed", "proposalExecuted", "proposalReadyForExecution", "proposalRejected"}

\* The first and the last of the results with such a status, if there is one.
Among(results, statuses) == {i \in DOMAIN results : results[i] \in statuses}

FirstOf(results, statuses) ==
  IF Among(results, statuses) = {} THEN <<>> ELSE <<results[Min(Among(results, statuses))]>>

LastOf(results, statuses) ==
  IF Among(results, statuses) = {} THEN <<>> ELSE <<results[Max(Among(results, statuses))]>>

\* Mutant: the first outcome instead of the last.
FormatApprovalFirst(results) ==
  FirstOf(results, {"proposalApproved"}) \o FirstOf(results, Outcomes)

\* format_approval_result, of the approval and the last outcome.
FormatApproval(results) ==
  FirstOf(results, {"proposalApproved"}) \o LastOf(results, Outcomes)

\* format_results: a created proposal; or the approval and the outcome of one; or all.
FormatResults(results) ==
  CASE "proposalCreated" \in Range(results) -> <<"proposalCreated">>
    [] "proposalCreated" \notin Range(results) /\ FormatApproval(results) # <<>> ->
         FormatApproval(results)
    [] OTHER -> results

\* What the caller makes of the result: the programs print the statuses, a method for a
\* single action returns the first and panics when there is none.
Report ==
  /\ stage = "wait" /\ phase = "ended"
  /\ LET single == Cmd.program = "lib" /\ Cmd.name # "place_tx" IN
     runs' = [runs EXCEPT
       ![Current].told    = result.statuses,
       ![Current].report  = IF Cmd.program = "lib" THEN result.statuses
                            ELSE FormatResults(result.statuses),
       ![Current].outcome = CASE result.kind = "error" -> "error"
                              [] result.kind # "error" /\ single /\ result.statuses = <<>> -> "panic"
                              [] OTHER -> "reported"]
  /\ stage' = "idle"
  /\ Finish
  /\ UNCHANGED <<stored, nonce, wrapVars, solVars>>

Instruction == IF Cmd.name = "deposit" THEN Deposit(Cmd.args) ELSE RequestWithdraw(Cmd.args)

StartTransfer ==
  stage = "chain" /\ rpc.at = "off" /\ Begin /\ UNCHANGED <<cliVars, httpVars>>

Transfer ==
  /\ stage = "chain"
  /\ LatestBlockhash \/ SendTransaction(Current, Instruction) \/ ConfirmSignature
  /\ UNCHANGED <<cliVars, httpVars>>

\* The signature is printed, or the error.
PrintSignature ==
  /\ stage = "chain" /\ rpc.at = "done"
  /\ runs' = [runs EXCEPT ![Current].outcome = rpc.out]
  /\ rpc' = NoRpc /\ stage' = "idle"
  /\ UNCHANGED <<stored, nonce, wrapVars, transfers, httpVars>>

-----------------------------------------------------------------------------
Invoke(c) ==
  \/ LoadFails(c) \/ HandleLedgerInfo(c) \/ HandleConfig(c) \/ HandleOnChain(c)
  \/ HandleSigned(c) \/ HandleSdk(c) \/ HandleLibrary(c)

Program == Save \/ WrapNext \/ WrapEnd \/ Submit \/ SubmitAction \/ Post \/ Report \/ StartTransfer \/ Transfer
             \/ PrintSignature

Network == (Execute \/ Lose \/ Receive \/ Timeout) /\ UNCHANGED <<cliVars, solVars>>

Read ==
  /\ \/ GetMarketData \/ GetAccount \/ GetOpenOrders
     \/ GetHistoryPage \/ ReadErrorBody \/ DecodeErrorBody
  /\ UNCHANGED <<cliVars, solVars>>

\* Between two commands, and while a preview waits for its answer.
TimePasses ==
  /\ \/ stage \in {"prompt", "post"}
     \/ Idle /\ Current < MaxRuns /\ page.at = "off"
  /\ ClockMoves /\ UNCHANGED <<cliVars, solVars>>

Next ==
  \/ \E c \in CommandLines : Invoke(c)
  \/ Program
  \/ Answer
  \/ Network
  \/ Settle /\ UNCHANGED <<cliVars, httpVars>>
  \/ Read
  \/ TimePasses

\* The program runs, and the client's timer fires.
Fairness ==
  /\ WF_vars(WrapNext) /\ WF_vars(WrapEnd) /\ WF_vars(Submit) /\ WF_vars(SubmitAction)
  /\ WF_vars(Post) /\ WF_vars(Report)
  /\ WF_vars(Timeout /\ UNCHANGED <<cliVars, solVars>>)

Spec == Init /\ [][Next]_vars /\ Fairness

-----------------------------------------------------------------------------
(* Properties.                                                             *)

\* What the exchange executes for a command is, to the nonce, what the preview showed, and
\* the user said yes to it or waived the question; the same for a transfer.  Nothing comes of
\* a run that was refused, declined or dry.
Agreed(r) ==
  /\ r.outcome \notin {"refused", "declined", "dry run"}
  /\ r.cmd.preview /\ ~r.cmd.yes => r.said = "yes"

ExecutedWasConfirmed ==
  /\ \A i \in DOMAIN executed :
       LET r == runs[executed[i].run] IN
       r.cmd.program # "lib" => Agreed(r) /\ (r.cmd.preview => executed[i] = r.shown)
  /\ \A i \in DOMAIN transfers : Agreed(runs[transfers[i].run])

\* However requests and answers are lost or late, one run of a command has its transaction
\* executed at most once, and makes at most one transfer.
OncePerRun ==
  /\ \A i, j \in DOMAIN executed : i # j => executed[i].run # executed[j].run
  /\ \A i, j \in DOMAIN transfers : i # j => transfers[i].run # transfers[j].run

\* The positions in `list` are 1..n, in order, nothing twice and nothing left out.
InOrder(list, n) ==
  /\ \A k \in DOMAIN list :
       /\ list[k].at # <<>>
       /\ \A j \in 1..(Len(list[k].at) - 1) : list[k].at[j + 1] = list[k].at[j] + 1
  /\ \A k \in 1..(Len(list) - 1) : list[k + 1].at[1] = Last(list[k].at) + 1
  /\ IF list = <<>> THEN n = 0 ELSE list[1].at[1] = 1 /\ Last(Last(list).at) = n

\* The multisig that has to pass an action, or "none".
BelongsTo(a, multisig) ==
  /\ a.kind = "UpdateMultisigPolicy" => multisig = a.vals["multisig"]
  /\ IsAdmin(a.kind) => multisig = "ADM1N"
  /\ IsFeeAdmin(a.kind) => multisig = "FEEADM1N"
  /\ multisig # "none" =>
       a.kind = "UpdateMultisigPolicy" \/ IsAdmin(a.kind) \/ IsFeeAdmin(a.kind)

\* What has no multisig goes alone, the rest is proposed to the multisig it belongs to, and
\* two neighbouring proposals to the same one would have been one.
WellWrapped(list) ==
  /\ \A k \in DOMAIN list : \A j \in DOMAIN list[k].at :
       BelongsTo(asked[list[k].at[j]], list[k].multisig)
  /\ \A k \in DOMAIN list : list[k].multisig = "none" => Len(list[k].at) = 1
  /\ \A k \in 1..(Len(list) - 1) :
       list[k].multisig # "none" => list[k + 1].multisig # list[k].multisig

\* wrap_admin_actions loses, repeats and reorders nothing, and sends no action that needs an
\* admin multisig past it or to the other one; and bulk-sdk, which proposes all it builds to
\* one multisig, builds nothing that belongs elsewhere.
AdminThroughMultisig ==
  stage \in {"submit", "post"} => InOrder(wrapped, Len(asked)) /\ WellWrapped(wrapped)

\* A market that is added has been configured by then, and comes up suspended: the three are
\* one proposal, so that it never trades with half of its models.
MarketConfiguration ==
  {"ConfigVolatility", "ConfigFairPrice", "ConfigRegime", "ConfigRisk", "ConfigFunding"}

MarketComesUpSuspended ==
  stage \in {"submit", "post"} =>
    \A p \in DOMAIN asked : asked[p].kind = "AddMarket" =>
      /\ \E q \in DOMAIN asked, k \in DOMAIN wrapped :
           /\ q > p /\ asked[q] = Suspended(asked[p].vals["symbol"])
           /\ {p, q} \subseteq Range(wrapped[k].at)
      /\ Cmd.program = "sdk" =>
           \A kind \in MarketConfiguration : \E q \in DOMAIN asked : q < p /\ asked[q].kind = kind

\* A result is reported only of what the exchange has executed, and the outcome of a proposal
\* that is printed is the last one it told; a signature is printed only of what the chain has
\* confirmed.
ReportIsTrue ==
  \A k \in DOMAIN runs :
    /\ runs[k].outcome \in {"reported", "panic"} => \E i \in DOMAIN executed : executed[i].run = k
    /\ Outcomes \cap Range(runs[k].report) # {} =>
         \A i \in DOMAIN runs[k].told :
           runs[k].told[i] \in Outcomes \ Range(runs[k].report) =>
             \E j \in DOMAIN runs[k].told : j > i /\ runs[k].told[j] \in Range(runs[k].report)
    /\ runs[k].outcome = "signature" =>
         \E i \in DOMAIN transfers : transfers[i].run = k /\ transfers[i].fate = "confirmed"

\* The server's own error of a history request is given only when all of its body was read, in
\* the order it was sent, and within the limit.
HistoryErrorIsTheServers ==
  page.out = "the server's" => page.kept = page.sent /\ page.size <= MaxErrorBody

\* A command that was confirmed ends, whatever the network does.
CommandEnds == stage \in {"wrap", "submit", "propose", "post", "wait"} ~> stage \in {"idle", "prompt"}

\* The account and the nonce a caller gives are those of the transaction
\* (docs/rust-http-api.md: "Every method accepts two optional trailing parameters").
OverrideReachesTx ==
  \A i \in DOMAIN executed :
    LET c == runs[executed[i].run].cmd IN
    c.program = "lib" =>
      /\ c.args.account # "none" => executed[i].account = c.args.account
      /\ c.args.nonce # -1 => executed[i].nonce = c.args.nonce

=============================================================================
