--------------------------- MODULE SolanaTransfer ---------------------------
(***************************************************************************)
(* Deposits and withdraw intents on Solana: the instruction, and the three *)
(* RPC calls that send it and wait until it is confirmed, over a network   *)
(* where any call may fail whether or not it took effect.                  *)
(***************************************************************************)
EXTENDS Integers, Sequences

CONSTANT MaxPolls    \* of getSignatureStatuses; 60 in the code

ASSUME SolanaAssumption == MaxPolls \in Nat \ {0}

VARIABLES
  rpc,        \* [at, polls, out] of the current command
  transfers   \* what the network took: [run, instruction, fate]

solVars == <<rpc, transfers>>

NoRpc == [at |-> "off", polls |-> 0, out |-> "none"]

\* The vault and its token account are derived from the program and the mint.
Vault(args)        == <<"vault", args.program_id, args.mint>>
VaultAccount(args) == <<"vault_ata", args.program_id, args.mint>>

UserAccount(args) ==
  IF args.user_token_account = "none" THEN <<"ata", "payer", args.mint>>
  ELSE <<"given", args.user_token_account, args.mint>>

\* deposit: opcode 2 moves the amount from the user's account into the vault's.
Deposit(args) ==
  [opcode |-> 2, amount |-> args.amount, vault |-> Vault(args),
   user |-> UserAccount(args), vault_account |-> VaultAccount(args),
   writable |-> {"payer", "user_token_account", "vault_token_account"}]

\* request_withdraw: opcode 4 writes to nobody's tokens.
RequestWithdraw(args) ==
  [opcode |-> 4, amount |-> args.amount, vault |-> Vault(args),
   user |-> UserAccount(args), vault_account |-> VaultAccount(args),
   writable |-> {"payer"}]

SolInit == rpc = NoRpc /\ transfers = <<>>

Begin == rpc' = [NoRpc EXCEPT !.at = "blockhash"] /\ UNCHANGED transfers

Failed == rpc' = [rpc EXCEPT !.at = "done", !.out = "error"]

\* latest_blockhash
LatestBlockhash ==
  /\ rpc.at = "blockhash"
  /\ rpc' = [rpc EXCEPT !.at = "send"] \/ Failed
  /\ UNCHANGED transfers

\* send_and_confirm, sendTransaction: refused by the preflight or lost on the way, taken and
\* the signature returned, or taken and the answer lost.
SendTransaction(run, instruction) ==
  /\ rpc.at = "send"
  /\ \/ Failed /\ UNCHANGED transfers
     \/ /\ transfers' = Append(transfers, [run |-> run, instruction |-> instruction,
                                           fate |-> "pending"])
        /\ rpc' = [rpc EXCEPT !.at = "poll"] \/ Failed

\* The network confirms a transaction, fails it, or lets its blockhash expire.
Settle ==
  \E i \in DOMAIN transfers :
    /\ transfers[i].fate = "pending"
    /\ \E fate \in {"confirmed", "failed", "expired"} :
         transfers' = [transfers EXCEPT ![i].fate = fate]
    /\ UNCHANGED rpc

\* confirm_signature, one poll: an error of the call or of the transaction ends it, so does
\* the last poll; a node may not have seen yet what the network confirmed.
ConfirmSignature ==
  /\ rpc.at = "poll"
  /\ LET fate == transfers[Len(transfers)].fate IN
     \/ fate = "confirmed" /\ rpc' = [rpc EXCEPT !.at = "done", !.out = "signature"]
     \/ rpc.polls + 1 < MaxPolls /\ rpc' = [rpc EXCEPT !.polls = @ + 1]
     \/ rpc.polls + 1 = MaxPolls /\ Failed
     \/ Failed
  /\ UNCHANGED transfers

=============================================================================
