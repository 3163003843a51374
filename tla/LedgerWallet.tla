---------------------------- MODULE LedgerWallet ----------------------------
(***************************************************************************)
(* Finding a Ledger on the bus.  The bus is the list of HID interfaces in  *)
(* the order hidapi enumerates them: [base, key, strict, answer] with the  *)
(* base key of the device, the key it derives for the path in use, whether *)
(* its product id is a known one, and what it answers when it is opened:   *)
(* "ready", "held" (cannot be opened), "silent" (opened but not read) or   *)
(* "locked" (read, but derives no key).                                    *)
(***************************************************************************)
EXTENDS Integers, Sequences, FiniteSets, SequencesExt

Answers == {"ready", "held", "silent", "locked"}

\* Mutant: once a known product id has been met, nothing else counts.
SupportedOnce(bus, i) == ~\E j \in 1..i-1 : bus[j].strict

\* is_supported_device: an interface known only by the vendor counts while no device with
\* a known product id has been met.
Supported(bus, i) == bus[i].strict \/ ~\E j \in 1..i-1 : bus[j].strict

Candidates(bus) == {i \in DOMAIN bus : Supported(bus, i)}

Usable(bus) == {i \in Candidates(bus) : bus[i].answer = "ready"}

First(S) == CHOOSE i \in S : \A j \in S : i <= j

Nobody == [key |-> "none", reason |-> "none"]

\* Mutant: without a match, the first usable interface will do.
ResolveAnyway(bus, target) ==
  IF Usable(bus) # {} THEN [Nobody EXCEPT !.key = bus[First(Usable(bus))].key]
  ELSE [Nobody EXCEPT !.reason = "unusable"]

\* resolve_wallet_once: the first usable interface whose derived or base key the locator
\* names, or the first usable one when it names none; otherwise the reason.
ResolveOnce(bus, target) ==
  LET matching == {i \in Usable(bus) : target \in {"any", bus[i].key, bus[i].base}}
  IN  IF matching # {} THEN [Nobody EXCEPT !.key = bus[First(matching)].key]
      ELSE [Nobody EXCEPT !.reason =
              IF Candidates(bus) = {} THEN "no interface"
              ELSE IF Candidates(bus) = Usable(bus) THEN "no match" ELSE "unusable"]

\* ledger_discovery_error_context: what the user is told to do, by the first text that
\* the error contains.
Advice(bus, reason) ==
  LET met == {bus[i].answer : i \in Candidates(bus)}
  IN  CASE reason = "unusable" /\ "held" \in met -> "close other wallet apps"
        [] reason = "unusable" /\ "held" \notin met -> "unlock and open the Solana app"
        [] reason = "no match" -> "verify the device and derivation path"
        [] OTHER -> "reconnect and unlock"

\* enumerate_devices: what list_devices shows; a locked device still reports its base key.
Listed(bus) == {i \in Candidates(bus) : bus[i].answer \in {"ready", "locked"}}
=============================================================================
