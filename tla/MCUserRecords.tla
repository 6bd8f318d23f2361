---------------------------- MODULE MCUserRecords ----------------------------
(***************************************************************************)
(* The safety of what the services keep for one user, for TLC: the bot's    *)
(* desk, the positions, the account's balance, an order on its way, and what *)
(* the session key sends.  They meet in the database only where their       *)
(* modules say, so a behaviour plays one of them, its scene, and the others *)
(* rest in an initial state.  The properties are those of the modules.      *)
(***************************************************************************)
EXTENDS OrderEntry, SessionKey, AccountLedger, Holdings, TelegramDesk, TLC

CONSTANTS
  x1, x2,      \* interchangeable: requests, threads, sends
  t1, t2, t3   \* transactions

VARIABLE scene

entry == vars
mcvars == <<scene, entry, bot, holdings, ledger, session>>

-----------------------------------------------------------------------------
(* The instances.                                                            *)
MCThreads == {x1, x2}
MCTxs == {t1, t2, t3}
MCDepths == {0, 2, 16}
MCAllowances == {0, 2}
MCNeeds == {{}, {"setOperator", "pokeOracle", "finalizeMarket"}}
MCUpdates == 1..1

(* A button to buy, a text with two orders in it, a button to follow and     *)
(* copy, and a command.                                                      *)
Says(kind, word, says, amount) ==
  [kind |-> kind, word |-> word, says |-> says, amount |-> amount]
MCMessages == {Says("button", "by", {}, 5), Says("text", "", {"pause", "resume"}, 0),
               Says("button", "cp", {}, 0), Says("command", "/claim", {}, 0)}

-----------------------------------------------------------------------------
EntryRests == Init /\ allowance = Unlimited
BotRests == /\ said = [u \in Updates |-> Says("button", "by", {}, 5)]
            /\ linked = TRUE /\ status = "RUNNING" /\ DeskInit
HoldingsRest == HoldingsInit
LedgerRests == LedgerInit
SessionRests == SessionInit /\ grant = [delegate |-> "old key", methods |-> Methods]

MCInit ==
  \/ /\ scene = "entry" /\ Init
     /\ BotRests /\ HoldingsRest /\ LedgerRests /\ SessionRests
  \/ /\ scene = "bot" /\ DeskInit
     /\ EntryRests /\ HoldingsRest /\ LedgerRests /\ SessionRests
  \/ /\ scene = "positions" /\ HoldingsInit
     /\ EntryRests /\ BotRests /\ LedgerRests /\ SessionRests
  \/ /\ scene = "ledger" /\ LedgerInit
     /\ EntryRests /\ BotRests /\ HoldingsRest /\ SessionRests
  \/ /\ scene = "session" /\ SessionInit
     /\ EntryRests /\ BotRests /\ HoldingsRest /\ LedgerRests

EntryStep ==
  /\ scene = "entry" /\ Next
  /\ UNCHANGED <<scene, bot, holdings, ledger, session>>
BotStep ==
  /\ scene = "bot" /\ DeskNext
  /\ UNCHANGED <<scene, entry, holdings, ledger, session>>
PositionsStep ==
  /\ scene = "positions" /\ HoldingsNext
  /\ UNCHANGED <<scene, entry, bot, ledger, session>>
LedgerStep ==
  /\ scene = "ledger" /\ LedgerNext
  /\ UNCHANGED <<scene, entry, bot, holdings, session>>
SessionStep ==
  /\ scene = "session" /\ SessionNext
  /\ UNCHANGED <<scene, entry, bot, holdings, ledger>>

MCNext ==
  \/ EntryStep \/ BotStep \/ PositionsStep \/ LedgerStep \/ SessionStep

MCSpec == MCInit /\ [][MCNext]_mcvars

Symmetry == Permutations({x1, x2})

-----------------------------------------------------------------------------
(* Every component's variables stay what its module says they are.           *)
UserTypeOK ==
  TypeOK /\ DeskTypeOK /\ HoldingsTypeOK /\ LedgerTypeOK /\ SessionTypeOK
==============================================================================
