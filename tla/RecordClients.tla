---------------------------- MODULE RecordClients ----------------------------
(* Telegram and Discord side by side, each with the one record that is its    *)
(* state: what MCClients checks and RecordClientsProofs proves about.         *)
EXTENDS Integers

CONSTANTS MaxCalls, MaxTicks, Wait, Slots,                 \* TelegramClient
          Messages, StoreCap, PageSize, Targets, DlSlots, MaxOps,  \* DiscordClient
          None

VARIABLES tg, tgMoves, ds, dsOps
tgcVars == <<tg, tgMoves>>
dscVars == <<ds, dsOps>>

T == INSTANCE TelegramClient WITH t <- tg, moves <- tgMoves
D == INSTANCE DiscordClient WITH d <- ds, ops <- dsOps
ASSUME RecordClientsAssumption == T!TgcAssumption /\ D!DscAssumption
=============================================================================
