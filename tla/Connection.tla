----------------------------- MODULE Connection -----------------------------
(***************************************************************************)
(* The connection of the process to rippled, as remote.js sets it up and   *)
(* server-lib.js asks about it.  ripple-lib connects again by itself after *)
(* a loss, but not after remote.disconnect().                              *)
(***************************************************************************)
CONSTANT StandAlone     \* whether rippled runs in stand-alone mode

ASSUME ConnectionAssumption == StandAlone \in BOOLEAN

VARIABLES
    link,   \* up, down (ripple-lib tries), closing (disconnecting), off
    index,  \* remote._ledger_current_index is known
    fresh   \* a ledger was closed in the last CONNECTION_TIMEOUT

connection == <<link, index, fresh>>

Links == {"up", "down", "closing", "off"}

ConnectionTypeOK ==
    /\ link \in Links
    /\ index \in BOOLEAN
    /\ fresh \in BOOLEAN

\* createRemote calls remote.connect().
ConnectionInit == link = "down" /\ index = FALSE /\ fresh = FALSE

-----------------------------------------------------------------------------
\* remote.getServer() finds a connected server.
HasServer == link = "up"

\* isConnected
IsConnected == index /\ HasServer /\ (StandAlone \/ fresh)

\* The link after remote.disconnect(): when there is no connection its
\* callback, which calls remote.connect(), runs at once.
Disconnected == IF link = "up" THEN "closing" ELSE link

Connect == link = "down" /\ link' = "up" /\ UNCHANGED <<index, fresh>>

\* The connection is lost, or SIGHUP reconnects.
Lose == link = "up" /\ link' = "down" /\ UNCHANGED <<index, fresh>>

\* The 'disconnect' event that nobody follows with a connect().
Close_Forgotten == link = "closing" /\ link' = "off" /\ UNCHANGED <<index, fresh>>

\* The 'disconnect' event, whose listener is the callback of reconnectRippled.
Close == link = "closing" /\ link' = "down" /\ UNCHANGED <<index, fresh>>

LedgerClosed ==
    /\ link = "up"
    /\ index' = TRUE /\ fresh' = TRUE
    /\ UNCHANGED link

\* CONNECTION_TIMEOUT passes without a ledger.
Silence == fresh /\ fresh' = FALSE /\ UNCHANGED <<link, index>>
=============================================================================
