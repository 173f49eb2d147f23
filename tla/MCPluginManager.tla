--------------------------- MODULE MCPluginManager ---------------------------
(***************************************************************************)
(* PluginManager with two plugins, modelled on three of plugins/.  The     *)
(* first starts in a goroutine and disables itself if its tool is missing, *)
(* like trufflehog.lua; the second keeps a configuration, like scopes.lua, *)
(* or checks it in on_start, like ip_filter.lua.                           *)
(***************************************************************************)
EXTENDS PluginManager, TLC

CONSTANTS tool, other, request, entry, c1, c2

MCOrder  == <<tool, other>>
MCHookOf == request :> "on_request" @@ entry :> "on_history_entry"

ToolMode == [on_config |-> "none", on_start |-> "async", on_quit |-> "sync",
             on_request |-> "sync", on_response |-> "none",
             on_history_entry |-> "async"]

ScopesMode == [on_config |-> "sync", on_start |-> "none", on_quit |-> "none",
               on_request |-> "sync", on_response |-> "none",
               on_history_entry |-> "sync"]

FilterMode == [on_config |-> "sync", on_start |-> "async", on_quit |-> "none",
               on_request |-> "none", on_response |-> "none",
               on_history_entry |-> "none"]

MCModeScopes == tool :> ToolMode @@ other :> ScopesMode
MCModeFilter == tool :> ToolMode @@ other :> FilterMode
=============================================================================
