------------------------- MODULE MCInterfaceScheduler -------------------------
(* Values of May for the model-checking runs of InterfaceScheduler. *)
EXTENDS InterfaceScheduler, TLC

CONSTANTS c1, c2

\* Clients run the same code (safety runs only).
InterchangeableClients == Permutations(Clients)

Code(client, watcher, service) ==
  [code \in {"client", "watcher", "service"} |->
     CASE code = "client" -> client [] code = "watcher" -> watcher [] OTHER -> service]

\* In MayInvoke watchers register and subscribe.  In MayAll they do anything that
\* cannot unregister their own service: they make no synchronous call, whose
\* action runs on their thread and may.
MayInvoke == Code(Ops \ {"isRegistered", "blockingCall"}, {"register", "subscribe", "isRegistered"}, {"asyncCall"})
MayAll == Code(Ops, Ops \ {"unregister", "syncCall"}, {"unregister", "isRegistered", "blockingCall"})
MayQuery == Code({"register", "unregister", "asyncCall"}, {}, {"isRegistered"})
=============================================================================
