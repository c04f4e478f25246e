------------------------ MODULE MCPlatformLifecycle ------------------------
(* PlatformLifecycle on a small instance. *)
EXTENDS PlatformLifecycle
====
