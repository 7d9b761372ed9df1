---------------------------- MODULE MCServerStart ----------------------------
(* Lists with a middleware of each kind, used and not, and one that is refused. *)
EXTENDS ServerStart

Middleware(name, can_sync, can_async, makes) ==
    [name |-> name, can_sync |-> can_sync, can_async |-> can_async, makes |-> makes]
both == Middleware("both", TRUE, TRUE, "instance")
other == Middleware("other", TRUE, TRUE, "instance")
sync == Middleware("sync", TRUE, FALSE, "instance")
async == Middleware("async", FALSE, TRUE, "instance")
unusedSync == Middleware("unusedSync", TRUE, FALSE, "unused")
unusedAsync == Middleware("unusedAsync", FALSE, TRUE, "unused")
neither == Middleware("neither", FALSE, FALSE, "instance")
none == Middleware("none", TRUE, TRUE, "None")

MCMiddlewares == {both, other, sync, async, unusedSync, unusedAsync, neither, none}
MCMiddlewareLists ==
    {<<both, sync, other, async>>, <<both, unusedSync, other>>, <<both, unusedAsync, sync>>,
     <<both, neither>>, <<none, both>>}
================================================================================
