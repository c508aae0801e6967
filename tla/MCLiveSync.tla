----------------------------- MODULE MCLiveSync -----------------------------
(* Small instances of LiveSync: one or two products.                         *)
EXTENDS LiveSync

CONSTANTS p1, p2, t1, t2, c1, r1, r2

About(hs, fs, es) == [handles |-> hs, fields |-> fs, env |-> es]

Several == {
    About({p1}, {"tags"}, {"restart"}),
    About({p1}, {"collections"}, {"restart"}),
    About({p1}, {"value", "variants"}, {}),
    About({p1}, {"products", "tags"}, {}),
    About({p1, p2}, {"products", "collections"}, {}),
    About({p1, p2}, {"collections"}, {}),
    About({p1, p2}, {"collections"}, {"edit"}),
    About({p1}, {"tags"}, {"edit", "refuse"}),
    About({p1}, {"products"}, {"edit", "refuse"}),
    About({p1}, {"value"}, {"long", "overlap"}),
    About({p1}, {"collections"}, {"window", "refuse"})}
=============================================================================
