----------------------------- MODULE MCEditPush -----------------------------
(* Small instances of EditPush: two pages, three stores.                      *)
EXTENDS EditPush

CONSTANTS p1, p2, s1, s2, s3, l1, l2, v1, v2, x1, x2

On(cs, ps, es) == [cells |-> cs, pages |-> ps, env |-> es]
Whole(s, f) == <<s, f, None>>
Price(s, x) == <<s, "price", x>>

Kinds == {
    On({Whole(s1, "tags"), Whole(s1, "category")}, {p1}, {"rival"}),
    On({Whole(s1, "collections"), Whole(s1, "title")}, {p1}, {"fail"}),
    On({Whole(s1, "collections")}, {p1}, {"rival"}),
    On({Price(s1, x1), Price(s1, x2)}, {p1}, {"rival"}),
    On({Whole(s1, "title"), Whole(s2, "title"), Whole(s3, "title")}, {p1}, {"fail"}),
    On({Whole(s1, "title"), Whole(s2, "title")}, {p1}, {"raise", "restart"}),
    On({Whole(s1, "title"), Whole(s2, "title")}, {p1, p2}, {"meddle"})}
=============================================================================
