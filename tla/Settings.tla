------------------------------ MODULE Settings ------------------------------
(***************************************************************************)
(* The settings (config.py) and the endpoints that manage the source sites *)
(* in them (routes.py).  All endpoints are plain functions in threads of   *)
(* their own and share one tree of lists and dictionaries: they take the   *)
(* list of sites, look at it, change it or its dictionaries in place, or   *)
(* replace it, put a list back under "source_sites" and save the whole     *)
(* tree: settings.yaml is opened, which empties it, yaml.dump represents   *)
(* the tree, and the text of that reaches the file when it is closed.      *)
(*                                                                         *)
(* A request is cut where another thread can make a difference: after it   *)
(* has looked at the list, after it has changed it in place, after it has  *)
(* put a list back, after it has opened the file, and between representing *)
(* the tree and writing the text.  That the tree is represented site by    *)
(* site, and that a text too long for the buffers is written in parts, is  *)
(* left out.                                                               *)
(***************************************************************************)
EXTENDS Naturals, Sequences, FiniteSets, SequencesExt, Selection

CONSTANTS
    SiteDomains,
    Wants,         \* what is asked: [op, domain, on]
    SettingReqs,   \* requests that may overlap
    Yaml,          \* settings.yaml at the start: a sequence of Site
    MaxDicts,      \* bound: dictionaries (sites ever added or loaded)
    MaxLists       \* bound: list objects (removals)

Site == [domain : SiteDomains, dest : BOOLEAN, set : BOOLEAN]   \* set: has credentials

ASSUME SettingsAssumption ==
    /\ MaxDicts \in Nat /\ MaxLists \in Nat \ {0} /\ IsFiniteSet(SettingReqs)
    /\ Yaml \in Seq(Site) /\ Len(Yaml) <= MaxDicts
    /\ Wants \subseteq [op : {"add", "remove", "credentials", "destination"},
                        domain : SiteDomains, on : BOOLEAN]

NoWant == [op |-> "none", domain |-> "none", on |-> FALSE]
Quiet == [at |-> "idle", want |-> NoWant, list |-> 0, new |-> <<>>, text |-> <<>>]

Saving == [Quiet EXCEPT !.at = "save"]

\* The file as one text makes it.
Text(sites) == [state |-> "written", sites |-> sites, rest |-> <<>>]
Empty == [state |-> "empty", sites |-> <<>>, rest |-> <<>>]

VARIABLES
    dicts,     \* dicts[i]: the site that dictionary i describes
    lists,     \* lists[k]: a list object: a sequence of dictionaries
    current,   \* the list under "source_sites"
    yaml,      \* [state, sites, rest]: the file: "written", "empty" from its
               \* opening on, "mixed" when a text was written over a longer
               \* one, whose sites are the rest
    sreq,      \* sreq[r]: where a request is, with the text it will write
    met,       \* history: has a removal overlapped another request?
    crossed    \* history: did saves overlap that the file is the work of?

settingVars == <<dicts, lists, current, yaml, sreq, met, crossed>>

Listed(k) == [i \in 1..Len(lists[k]) |-> dicts[lists[k][i]]]
DomainsOf(k) == {dicts[i].domain : i \in ToSet(lists[k])}
Destinations(k) == {i \in ToSet(lists[k]) : dicts[i].dest}

SettingsInit ==
    /\ dicts = Yaml
    /\ lists = <<[i \in 1..Len(Yaml) |-> i]>>
    /\ current = 1
    /\ yaml = Text(Yaml)
    /\ sreq = [r \in SettingReqs |-> Quiet]
    /\ met = FALSE
    /\ crossed = FALSE

-----------------------------------------------------------------------------
(* Looking at the list: config.get and the checks *)

\* Requests that have looked and not yet put a list back meet a removal.
Meets(r, w) ==
    \E q \in SettingReqs \ {r} :
        sreq[q].at \in {"decided", "put"} /\ "remove" \in {w.op, sreq[q].want.op}

Decide(r, w, new) ==
    /\ sreq[r] = Quiet
    /\ sreq' = [sreq EXCEPT ![r] = [Quiet EXCEPT !.at = "decided", !.want = w,
                                               !.list = current, !.new = new]]
    /\ met' = (met \/ Meets(r, w))
    /\ UNCHANGED <<dicts, lists, current, yaml, crossed>>

\* For the bounds: requests that are going to add, or to remove, a site.
Undone(op) == Cardinality({q \in SettingReqs : sreq[q].want.op = op})

AddSourceSite(r, w) ==
    /\ w.op = "add"
    /\ w.domain \notin DomainsOf(current)          \* or 409
    /\ Len(dicts) + Undone("add") < MaxDicts
    /\ Decide(r, w, <<>>)

\* The new list is built from the old one.
RemoveSourceSite(r, w) ==
    /\ w.op = "remove"
    /\ w.domain \in DomainsOf(current)             \* or 404
    /\ Len(lists) + Undone("remove") < MaxLists
    /\ Decide(r, w, Only(lists[current], {i \in DOMAIN dicts : dicts[i].domain # w.domain}))

SaveSiteCredentials(r, w) ==
    /\ w.op = "credentials"
    /\ w.domain \in DomainsOf(current)             \* or 404
    /\ Decide(r, w, <<>>)

\* At most two destinations beside this one are too many.
SetDestination(r, w) ==
    /\ w.op = "destination"
    /\ w.domain \in DomainsOf(current)             \* or 404
    /\ w.on => Cardinality({i \in Destinations(current) : dicts[i].domain # w.domain}) < 2
    /\ Decide(r, w, <<>>)

-----------------------------------------------------------------------------
(* Acting on it *)

\* The first dictionary of list k with the domain d.
FirstIn(k, d) == lists[k][SelectInSeq(lists[k], LAMBDA i : dicts[i].domain = d)]

\* The list that was looked at is appended to, or the first of its
\* dictionaries with the domain is changed.
Edit(q) ==
    LET d == q.want.domain IN
    \/ /\ q.want.op = "add"
       /\ dicts' = Append(dicts, [domain |-> d, dest |-> q.want.on, set |-> FALSE])
       /\ lists' = [lists EXCEPT ![q.list] = Append(@, Len(dicts) + 1)]
    \/ /\ q.want.op = "credentials"
       /\ dicts' = [dicts EXCEPT ![FirstIn(q.list, d)].set = q.want.on]
       /\ UNCHANGED lists
    \/ /\ q.want.op = "destination"
       /\ dicts' = [dicts EXCEPT ![FirstIn(q.list, d)].dest = q.want.on]
       /\ UNCHANGED lists

Act(r) ==
    /\ sreq[r].at = "decided"
    /\ Edit(sreq[r])
    /\ sreq' = [sreq EXCEPT ![r] = [Quiet EXCEPT !.at = "put", !.list = sreq[r].list]]
    /\ UNCHANGED <<current, yaml, met, crossed>>

\* Mutant of PutBack: the list is put back and not saved.
PutBackUnsaved(r) ==
    /\ sreq[r].at = "put"
    /\ current' = sreq[r].list
    /\ sreq' = [sreq EXCEPT ![r] = Quiet]
    /\ UNCHANGED <<dicts, lists, yaml, met, crossed>>

\* That list is put under "source_sites" again ...
PutBack(r) ==
    /\ sreq[r].at = "put"
    /\ current' = sreq[r].list
    /\ sreq' = [sreq EXCEPT ![r] = Saving]
    /\ UNCHANGED <<dicts, lists, yaml, met, crossed>>

\* ... a removal puts its own list there.
Replace(r) ==
    /\ sreq[r].at = "decided"
    /\ sreq[r].want.op = "remove"
    /\ lists' = Append(lists, sreq[r].new)
    /\ current' = Len(lists) + 1
    /\ sreq' = [sreq EXCEPT ![r] = Saving]
    /\ UNCHANGED <<dicts, yaml, met, crossed>>

-----------------------------------------------------------------------------
(* Saving: Config._save *)

\* The file is opened, which empties it.
OpenYaml(r) ==
    /\ sreq[r].at = "save"
    /\ yaml' = Empty
    /\ sreq' = [sreq EXCEPT ![r].at = "open"]
    /\ crossed' = \E q \in SettingReqs \ {r} : sreq[q].at \in {"open", "dumped"}
    /\ UNCHANGED <<dicts, lists, current, met>>

\* yaml.dump represents the tree as it is now.
DumpYaml(r) ==
    /\ sreq[r].at = "open"
    /\ sreq' = [sreq EXCEPT ![r] = [Quiet EXCEPT !.at = "dumped", !.text = Listed(current)]]
    /\ UNCHANGED <<dicts, lists, current, yaml, met, crossed>>

\* The text reaches the file, from its beginning.  What another request has
\* written since the file was opened lies under it and, if longer, sticks out.
CloseYaml(r) ==
    /\ sreq[r].at = "dumped"
    /\ \/ yaml' = Text(sreq[r].text)
       \/ /\ yaml.state # "empty"
          /\ yaml' = [state |-> "mixed", sites |-> sreq[r].text,
                      rest |-> yaml.sites \o yaml.rest]
    /\ sreq' = [sreq EXCEPT ![r] = Quiet]
    /\ UNCHANGED <<dicts, lists, current, met, crossed>>

\* What may be read in the file: no sites in an empty one; in a mixed one the
\* sites of the text and the last ones of the rest, or, where those come under
\* the key once more, only them.  (It may also be no YAML, and the program does
\* not start.)
Readings ==
    LET ends == {SubSeq(yaml.rest, n, Len(yaml.rest)) : n \in 1..(Len(yaml.rest) + 1)} IN
    {yaml.sites \o e : e \in ends} \cup (IF yaml.state = "mixed" THEN ends ELSE {})

\* A new process loads the file.
LoadYaml ==
    \E sites \in Readings :
        /\ Len(sites) <= MaxDicts
        /\ dicts' = sites
        /\ lists' = <<[i \in 1..Len(sites) |-> i]>>
        /\ current' = 1
        /\ sreq' = [r \in SettingReqs |-> Quiet]
        /\ crossed' = (yaml.state = "mixed")
        /\ UNCHANGED <<yaml, met>>

SettingsNext ==
    \/ \E r \in SettingReqs :
          \/ \E w \in Wants :
                AddSourceSite(r, w) \/ RemoveSourceSite(r, w)
                \/ SaveSiteCredentials(r, w) \/ SetDestination(r, w)
          \/ Act(r) \/ PutBack(r) \/ Replace(r)
          \/ OpenYaml(r) \/ DumpYaml(r) \/ CloseYaml(r)
    \/ LoadYaml

SettingsSpec == SettingsInit /\ [][SettingsNext]_settingVars

-----------------------------------------------------------------------------
(* Properties *)

\* The lists hold dictionaries that exist, and the list in use exists.
SettingsTypeOK ==
    /\ dicts \in Seq(Site) /\ lists \in Seq(Seq(1..MaxDicts))
    /\ Len(dicts) <= MaxDicts /\ current \in DOMAIN lists
    /\ \A k \in DOMAIN lists : ToSet(lists[k]) \subseteq DOMAIN dicts
    /\ yaml \in [state : {"written", "empty", "mixed"}, sites : Seq(Site), rest : Seq(Site)]
    /\ sreq \in [SettingReqs -> [at : {"idle", "decided", "put", "save", "open", "dumped"},
                                  want : Wants \cup {NoWant}, list : 0..MaxLists,
                                  new : Seq(1..MaxDicts), text : Seq(Site)]]
    /\ met \in BOOLEAN /\ crossed \in BOOLEAN

\* A restart finds the file as a request that was killed has left it, or as
\* saves that overlapped have.
Unsettled == crossed \/ \E r \in SettingReqs : sreq[r].at \notin {"idle", "decided"}

\* routes.py:1419,1429: a site that is listed stays listed until it is removed,
\* and one that was removed stays away until it is added, through any overlap
\* of requests none of which is a removal.  That includes every restart, unless
\* a request was killed before it had saved what it had changed (it may leave
\* the file empty) or the saves that made the file overlapped: of two such
\* saves the one that represented the tree earlier may be written later.
SitesStay ==
    [][\A d \in SiteDomains :
         ~met' /\ (d \in DomainsOf(current)) # (d \in DomainsOf(current)') =>
            \/ LoadYaml /\ Unsettled
            \/ \E r \in SettingReqs :
                  /\ IF d \in DomainsOf(current) THEN Replace(r)
                                                ELSE Act(r) /\ sreq[r].want.op = "add"
                  /\ sreq[r].want.domain = d]_settingVars

=============================================================================
