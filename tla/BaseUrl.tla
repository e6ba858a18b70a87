------------------------------- MODULE BaseUrl -------------------------------
(***************************************************************************)
(* base_url: each record has one main URL key per context, that is per     *)
(* referential and language, made from its name in that language; the keys *)
(* it had before redirect to it, until a record takes one over.  Users     *)
(* enter and edit keys by hand too.  Each operation is a transaction;      *)
(* those that overlap on a record or a key fail and are run again.         *)
(***************************************************************************)
EXTENDS Naturals

CONSTANTS Record, Context, Name,
          Slug,    \* the key that _generate_url_key makes of a name
          Custom,  \* keys that users enter
          MaxSteps \* bound: operations

Key == {Slug[n]: n \in Name} \union Custom

UrlParameters == DOMAIN Slug = Name /\ MaxSteps \in Nat

VARIABLES name,             \* the names of each record that exists
          url_need_refresh, \* records whose name changed since
          urls,             \* the rows of url.url
          found,            \* ghost: which record was last found under a key
          edited,           \* ghost: records of which a user changed a URL
          steps

vars == <<name, url_need_refresh, urls, found, edited, steps>>

Live == DOMAIN name

Url == [context: Context, key: Key, res_id: Record, redirect: BOOLEAN,
        manual: BOOLEAN, need_refresh: BOOLEAN]

\* The constraint of the keys, and the index of the main URLs.
Unique(U) ==
  \A u, v \in U: (u # v /\ u.context = v.context) =>
    /\ u.key # v.key
    /\ u.res_id = v.res_id => u.redirect \/ v.redirect

TypeOK ==
  /\ Live \subseteq Record /\ \A r \in Live: name[r] \in [Context -> Name]
  /\ url_need_refresh \subseteq Live /\ edited \subseteq Live
  /\ urls \subseteq Url /\ Unique(urls) /\ \A u \in urls: u.res_id \in Live
  /\ DOMAIN found \subseteq Context \X Key /\ \A k \in DOMAIN found: found[k] \in Live
  /\ steps \in 0..MaxSteps

Init == /\ name = [r \in {} |-> Slug]
        /\ url_need_refresh = {} /\ urls = {}
        /\ found = [k \in {} |-> Slug]
        /\ edited = {} /\ steps = 0

Step == steps < MaxSteps /\ steps' = steps + 1

create(r) ==
  /\ Step /\ r \notin Live
  /\ \E n \in Name: name' = [x \in Live \union {r} |-> IF x = r THEN [c \in Context |-> n] ELSE name[x]]
  /\ url_need_refresh' = url_need_refresh \union {r}
  /\ UNCHANGED <<urls, found, edited>>

\* A write of the name in one language, on which url_need_refresh depends.
Rename(r, c) ==
  /\ Step
  /\ \E n \in Name \ {name[r][c]}: name' = [name EXCEPT ![r][c] = n]
  /\ url_need_refresh' = url_need_refresh \union {r}
  /\ UNCHANGED <<urls, found, edited>>

-----------------------------------------------------------------------------
(* _update_url_key.                                                        *)

main_url(U, r, c) == {u \in U: u.res_id = r /\ u.context = c /\ ~u.redirect}

\* Mutant: only the URL of this context is marked.
Marked_OnlyCurrent(r, c) ==
  {IF r \in url_need_refresh /\ u \in main_url(urls, r, c) /\ ~u.manual
   THEN [u EXCEPT !.need_refresh = TRUE] ELSE u: u \in urls}

\* What changed on the record is noted on its main URLs of all contexts.
Marked(r, c) ==
  {IF r \in url_need_refresh /\ u.res_id = r /\ ~u.redirect /\ ~u.manual
   THEN [u EXCEPT !.need_refresh = TRUE] ELSE u: u \in urls}

\* Mutant: the key of the record is replaced.
Redirected_Replaced(current) == {}
\* The current URL, if any, becomes a redirection.
Redirected(current) == {[u EXCEPT !.redirect = TRUE, !.need_refresh = FALSE]: u \in current}

\* Mutant: the record that is found under a key is not changed.
Reused_Kept(u, r) == [u EXCEPT !.redirect = FALSE]
\* _reuse_url: a redirection becomes a main URL of r, and is as manual as before.
Reused(u, r) == [u EXCEPT !.res_id = r, !.redirect = FALSE]

existing_url(U, c, k) == {u \in U: u.context = c /\ u.key = k}

\* The key is that of a redirection, or new.  If it is the main key of another
\* record, an error undoes everything.
add_url(U, r, c, k) ==
  IF existing_url(U, c, k) # {}
  THEN (U \ existing_url(U, c, k)) \union {Reused(u, r): u \in existing_url(U, c, k)}
  ELSE U \union {[context |-> c, key |-> k, res_id |-> r, redirect |-> FALSE,
                  manual |-> FALSE, need_refresh |-> FALSE]}

update_url_key(r, c) ==
  LET k == Slug[name[r][c]]
      manual == \E u \in main_url(urls, r, c): u.manual
      marked == IF manual THEN urls ELSE Marked(r, c)
      current == main_url(marked, r, c)
      due == ~manual /\ \A u \in current: u.need_refresh
      changes == due /\ \A u \in current: u.key # k
      rest == (marked \ current) \union Redirected(current)
  IN  /\ Step
      /\ changes => \A u \in existing_url(rest, c, k): u.redirect
      /\ urls' = IF changes THEN add_url(rest, r, c, k)
                 ELSE IF due THEN {IF u \in current THEN [u EXCEPT !.need_refresh = FALSE] ELSE u: u \in marked}
                 ELSE marked
      /\ found' = IF changes
                  THEN [x \in DOMAIN found \union {<<c, k>>} |-> IF x = <<c, k>> THEN r ELSE found[x]]
                  ELSE found
      /\ url_need_refresh' = url_need_refresh \ {r}
      /\ UNCHANGED <<name, edited>>

-----------------------------------------------------------------------------
\* The URLs of the record go with it; what keeps them is left to the models
\* that use the mixin (_redirect_existing_url).
unlink(r) ==
  /\ Step
  /\ name' = [x \in Live \ {r} |-> name[x]]
  /\ urls' = {u \in urls: u.res_id # r}
  /\ found' = [x \in {y \in DOMAIN found: found[y] # r} |-> found[x]]
  /\ url_need_refresh' = url_need_refresh \ {r} /\ edited' = edited \ {r}

\* The list of URLs of a record: users add a manual one, and edit or delete any.
EditUrls(r, U) ==
  /\ Step
  /\ Unique(U)
  /\ urls' = U
  /\ edited' = edited \union {r}
  /\ UNCHANGED <<name, url_need_refresh, found>>

AddUrl(r, c) ==
  \E k \in Key, b \in BOOLEAN:
    /\ existing_url(urls, c, k) = {}
    /\ EditUrls(r, urls \union {[context |-> c, key |-> k, res_id |-> r, redirect |-> b,
                                 manual |-> TRUE, need_refresh |-> FALSE]})
EditUrl(u) ==
  \E k \in Key, b \in BOOLEAN:
    EditUrls(u.res_id, (urls \ {u}) \union {[u EXCEPT !.key = k, !.redirect = b]})
DeleteUrl(u) == EditUrls(u.res_id, urls \ {u})

Next == \/ \E r \in Record: create(r)
        \/ \E r \in Live: unlink(r) \/ \E c \in Context: Rename(r, c) \/ update_url_key(r, c) \/ AddUrl(r, c)
        \/ \E u \in urls: EditUrl(u) \/ DeleteUrl(u)

Spec == Init /\ [][Next]_vars

-----------------------------------------------------------------------------
\* A key under which a record was found last still leads to it, as its main URL
\* or by a redirection, whatever other records were named meanwhile, unless a
\* user changed the URLs of the record (_update_url_key, _add_url, _reuse_url).
OldKeysLead ==
  \A x \in DOMAIN found: found[x] \notin edited =>
    \E u \in urls: <<u.context, u.key>> = x /\ u.res_id = found[x]

\* A main URL tells the name of its record in its language, or is marked, or the
\* record is: no change of a name is forgotten in a language that is refreshed
\* later.  Not so with a manual URL in one language: refreshing that language
\* unmarks the record without marking its URLs in the others.
FreshUnlessMarked ==
  \A u \in urls:
    LET r == u.res_id IN
    (~u.redirect /\ r \notin edited /\ \A v \in urls: v.res_id = r => v.redirect \/ ~v.manual)
      => u.key = Slug[name[r][u.context]] \/ u.need_refresh \/ r \in url_need_refresh

=============================================================================
