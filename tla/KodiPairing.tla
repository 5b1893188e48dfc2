---------------------------- MODULE KodiPairing ----------------------------
(***************************************************************************)
(* Pairing a Kodi add-on with a configuration made in a browser:           *)
(* services/kodi_pairing.py and api/endpoints/kodi.py on the server, the   *)
(* table kodi_setup_codes, and the loop of the add-on                      *)
(* (kodi/plugin.video.comet/lib/custom_settings_window.py).                *)
(*                                                                         *)
(* The add-on asks for a code, shows it, and polls until a configuration   *)
(* was associated with it or its own deadline passes.  Every request reads *)
(* the time before its statement is executed, and its answer may be lost.  *)
(* A code may be drawn again once its row is gone, under an add-on that    *)
(* still polls for it.                                                     *)
(***************************************************************************)
EXTENDS RealColumn

CONSTANTS
    Addon,          \* runs of the add-on's setup
    Page,           \* configuration pages, each posting a manifest once
    NoPage,         \* config_b64 IS NULL
    Code,           \* what secrets.token_hex(4) draws from
    NoCode,
    TTL,            \* KODI_SETUP_CODE_TTL_SECONDS, in ticks
    MaxAttempts,    \* KODI_SETUP_MAX_GENERATION_ATTEMPTS
    Horizon         \* bound: the clock stops here

\* A stored expiry is never 0, which stands for no row.
ASSUME KodiAssumption ==
    /\ Quantum <= 2 * TTL
    /\ NoPage \notin Page /\ NoCode \notin Code
    /\ TTL \in Nat \ {0} /\ MaxAttempts \in Nat \ {0} /\ Horizon \in Nat

VARIABLES
    clock,
    rowConfig,      \* kodi_setup_codes.config_b64
    rowExpires,     \* kodi_setup_codes.expires_at as stored; 0: no row
    pc,             \* where each add-on is
    code,           \* the code it was given
    tries,          \* attempts to insert a code
    stamp,          \* the time the server read for its request
    deadline,       \* when it stops polling
    answer,         \* the configuration on its way to it
    got,            \* the configuration it has stored
    page,           \* where each page is
    pageCode,       \* the code the page was opened with
    pageStamp,      \* the time the server read for the page's post
    issued,         \* history: the time from which the code was to live
    openedFor,      \* history: the add-on that showed the code
    rowFor,         \* history: the add-on that a code's row was inserted for last
    consumed        \* history: add-ons whose row was delivered or lost

addonVars == <<pc, code, tries, stamp, deadline, answer, got>>
pageVars == <<page, pageCode, pageStamp, openedFor>>
rowVars == <<rowConfig, rowExpires>>
history == <<issued, rowFor, consumed>>
kodiVars == <<clock, addonVars, pageVars, rowVars, history>>

NoAddon == "no add-on"

KodiInit ==
    /\ clock = 1
    /\ rowConfig = [c \in Code |-> NoPage] /\ rowExpires = [c \in Code |-> 0]
    /\ pc = [a \in Addon |-> "new"] /\ code = [a \in Addon |-> NoCode]
    /\ tries = [a \in Addon |-> 0] /\ stamp = [a \in Addon |-> 0]
    /\ deadline = [a \in Addon |-> 0] /\ issued = [a \in Addon |-> 0]
    /\ answer = [a \in Addon |-> NoPage] /\ got = [a \in Addon |-> NoPage]
    /\ page = [p \in Page |-> "new"] /\ pageCode = [p \in Page |-> NoCode]
    /\ pageStamp = [p \in Page |-> 0]
    /\ openedFor \in [Page -> Addon]
    /\ rowFor = [c \in Code |-> NoAddon] /\ consumed = {}

Goto(a, at) == pc' = [pc EXCEPT ![a] = at]
HasRow(c) == rowExpires[c] # 0

\* Mutant of Unexpired: the last moment does not count.
UnexpiredBefore(c, now) == HasRow(c) /\ rowExpires[c] > Stored(now)

Unexpired(c, now) == HasRow(c) /\ rowExpires[c] >= Stored(now)

SetRow(c, config, expires) ==
    /\ rowConfig' = [rowConfig EXCEPT ![c] = config]
    /\ rowExpires' = [rowExpires EXCEPT ![c] = expires]

----------------------------------------------------------------------------
\* /kodi/generate_setup_code: create_setup_code() reads the time, ...
Generate(a) ==
    /\ pc[a] = "new" /\ Goto(a, "creating")
    /\ stamp' = [stamp EXCEPT ![a] = clock]
    /\ UNCHANGED <<clock, code, tries, deadline, answer, got, pageVars,
                   rowVars, history>>

\* Mutant of Insert: ON CONFLICT DO UPDATE.
InsertOver(a, c) ==
    /\ pc[a] = "creating"
    /\ SetRow(c, NoPage, Stored(stamp[a] + TTL))
    /\ code' = [code EXCEPT ![a] = c]
    /\ issued' = [issued EXCEPT ![a] = stamp[a]] /\ rowFor' = [rowFor EXCEPT ![c] = a]
    /\ Goto(a, "created")
    /\ UNCHANGED <<clock, tries, stamp, deadline, answer, got, pageVars,
                   consumed>>

\* ... INSERT ... ON CONFLICT DO NOTHING, tried with another code when the row
\* exists; the last attempt ends in an error.
Insert(a, c) ==
    /\ pc[a] = "creating"
    /\ IF HasRow(c)
       THEN /\ tries' = [tries EXCEPT ![a] = @ + 1]
            /\ IF tries'[a] = MaxAttempts THEN Goto(a, "failed")
                                          ELSE UNCHANGED pc
            /\ UNCHANGED <<rowVars, code, issued, rowFor>>
       ELSE /\ SetRow(c, NoPage, Stored(stamp[a] + TTL))
            /\ code' = [code EXCEPT ![a] = c]
            /\ issued' = [issued EXCEPT ![a] = stamp[a]]
            /\ rowFor' = [rowFor EXCEPT ![c] = a]
            /\ Goto(a, "created") /\ UNCHANGED tries
    /\ UNCHANGED <<clock, stamp, deadline, answer, got, pageVars, consumed>>

\* The dialogs are closed: the add-on counts expires_in from this moment on.
StartPolling(a) ==
    /\ pc[a] = "created" /\ Goto(a, "polling")
    /\ deadline' = [deadline EXCEPT ![a] = clock + TTL]
    /\ UNCHANGED <<clock, code, tries, stamp, answer, got, pageVars, rowVars,
                   history>>

\* A request fails before there is a code, or Kodi is closed.
Abandon(a) ==
    /\ pc[a] \in {"creating", "created", "polling"} /\ Goto(a, "failed")
    /\ UNCHANGED <<clock, code, tries, stamp, deadline, answer, got, pageVars,
                   rowVars,
                   history>>

----------------------------------------------------------------------------
\* /kodi/associate_manifest, posted from a page opened with the code shown.
Post(p) ==
    LET a == openedFor[p] IN
    /\ page[p] = "new" /\ code[a] # NoCode
    /\ page' = [page EXCEPT ![p] = "posted"]
    /\ pageCode' = [pageCode EXCEPT ![p] = code[a]]
    /\ pageStamp' = [pageStamp EXCEPT ![p] = clock]
    /\ UNCHANGED <<clock, addonVars, rowVars, openedFor, history>>

\* UPDATE ... WHERE code = :code AND expires_at >= :now RETURNING code
Associate(p) ==
    LET c == pageCode[p] IN
    /\ page[p] = "posted"
    /\ IF Unexpired(c, pageStamp[p])
       THEN /\ page' = [page EXCEPT ![p] = "success"]
            /\ SetRow(c, p, rowExpires[c])
       ELSE /\ page' = [page EXCEPT ![p] = "refused"] /\ UNCHANGED rowVars
    /\ UNCHANGED <<clock, addonVars, pageCode, pageStamp, openedFor, history>>

----------------------------------------------------------------------------
\* /kodi/get_manifest/{code}, until the deadline
Poll(a) ==
    /\ pc[a] = "polling" /\ clock < deadline[a] /\ Goto(a, "asked")
    /\ stamp' = [stamp EXCEPT ![a] = clock]
    /\ UNCHANGED <<clock, code, tries, deadline, answer, got, pageVars,
                   rowVars,
                   history>>

\* DELETE ... WHERE code = :code AND config_b64 IS NOT NULL
\* AND expires_at >= :now RETURNING config_b64
Consume(a) ==
    LET c == code[a] IN
    /\ pc[a] = "asked" /\ Goto(a, "answered")
    /\ IF rowConfig[c] # NoPage /\ Unexpired(c, stamp[a])
       THEN /\ answer' = [answer EXCEPT ![a] = rowConfig[c]]
            /\ SetRow(c, NoPage, 0)
            /\ consumed' = consumed \cup {rowFor[c]}
       ELSE UNCHANGED <<answer, rowVars, consumed>>
    /\ UNCHANGED <<clock, code, tries, stamp, deadline, got, pageVars, issued, rowFor>>

\* The add-on stores the configuration, or polls again after a 404.
Receive(a) ==
    /\ pc[a] = "answered"
    /\ got' = [got EXCEPT ![a] = answer[a]]
    /\ answer' = [answer EXCEPT ![a] = NoPage]
    /\ Goto(a, IF answer[a] = NoPage THEN "polling" ELSE "done")
    /\ UNCHANGED <<clock, code, tries, stamp, deadline, pageVars, rowVars,
                   history>>

\* The answer is lost, with the row that it carried: the add-on polls on.
LoseAnswer(a) ==
    /\ pc[a] \in {"asked", "answered"} /\ Goto(a, "polling")
    /\ answer' = [answer EXCEPT ![a] = NoPage]
    /\ UNCHANGED <<clock, code, tries, stamp, deadline, got, pageVars,
                   rowVars,
                   history>>

GiveUp(a) ==
    /\ pc[a] = "polling" /\ clock >= deadline[a] /\ Goto(a, "expired")
    /\ UNCHANGED <<clock, code, tries, stamp, deadline, answer, got, pageVars,
                   rowVars,
                   history>>

\* cleanup_expired_kodi_setup_codes(), every 30 seconds
Cleanup(c) ==
    /\ HasRow(c) /\ rowExpires[c] < Stored(clock)
    /\ SetRow(c, NoPage, 0)
    /\ UNCHANGED <<clock, addonVars, pageVars, history>>

Tick ==
    /\ clock < Horizon /\ clock' = clock + 1
    /\ UNCHANGED <<addonVars, pageVars, rowVars,
                   history>>

KodiNext ==
    \/ \E a \in Addon :
          \/ Generate(a) \/ \E c \in Code : Insert(a, c)
          \/ StartPolling(a) \/ Abandon(a)
          \/ Poll(a) \/ Consume(a) \/ Receive(a) \/ LoseAnswer(a) \/ GiveUp(a)
    \/ \E p \in Page : Post(p) \/ Associate(p)
    \/ \E c \in Code : Cleanup(c)
    \/ Tick

KodiSpec == KodiInit /\ [][KodiNext]_kodiVars

----------------------------------------------------------------------------
\* Type invariant.
KodiTypeOK ==
    /\ clock \in Nat \ {0}
    /\ rowConfig \in [Code -> Page \cup {NoPage}]
    /\ rowExpires \in [Code -> Nat]
    /\ pc \in [Addon -> {"new", "creating", "created", "polling", "asked",
                         "answered", "done", "expired", "failed"}]
    /\ code \in [Addon -> Code \cup {NoCode}]
    /\ tries \in [Addon -> 0..MaxAttempts]
    /\ stamp \in [Addon -> Nat] /\ deadline \in [Addon -> Nat]
    /\ answer \in [Addon -> Page \cup {NoPage}]
    /\ got \in [Addon -> Page \cup {NoPage}]
    /\ page \in [Page -> {"new", "posted", "success", "refused"}]
    /\ pageCode \in [Page -> Code \cup {NoCode}]
    /\ pageStamp \in [Page -> Nat] /\ openedFor \in [Page -> Addon]
    /\ issued \in [Addon -> Nat] /\ consumed \subseteq Addon
    /\ rowFor \in [Code -> Addon \cup {NoAddon}]

Holds(a) == {got[a], answer[a]} \ {NoPage}

\* A configuration reaches one add-on at most, and one that was given the code
\* its page was opened with, although codes collide, expire, are deleted under
\* the add-on and are drawn again.
DeliveredByCode ==
    \A a \in Addon :
        /\ \A p \in Holds(a) : page[p] = "success" /\ pageCode[p] = code[a]
        /\ \A b \in Addon \ {a} : Holds(a) \cap Holds(b) = {}

\* Has the code of a been given out, not been used, and not outlived its lifetime?
Live(a) == code[a] # NoCode /\ a \notin consumed /\ clock <= issued[a] + TTL

\* That add-on is the one whose user opened the page, but for one of the two whose
\* code was used or is over: no two add-ons have one code while both may use it.
OneLiveOwner ==
    \A a, b \in Addon : code[a] = code[b] /\ Live(a) /\ Live(b) => a = b

\* What holds of codes, pages and add-ons in every state.
KodiInv == KodiTypeOK /\ DeliveredByCode /\ OneLiveOwner

\* A code is refused only when it was used or its lifetime is over, and it is
\* accepted for no more than one step of the column beyond its lifetime, or that
\* of the add-on which it was given since.
ValidForLifetime ==
    [][\A p \in Page : page[p] = "posted" =>
          LET a == openedFor[p] IN
          /\ page'[p] = "refused" =>
                a \in consumed \/ clock > issued[a] + TTL
          /\ page'[p] = "success" =>
                \E b \in Addon :
                    /\ b = rowFor[pageCode[p]] /\ code[b] = code[a]
                    /\ pageStamp[p] <= issued[b] + TTL + Quantum]_kodiVars
=============================================================================
