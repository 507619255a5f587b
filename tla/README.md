# Verification of ingress-nginx-controller

TLA+ models of the controller in `src/`: an operator that turns `Ingress` objects into nginx
configuration files and keeps one nginx process, in the same container, serving them. The models
are checked with TLC on small instances, and their invariants and refinements are proved with
TLAPS for every value of their constants.

## The system

| Part | Source | State it keeps | Operations |
|---|---|---|---|
| reconcile loop | `internal/controller/ingress_controller.go` | workqueue keys (controller-runtime) | `Reconcile`, `checkController`, `checkService`, `clearConf`, requeue after 15 or 30 s, resync after 10 h |
| configuration generation | `internal/controller/nginx.go`, `default_nginx.go`, `pkg/utils/template_nginx` | the `-test.conf` files, certificate files | `GenerateConfigure`, `generateBackendTemplate`, `generateDefaultBackendTemplate`, `UpdateDefaultConf`, `generateTlsFile` |
| configuration reload | `internal/nginx/nginx.go` | `<name>.conf`, `<name>-test.conf`, `<name>.tmp` | `Reload`: compare, back up, swap, `nginx -t`, commit or roll back, `SIGHUP`, clean |
| start-up | `internal/nginx/nginx.go` | the nginx process, its pid file | `Start`: run nginx; poll the process list for ten seconds, then attach the watchers |
| directory watchers | `pkg/utils/file/file_watcher.go`, `reloadIfWatchFileCurd` | unhandled fsnotify events of `conf.d` and `ssl` | `nginx -t`, then `SIGHUP`; on refusal the event is dropped |
| certificates | `pkg/resources/resources.go`, `generateTlsFile` | `Certificate` and `Issuer` objects; `Secret`s; the pairs of files in `ssl` | `ReconcileResource`; `generateCrdTlsFile` and `generateCaTlsFile` copy Secrets to files |
| lookups | `internal/controller/store` | none | `GetService`, `GetBackend`, `GetSvcPort`, `GetSecret`, `GetTlsData` |
| annotations | `internal/annotations` | none | `Extract` and eight parsers |
| admission webhook | `api/v1/ingress_webhook.go` | none | `ValidData` |
| templates | `rootfs/etc/nginx/template` | none | what nginx reads |

How they interact. The reconcile worker is single (controller-runtime's default of one
concurrent reconcile). It reads an `Ingress`, writes its certificate files in place, renders a
configuration, and calls `Reload`, which runs `nginx -t` on the **whole** directory. Two watcher
goroutines run `nginx -t` on the same directory and send `SIGHUP` on their own; nginx handles a
`SIGHUP` later, reading the directory again. Deleting an Ingress only removes its file: it is
the watcher that makes nginx forget it. Services and Secrets are read but not watched.

What is hard: the worker, two watchers, the start-up goroutine and nginx share a directory
without a lock; a file is truncated before it is written; certificates are overwritten without a
trial; every test is of everything, so an Ingress can be refused for another one's fault; a
`SIGHUP` has no answer; retries are by time; objects and Secrets change while they are being
reconciled; and writes, execs and the container may fail between any two steps.

What makes each part correct:

* reload: only a version `nginx -t` accepted stays in a production file; a refused one is rolled
  back; nothing on trial is left behind; a good copy survives throughout;
* watchers and signals: nginx settles on what is asked, whatever order events come in;
* reconcile: an Ingress the controller has finished with is applied in its latest version; a
  deleted one has no file; one refused for a missing Service is retried;
* certificates: a host is served with a certificate meant for it, halves of two pairs are never
  mixed, and a renewed one reaches nginx;
* webhook, parsers, lookups, generation: a sound object is served, what is served is complete and
  without contradictions, and every request of every client is then treated as asked.

## Modules

| Module | Role |
|---|---|
| `ConfStore` | abstract: a store of accepted configurations, and an nginx that serves them |
| `ConfReload` | `internal/nginx`, step by step; implements `ConfStore` |
| `Settlement` | abstract: each Ingress is pending, in hand, or applied |
| `Reconcile` | `internal/controller` with `reload` as one step; implements `Settlement` |
| `Certificates` | the certificate files, between the worker, the watchers and nginx |
| `Annotations` | the parsers of annotations, as operators |
| `Backends` | one object from the webhook to `nginx -t`; extends `Annotations` |
| `MCConfReload`, `MCReconcile`, `MCCertificates`, `MCBackends` | instances for TLC |
| `ConfReload_proof`, `Reconcile_proof`, `Certificates_proof`, `Backends_proof` | theorems |
| `ConfReload_started_proof`, `Backends_served_proof` | one long argument each, on top of those |

`ConfReload`, `Reconcile` and `Certificates` look at the same loop from three sides. What one
keeps step by step is one step in the next: the trial of a configuration is many steps of
`ConfReload` and one of `Reconcile` and `Certificates`; the certificate files are written byte
for byte only in `Certificates`; Services matter only in `Reconcile`.

**`ConfStore`**: `Install` puts a valid version in that defines no upstream another
configuration in the store defines, `Discard` takes one out, `Load` lets nginx
load the store, except that one configuration (the one being replaced at that moment) may be
missing or be a valid version not yet accepted. `Reset` is a restart; after `Damaged` nothing is
promised.

**`ConfReload`** has one action per step of `reload`, so that watchers, nginx and crashes
interleave with it.

| Code | Actions |
|---|---|
| render a `-test.conf`, then `Reload` | `Begin` (from Reconcile), `Clear` (from `clearConf`) |
| `reload`: stat and SHA1 comparison | `Stat` |
| `backupConf` | `Backup`; `Truncate` and `Overwrite` (the two halves of `os.WriteFile`); `DropTest` |
| `nginx -t` | `NginxTest` |
| `rolloutConf` | `Rollback`, `Restore` |
| final `generateConf`, `gracefulRestart`, deferred `CleanConf` | `Commit`, `Signal`, `Finish` |
| `Start`, `isRunning`, `dirWatcher` | `NginxExec`, `NginxRead`, `NginxPid`, `Poll`, `StartTimeout`, `AddWatch` |
| `reloadIfWatchFileCurd` | `WatcherTest`, `WatcherSignal` |
| nginx on `SIGHUP`; a restart of the container | `NginxLoad`; `Crash` |

`prod`, `test` and `bak` are the three files of each configuration (`Ings`, one file each in
`conf.d`, and `Main`, `nginx.conf`). A content is a member of `Versions` or `Absent`, `Empty`,
`Torn`. `nginx -t` is `ConfigOK`: every included file is in `Valid`, and no two of them define a
common upstream. An upstream is named `<Service>-<Ingress>-<namespace>`, so that happens to the
production and the test file of one Ingress, when both proxy to a Service, and to the files of
two Ingresses of a namespace whose names run together: Service `api-v1` of Ingress `web` and
`api` of `v1-web`. `Clashing` holds the pairs of an Ingress and a content that do; which ones is
a parameter. `running` is what nginx serves, `hup` an unhandled signal, `events` the unhandled
events of each watcher. Each write, each removal by `CleanConf` and each exec may fail
(`MaxFaults`); where a failure leaves damage the code does not repair, `tainted` is set, and the
promises stop until the next restart.

**`Settlement`** says what the loop promises of each Ingress: one object at a time is taken in
hand (`Take`); a file is written only with what the version in hand asks for (`Write`); an
Ingress is let go (`LetGo`, `Finish`) only when its file is the one its present version asks
for, or it stays pending; a deleted object's file goes first of all (`Clean`).

**`Reconcile`**: the worker goes through `Begin` (read the object, `checkController`,
`clearConf`), `CheckServices`, `Resources` (certificate), `Extract`, `Rules` (`generateTlsFile`,
render, reload) and `Default`; users change Ingresses and Services between any two of them,
`IssueCert` is cert-manager, `Resync` is the informer that hands out every object again, `Fail`
turns every error after the object is read into a delayed key, and `Restart` starts the container
from its image with the objects there are. `nginx -t` accepts the directory with the new file, or
the old one stays; whether it accepts depends on the Services that exist, which is what `Valid` of
`ConfReload` leaves out, and on the upstreams of the other files (`UpstreamOf`, `Free`). `FileOf` is the file name `<name>-<namespace>`; `DistinctFiles` says that no two
Ingresses share one. With a `FileOf` that maps two Ingresses to one file (`a-b` in `c`, `a` in
`b-c`), `SettledMeansApplied` fails: each reconcile overwrites the other's file, a deletion of
one removes it, and nothing brings it back.

**`Certificates`**: `ReadSecret` is `GetTlsData`, `Truncate` and `Fill` the two halves of each
`os.WriteFile` in an order a Go map decides, `Pair` the entry `ht[host] = ssl`, `Reload` the
rendering and trial. `Entries` is what the worker loops over: `spec.tls`, whose pairs of files
are named after the host, so that two Ingresses may write one pair, or the Ingress's own Secret
from cert-manager. The variable `ssl` is declared outside the loop, and keeps the file names of
the entry before for the parts a Secret does not have. Secrets are renewed, become a mismatch,
lack a part or are deleted at any step; `Watcher` and `NginxLoad` read the files at any step.
An object whose `spec.tls` has items that name no host (`ca` without entries) gets no certificate,
nor its own. `named`, `flawed` and `lacking` are history: the Secrets ever named for a host, the
ones that ever were no matching pair, and of these the ones that lacked a part. `OwnPair` excepts
`lacking` only: a Secret whose certificate and key do not match is no excuse.

**`Annotations`** has a check per parser (proxy, rewrite, redirect, allow and deny lists) and
what `server.tmpl` makes of each; `WeightCheck`, which reads the object's paths and Services, is
in `Backends`. An item of a list is an address, a look-alike that `PassIsIp` takes for one, a
network in CIDR notation, or anything else.

**`Backends`** follows one object: `Admit`, `CheckServices`, `Extract` (every parser, any
failing one deciding, as a Go map has no order), `Configure` (`getBackendConfigure`), `Test` and
`Default`. A backend may be a resource, which has no Service; a rule may have no paths; a
`proxy-host` may be given without a value; a default backend is configured last. The result
`"down"` is a panic (a nil Service or backend, an index past the end), which takes the manager
down: controller-runtime does not recover panics by default.

What nginx then does with a request is in the same module. Paths and requests are values;
`Prefixed` and `Matched` say which path begins which request, and which path, as the regular
expression `^path`, matches it, so paths overlap in any way. `LocationOf` is nginx's choice in a
server: the first regular expression in the order of the file that matches (redirect, proxy, then
the paths in order), or else the longest prefix. `Answer` follows nginx's phases: `use-cos`
returns 204 to any OPTIONS request and a redirect location its 301 before `allow` and `deny` are
looked at; then access, then the location.

Four properties say what the object gets. They are stated about the object, not about the checks:

* `SoundIsServed`: an object nobody has a reason to refuse (`SoundRules`: annotations as their
  parsers document them, Services and ports that exist, no path or Service given twice, weights
  for two Services at least) is lost in no check.
* `ServedIsSound`: what gets through has its Services, hosts, targets and lists, and no plain path
  and, without weights, no Service twice.
* `Routed`: a request goes to the Service of the first regular expression of the rule that matches
  it, or of the rule's longest path for it, unless the object's own proxy or redirect claims it
  (`ProxyClaims`, `Outdone`); and a request no path asks for goes to no Service.
* `AccessAsAsked`: no client the lists keep out gets through to a Service or the proxy, by any
  request, and nobody else is turned away.

Between `SoundRules` and what the code accepts there are objects of which nothing is promised,
since the repository says one thing of them and does another, or says nothing:

| The repository says | The code does |
|---|---|
| `ipallowlist/main.go:39`: `10.0.0.8/16,11.0.0.9/16` is an example of an allow list | `PassIsIp` takes four numbers only and refuses it |
| `weight/main.go:94`: "at least two services are required" | the check before it never fires; one Service is served, none is refused by `nginx -t` |
| `ingress_webhook.go:132`: "not allow duplicate path" | only a path equal to the one before it is refused; others reach `nginx -t`, which refuses plain paths and takes regular expressions given twice |
| `ingress_webhook.go:113`: "proxy-host: … is an invalid value" | it is the host of the rule that is checked; the value of `proxy-host` is never looked at but as a path |
| `ipdenylist/main.go:29`: "deny ip" | an address in the allow list too is admitted, and redirects and OPTIONS requests are answered before the lists |

`AccessAsAsked` therefore leaves out clients in both lists, and speaks of reaching a Service or
the proxy.

## Abstractions

* `nginx -t` and a load read the directory in one step. Only the worker writes in it, and the
  two halves of its writes are steps, so both do see half-written states.
* A torn file is never valid. Contents are compared as values; the code compares SHA1 sums.
* The second copy `generateConf` writes in `/etc/nginx` is not included by nginx and is ignored.
* The events of a watcher are counted up to `EventCap`; one unhandled event makes the watcher
  test and signal once, and a second adds nothing a first does not.
* In `ConfReload` what nginx accepts of a version is fixed; `Reconcile` makes it depend on
  Services.
* In `Reconcile` the queued keys are a set, taken in any order, where the workqueue is first in,
  first out: more orders than the code has. What is proved holds in its order too, and
  `reconcile_default_lost` does not depend on it: with the Ingress that gives the default backend
  queued and reconciled first, the other created and deleted after, the outcome is the same. An
  error of `Get` counts as a deletion in the code, whatever it is; the informer's cache, which
  answers, has no other than "not found".
* In `Reconcile` an object names at most one path per Service and has no `spec.tls`, and `sound`
  stands for all annotation parsers; the finer objects are in `Backends` and `Certificates`.
* In `Certificates` every object can be applied but for its certificates; a certificate or key
  is a generation of its Secret, and a pair matches when both are of one. The two watched
  directories have one pending event, since both watchers do the same. The container starts from
  its image with the objects listed; restarts later are `Reconcile`'s and `ConfReload`'s. The
  check of names in `GetDnsRegex` is `DnsHosts`.
* In `Backends` Services do not change, and empty paths and rules without an HTTP section are
  left out. The parser of stapling reads flags and refuses nothing, so it is not there; that of
  `use-cos` is its flag. nginx's redirect of a request `/p` to a prefix `/p/` is left out.
  `Matched` stands for what nginx's regular expressions match. Which error class a parser returns makes no difference to `Extract`.

## Runs

Passing runs:

* `reload_safety` (`Spec`: two Ingresses and `nginx.conf`, three versions of which one is bad,
  two that proxy to different Services, one of each Ingress clashing with one of the other's, two
  changes, one fault; 2.4 million states): `TypeOK`, `IdleClean`, `NoFalseReject`, `GoodCopyKept`, `ReloadInv`
  and the refinement `ImplementsStore`. Two changes let a reload of one configuration follow, or
  a deletion interleave with, a reload of another; one fault hits any single write, removal, exec
  or the container. `NoFalseReject` says that a valid version is refused for one reason: an
  upstream it shares with what another Ingress has installed. Nothing left behind counts.
* `reload_liveness` (`StartedFairSpec`, two Ingresses and `nginx.conf`, valid versions, three
  changes, any two versions of an Ingress clash, and one of each Ingress with one of the other's):
  `Converges`, and its safety half `NothingMissed`: when no event,
  signal or reload is left to handle, nginx runs what the files hold and the files are what the
  objects ask for. Three changes are apply, change and delete of one Ingress, or two of one with
  a neighbour's between. Signals and events race freely with the worker. A refused version
  promises nothing, nor does one that clashes with what another Ingress has installed.
* `reconcile_safety` (`FairSpec`: two Ingresses, one of them there at the start, two Services,
  an upstream of each Ingress with the name of one of the other's, six specifications including one of another class and one whose annotations fail, three
  changes, one fault): `TypeOK`, `SettledMeansApplied`, `WorkerInv`, the refinement
  `ImplementsSettlement`, and `Converges`: once every Service that some configuration needs is
  back, and no other file has an upstream it asks for, every Ingress is applied. Three changes are a Service going and coming back around an
  apply; the fault is a failure of the API server or a restart.
* `certificates` (`FairSpec`: two Ingresses, two hosts and a name that is no host name, two
  Secrets and the Ingresses' own, two changes, one failing write): `TypeOK`, `OwnPair`,
  `GoodSecretsAccepted`, `FilesServed` and `Converges`. Two changes are a Secret renewed between the two reads of
  one Ingress, broken and repaired, or an Ingress that drops a pair another one shares.
* `backends_served`: all objects of one rule with up to three paths or two rules with up to two,
  each annotation in turn and with weights, default backends, resource backends, rules without
  paths, in six clusters, and requests for `/a`, `/a/x`, `/a/b` and another where the paths are
  `/a`, `/a/b`, `/a/.+` and `/a/b.*`; `TypeOK`, `SoundIsServed`, `ServedIsSound`, `Routed`,
  `AccessAsAsked`. Three paths are the least in which two equal paths are not adjacent; two rules
  the least in which two hosts share a Service; four paths the least in which a prefix, a longer
  one and two regular expressions in either order compete for a request. Each case of `Routed` and
  of `Answer` was seen to occur.

Runs that find the code doing other than it says:

* `reload_unchanged`: `UnchangedIsLoaded`. At start-up nginx reads `nginx.conf`, the worker
  swaps in a new one and finds no pid file to signal; its retry finds the file unchanged.
* `reload_refused`: `Converges` when users may ask for a default backend nginx refuses. An Ingress
  is applied and accepted; nginx handles its `SIGHUP` while its production and its test file clash,
  and keeps the old configuration. The removal of the test file would make up for it, but the
  watcher tests that event while `nginx.conf` is being swapped for one nginx refuses, and drops it.
  The rollback raises no event, the retries of `nginx.conf` end the same way, and the Ingress is
  never served.
* `reconcile_default_lost`: `DefaultServed`. A deletion without a file blanks another Ingress's
  default backend.
* `reconcile_stale_default`: `ConvergesForLive`. A deleted Ingress's default backend stays and,
  its Service gone, makes nginx refuse everything.
* `reconcile_https`: `HttpsServed`. A Secret issued after the last reconcile is not used before
  a resync.
* `certificates_stuck`: `ConvergesForGood`. Two Ingresses drop a Secret that became a mismatch;
  each one's new configuration is refused for the pair the other's old one still names, for
  ever.
* `backends_ports`: `PortExposed`. Unnamed ports match any number.

The runs turn deadlock checking off: when the users have made their changes and all keys are
settled the system rests, and so does an object `Backends` has judged.

Outside `SoundRules`, `Backends` has objects that are admitted and never served: two paths or two
hosts with one Service (an upstream each), equal plain paths that are not adjacent, an address
list with an item that only looks like an address, and objects that make the manager panic at
every restart: `set-weight` naming a Service no path names, a resource backend, a rule without
paths under weights. No property speaks of them; `ServedIsSound` says only that they are not
served, where that is so.

## Fairness

`ConfReload`: the worker, nginx, the goroutine that polls and then attaches the watchers
(`Poll \/ AddWatch`), and each watcher take their next step if they can (weak fairness: goroutines
and processes are scheduled). A key that waits is returned
to the queue (weak, a timer), and a queued key is eventually taken (strong fairness of `Begin`
or `Clear` per key: the workqueue is first in, first out, while the worker is busy again and
again). Nothing is assumed of users, faults or the start-up time-out. `SlowRetry` is TRUE in the
liveness runs: the worker, the watchers and nginx have settled before the 15 s of a requeue have
passed; otherwise requeues can starve the signal by keeping something on trial whenever nginx
looks.
`StartedFairSpec` begins with nginx up and the watchers attached. From the container's start
`Converges` does not hold: a file removed before the watchers are attached raises no event.

`Converges` is stated for a valid version or a deletion asked while nginx is `Ready`, and is
released when the object changes again, when what another Ingress has installed defines an
upstream it asks for, or when nginx stops being ready. A refused version promises nothing.

`Reconcile`: weak fairness of the worker's steps, of timers and of cert-manager, strong fairness
of taking a queued key. Resyncs are bounded like changes and nothing is assumed of them.

`Certificates`: weak fairness of the worker, of the watchers and of nginx, and strong fairness
of `Resync`, which controller-runtime repeats every ten hours. `SlowTimers` is TRUE: a resync
and a requeue come when the queue, the events and the signals of the last one are handled.
Without the resync nothing would converge, since Secrets are not watched. `Converges` asks that
the Secrets in use become matching pairs for good, that no two of them are for one pair of
files, and that no broken pair of an earlier version is left in use; `certificates_stuck` shows
that the last condition cannot be dropped.

## Proofs

`ConfReload_proof` proves for every set of Ingresses, versions, clashing pairs, and every bound,
from `NamesAssumption`, `ContentAssumption`, `ClashingAssumption` (clashing is symmetric, and two
files of one Ingress with one content clash) and `BoundsAssumption`:

1. `TypeCorrect`: `Spec => []TypeOK`, one step per action.
2. `ReloadInvariant`: `Spec => []ReloadInv`. `IdleClean` is not inductive: that the directory is
   clean when the worker is idle depends on where the good version is at each step of `reload`.
   `Phase` says that for the current configuration (production file valid before the swap;
   backup valid from `Backup` until the trial is over; no test file during the trial of an
   update), `AtRest` that every other configuration is untouched (together: `OnTrack`). Writes of
   one step preserve `AtRest` of the others; `NginxTest` makes the tried version valid only when
   the whole directory is accepted. `InstalledApart` says that no two Ingresses have installed
   contents that define one upstream, which a trial could only add to if `nginx -t` accepted it.
3. `IdleCleanAlways`, `NoFalseRejectAlways`, `GoodCopyKeptAlways` follow from it. For
   `NoFalseRejectAlways`: at the trial every other file is at rest and apart from every other, the
   current Ingress has only one file, and it is valid; so what is left to refuse is a clash of that
   file with one another Ingress has installed.
4. `StoreImplemented`: every step is a step of `ConfStore` or leaves `stored`, `running` and
   `tainted` alone. The mapping takes the backup for the stored version while the swap is on
   trial and the test file when a first version is accepted; the load of nginx at any moment is
   `Load` with the worker's configuration as the exception.

`ConfReload_started_proof` proves `NothingMissedWhenStarted`, from the same assumptions, for
`StartedSpec` (nginx up, watchers attached) and `MainVersions \subseteq Valid` (nobody asks for
an `nginx.conf` that nginx refuses). Neither can be dropped: `reload_unchanged` shows what a
start-up loses, and `reload_refused` what a refused `nginx.conf` does. Faults are not excluded,
but `NothingMissed` promises nothing after one. Events and signals do get lost on the way, when
a watcher or nginx looks at a directory on trial; the reason nothing is missed is that every
such reload ends by telling nginx again. The inductive invariant `StartedInv` says just that:

* `Told`: nginx runs what the files hold, or an event or signal is unhandled, or the worker is
  `Midway`, in a reload whose end raises one. A watcher may drop its event only when the
  directory is refused, which needs the worker `Midway` (`AcceptedUnlessMidway`, from
  `ReloadInv`).
* `Leftover`: what makes the end of an Ingress's reload an event is the test or backup file that
  `CleanConf` removes, so one of them is there until then.
* `MainAccepted`: the reload of `nginx.conf` gets to its `SIGHUP`.
* `UpToDate`: an Ingress that waits for nothing has the file its object asks for, or the worker
  is on its way to it, with the retry in hand.
* `Up`: nginx and the watchers stay.

`UnchangedIsToldWhenStarted` follows from the same invariant: when the worker skips an unchanged
`nginx.conf`, nginx runs it, or an event or a signal that will make it load the files is still
unhandled. `UnchangedIsLoaded` asks for the `SIGHUP` and nothing else; that is too much even of
a started controller, whose `SIGHUP` may be lost on an Ingress's trial and made up for by the
event at its end. What `reload_unchanged` finds, an old `nginx.conf` with nothing under way to
replace it, takes a start-up, a fault or a refused version.

`Reconcile_proof`, from the assumptions of `Reconcile`:

1. `TypeCorrect`, and `WorkerInvAlways`: what the worker holds is current, or its key is queued
   again.
2. `SettledAlways`, for distinct files: a key leaves the worker only to `later`, or with its
   file written for the object that was read; if that object is no longer current, the change
   has queued the key again. `SettledMeansApplied` alone is not inductive, since it says nothing
   of a busy key; together with `WorkerInv` it is.
3. `SettlementImplemented`, for distinct files: the file is what `Settlement` calls it without
   certificates, an Ingress is pending while it is queued, waiting or in hand, and the object
   the worker read is the version in hand. `WorkerInv` is what makes the last step a `Finish`.
4. `HealthyIsNotRefused`: while everything asked for and everything served exists
   (`Healthy`), an attempt with the current object is put back into the queue only for the
   certificate it has just created, or by a fault; no check of the worker and no `nginx -t`
   refuses it. This is the part of `Converges` that is not fairness: what remains is that
   attempts are made, and that the object stays current. `Healthy` includes that no other file
   has an upstream the object asks for; without that `nginx -t` may refuse it for ever.
5. When two of the negative results cannot happen. `DefaultServedWhenKept`: as long as nobody
   deletes an Ingress or gives up a default backend (`NoneDropped`, of every step), the only
   default backend there is gets served. The invariant `KeptInv` says why: no key of a missing
   object is queued, so `clearConf` never runs, and the object in hand asks for a default
   backend only if the current one does. `HttpsServedWhenIssued`, for distinct files: where a
   certificate is issued before the servers of its Ingress are rendered (`IssuedFirst`, of every
   `Rules` step), a settled Ingress is served over https with it. The first attempt creates the
   `Certificate` and fails, so cert-manager usually has until the retry; a slow one, or a change
   of the host names, whose reconcile finds the old Secret, is what `reconcile_https` shows.
   Both conditions were checked by TLC, with restarts, before the proofs.

`Certificates_proof`, for any Ingresses, hosts, Secrets and specifications:

1. `TypeCorrect`. `Entry` is applied only inside its domain, which is part of the type
   invariant.
2. `OwnPairAlways`. What nginx serves was in the files when it loaded, so the invariant follows
   a certificate from the Secret to the server: a host's file holds only what was named for it
   (`FileInv`), the parts written so far are the entry's (`FlawInv`), and every server refers to
   its own host's or Ingress's pair, unless a Secret that lacked a part is on record (`RefInv`).
   Mismatched Secrets are no exception.
3. `GoodSecretsAlways`. `PairsInv` adds that outside of the pair being written every pair
   referred to is complete and matching, and that the pair being written holds, in the parts
   done, the data that was read.
4. `FilesServedAlways`: a change of the files, complete or half written, leaves an event or a
   signal to handle, and handling one loads the files unless nginx refuses them. Faults and
   broken Secrets are not excluded.

`Backends_proof`, for objects with any number of rules and paths, any requests and any relation of
prefixes and regular expressions among them, from the assumptions of `Annotations` and `Backends`
(`RequestsAssumption` says that of two prefixes of one request of the same length both are one):

1. `TypeCorrect`: every rendered location of a Service has a port, and proxies to Services that
   exist.
2. `RoutedAlways`. The invariant is a chain: what `Extract` leaves behind of the weights, what
   `Configure` checked of every path it rendered, and what `Test` found of the file. `LocationFound`
   says what nginx's choice amounts to (`Greatest`: among finitely many prefixes one is longest),
   `RowsOf` what the locations of a server are, `TakesAsks` that a location takes the requests its
   path asks for; `BestTaken` puts them together for one rule, by cases: a proxy with a regular
   expression, a path with one, or prefixes only.
3. `AccessAlways`: what `allow` and `deny` make of a client, in the order of the file, and that
   only requests they admit get to a Service or the proxy.

`Backends_served_proof`, on top of it, for any number of rules, paths, weights and Services:

1. `ExactlyAlways`: the chain of checks serves exactly the `Servable` objects, where `Servable` is
   the conjunction of what the code's checks come to. That is a summary of the code, and no
   property of a run; the two theorems below compare it with what the object should get. The
   proof goes in three parts. What each check accepts is said by a lemma (`ServicesFine`,
   `AnnotationsFine`, `WeightsFineExactly`, `ConfigureFine`), and what `nginx -t` accepts of the
   rendered servers by `NginxExactly`: the locations of a server are the redirect's, the proxy's
   and those of the used paths (`Rendering`), so each conjunct of `NginxAccepts` comes down to
   one about the object. `ChecksAreServable` shows that all checks together are
   `ServableRules`, without weights (`PlainPass`), with them (`WeightedPass`) and without rules
   (`DefaultPass`). `Chain` is the inductive invariant: the checks before the present step have
   passed, and an object that ended was stopped by one that fails.
2. `SoundIsServedAlways`: a sound object is `Servable` (`SoundIsServable`).
3. `ServedIsSoundAlways`: from `ChainHolds`, an object whose servers are written has passed the
   checks, and they imply each conjunct.
4. `PortExposedWhenNamed`: where every port of a Service has a name, and a backend gives its
   port by number or by name, as the API server has it, an object is served only with ports its
   Services have. What `backends_ports` finds is therefore due to unnamed ports alone, which
   Kubernetes allows a Service with a single port.

`StartedInv` and `Chain` were also checked by TLC on the instances of `reload_liveness` and
`backends_served`, before they were proved.

Only model-checked: the liveness properties (the three `Converges`), since fairness is out of
the prover's reach. The other negative results are single counterexamples. `Min` and `Max` of
`Backends` are the `CHOOSE` of the community modules, so the proofs need no recursion.

## Not modelled

* The text of headers, timeouts, TLS parameters, stapling and CORS directives: nothing the parts
  promise each other depends on it.
* Error classes, deep copies and the manager's flags and wiring: pure data, generated code, and
  configuration of controller-runtime. One worker and no leader election are what `main.go` sets
  up, and the models assume both.
* Two Ingresses with one host: nginx takes the first file's server and warns. `Routed` says so
  for two rules of one object only.
* Ingresses that share a file name, beyond stating that the theorems exclude them.
* Deployment files and scaffolded tests.

`PROJECT.json` lists each part with its status, and each hazard with the properties that cover
it.

## Plan

Done: the modules above, their runs and proofs. What is left, in this order:

1. Start-up as an abstract component: from container start to `Ready`, with what is promised to
   objects applied meanwhile.
2. A composition of `Certificates` with the steps of `ConfReload`, in which a certificate is
   overwritten while a configuration is on trial.
3. Hosts shared by two Ingresses: which one nginx serves, and what a deletion of the first does
   to the second.
4. Proofs: variants that the worker's and the watchers' steps decrease, so that of each
   `Converges` only fairness is left to TLC. That nothing valid is refused on the way is proved
   (`HealthyIsNotRefused`, `NoFalseRejectAlways`, `GoodSecretsAlways`).
