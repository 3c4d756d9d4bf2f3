\* Two requests and the poller for each topic; two takeovers or releases at a time.
\* Requests do to the other lists nothing that they do not do to snapshots.
SPECIFICATION RequestsSpec
CONSTANTS
    Handlers = {h1, h2}
    NilPublisher = TRUE
    MaxVersion = 2
    Calls = {c1, c2}
    Timers = {t1, t2}
    NoRecord = NoRecord
    MaxCalls = 3
    Topics = {"snapshots", "accounts", "autosnap"}
INVARIANTS
    StaleOnlyIfOvertaken
    BrowserBehind
    OneInCharge
    ReleaseRestores
PROPERTIES
    ChangeIsPublished
    AccountsInOrder
