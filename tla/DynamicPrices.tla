---------------------------- MODULE DynamicPrices ----------------------------
(***************************************************************************)
(* The dynamic prices of a site: refresh_provider_prices() and             *)
(* extractPriceData() of solixapi/apibase.py, with the poll of the site    *)
(* details, the selection of a provider (select.py) and the customized fee.*)
(*                                                                         *)
(* The account keeps one table of spot prices per provider, fetched once   *)
(* per hour at most; a site keeps the prices calculated from the table of  *)
(* its provider with its own fee, and the price of the current hour.  The  *)
(* provider of an owned site is a setting of the cloud, that of a shared   *)
(* one a customization.  The poll and a selection run concurrently.        *)
(*                                                                         *)
(* Time passes in hours; a price is told by its provider, its fee and the  *)
(* hour it is for.                                                         *)
(***************************************************************************)
EXTENDS Integers

CONSTANTS
  Providers,        \* price providers
  SpotProviders,    \* those whose prices the fee is added to: Nordpool
  PriceHours,       \* hours of a day
  PriceEnd,         \* the last hour
  Fees,             \* fees a user can set
  MaxPriceCalls,    \* bound on selections, changes of the fee and by the app
  MaxPriceFaults    \* bound on requests that fail

ASSUME PriceAssumption ==
  SpotProviders \subseteq Providers /\ PriceHours \in Nat \ {0}

VARIABLES
  now,              \* the current hour
  owned,            \* site_admin
  setting,          \* the provider the cloud knows
  siteProvider,     \* site_details["dynamic_price"]
  custom,           \* customized["dynamic_price"]
  fee,              \* customized["dynamic_price_fee"]
  tables,           \* price_details_<provider> of the account
  prices,           \* dynamic_price_details of the site
  jobs,             \* the poll and the selection under way
  restored,         \* the select entity was added
  priceCalls, priceFaults \* counters for the bounds

priceVars == <<now, owned, setting, siteProvider, custom, fee, tables, prices,
               jobs, restored, priceCalls, priceFaults>>

NoProvider == "none"   \* -/-/-
NoTime == -1           \* no time stamp
NoTable == [poll |-> NoTime]
NoPrice == [hour |-> NoTime]
NoList == [from |-> 0, to |-> 0]
NoJob == [at |-> "idle"]
Tasks == {"poll", "select"}

Midnights(h) == (h \div PriceHours) * PriceHours
Active == IF siteProvider # NoProvider THEN siteProvider ELSE custom
TableOf(p) == IF p \in Providers THEN tables[p] ELSE NoTable

(***************************************************************************)
(* extractPriceData().                                                     *)
(***************************************************************************)
\* dynamic_price_details before anything was calculated.
NoPrices == [known |-> FALSE, provider |-> NoProvider, poll |-> NoTime,
             list |-> NoList, total |-> NoPrice, at |-> NoTime]

\* Faulty: a calculation for another provider is kept while no newer table came.
RecalculatesLate(old, p, table, force) == force \/ old.poll < table.poll

\* Prices are calculated again with a newer table or for another provider.
Recalculates(old, p, table, force) ==
  force \/ old.poll < table.poll \/ old.provider # p

\* The forecast: all of the day of the table, and the next one if it was there.
List(p, table, with) ==
  [from |-> Midnights(table.poll),
   to |-> Midnights(table.poll) + IF table.tomorrow THEN 2 * PriceHours
                                                    ELSE PriceHours,
   provider |-> p, fee |-> IF p \in SpotProviders THEN with ELSE 0]

\* The last slot that has begun.
PriceNow(list) ==
  IF list = NoList \/ now < list.from THEN NoPrice
  ELSE [hour |-> IF now < list.to THEN now ELSE list.to - 1,
        provider |-> list.provider, fee |-> list.fee]

\* The site is one with prices, or the poll of its details makes it one.
Extracted(old, p, table, with, force, initialize) ==
  IF ~old.known /\ ~initialize THEN [NoPrices EXCEPT !.known = TRUE]
  ELSE IF table = NoTable
    THEN [NoPrices EXCEPT !.known = TRUE, !.provider = p, !.at = now]
  ELSE LET again == Recalculates(old, p, table, force)
           list == IF again THEN List(p, table, with) ELSE old.list
       IN [known |-> TRUE, provider |-> p, list |-> list,
           poll |-> IF again THEN table.poll ELSE old.poll,
           total |-> PriceNow(list), at |-> now]

\* poll_sites(), for sites that have prices.
ExtractPrice ==
  /\ prices.known
  /\ prices' = Extracted(prices, Active, TableOf(Active), fee, FALSE, FALSE)
  /\ UNCHANGED <<now, owned, setting, siteProvider, custom, fee, tables, jobs,
                 restored, priceCalls, priceFaults>>

\* customizeCacheId(): a fee or a provider calculates the prices again.
Customized(old, p, table, with) == Extracted(old, p, table, with, TRUE, FALSE)

(***************************************************************************)
(* Jobs: the poll of the site details, the selection of a provider and the *)
(* restored selection of an entity that was added.                         *)
(***************************************************************************)
\* refresh_provider_prices() asks once per hour.
Due(p) == p \in Providers /\ tables[p].poll # now

\* What follows the refresh: the poll extracts, a selection sets the provider
\* of an owned site first, and every selection is customized.
Proceed(task, job, table) ==
  IF task = "poll"
    THEN /\ prices' = Extracted(prices, Active, table[Active], fee, FALSE, TRUE)
         /\ jobs' = [jobs EXCEPT ![task] = NoJob]
         /\ UNCHANGED <<siteProvider, custom, setting>>
  ELSE IF job.kind = "owner" /\ job.at = "prices"
    THEN /\ jobs' = [jobs EXCEPT ![task] = [job EXCEPT !.at = "setting"]]
         /\ UNCHANGED <<siteProvider, custom, setting, prices>>
  ELSE LET site == IF job.kind = "owner" THEN job.provider ELSE siteProvider
           p == IF site # NoProvider THEN site ELSE job.provider
       IN /\ custom' = job.provider
          /\ siteProvider' = site
          /\ setting' = IF job.kind = "owner" THEN job.provider ELSE setting
          /\ prices' = Customized(prices, p, table[p], fee)
          /\ jobs' = [jobs EXCEPT ![task] = NoJob]

AllTables == [p \in Providers \cup {NoProvider} |-> TableOf(p)]

Begin(task, kind, p) ==
  LET job == [at |-> "prices", kind |-> kind, provider |-> p, now |-> now]
  IN /\ jobs[task] = NoJob
     /\ IF Due(p)
          THEN /\ jobs' = [jobs EXCEPT ![task] = job]
               /\ UNCHANGED <<siteProvider, custom, setting, prices>>
          ELSE Proceed(task, job, AllTables)
     /\ UNCHANGED <<now, owned, fee, tables, priceFaults>>

\* poll_site_details(): the site price tells the provider of an owned site.
PollPrices ==
  /\ Begin("poll", "poll", Active)
  /\ UNCHANGED <<restored, priceCalls>>

SelectProvider ==
  /\ prices.known /\ restored
  /\ priceCalls < MaxPriceCalls /\ priceCalls' = priceCalls + 1
  /\ \E p \in Providers : Begin("select", IF owned THEN "owner" ELSE "member", p)
  /\ UNCHANGED restored

\* async_added_to_hass() of the select entity.
RestoreProvider ==
  /\ prices.known /\ ~restored /\ restored' = TRUE
  /\ \E p \in Providers : Begin("select", "member", p)
  /\ UNCHANGED priceCalls

AnswerPrices(task) ==
  LET job == jobs[task]
  IN /\ job.at = "prices"
     /\ \E tomorrow \in BOOLEAN :
          LET table == [poll |-> job.now, tomorrow |-> tomorrow]
          IN /\ tables' = [tables EXCEPT ![job.provider] = table]
             /\ Proceed(task, job, [AllTables EXCEPT ![job.provider] = table])
     /\ UNCHANGED <<now, owned, fee, restored, priceCalls, priceFaults>>

\* set_site_price() of an owned site has read the site price back.
AnswerSetting ==
  LET job == jobs.select
  IN /\ job.at = "setting"
     /\ Proceed("select", job, AllTables)
     /\ UNCHANGED <<now, owned, fee, tables, restored, priceCalls, priceFaults>>

FailPrices(task) ==
  /\ jobs[task] # NoJob
  /\ priceFaults < MaxPriceFaults
  /\ priceFaults' = priceFaults + 1
  /\ jobs' = [jobs EXCEPT ![task] = NoJob]
  /\ UNCHANGED <<now, owned, setting, siteProvider, custom, fee, tables, prices,
                 restored, priceCalls>>

(***************************************************************************)
(* The other steps.                                                        *)
(***************************************************************************)
SetFee ==
  /\ priceCalls < MaxPriceCalls /\ priceCalls' = priceCalls + 1
  /\ \E f \in Fees \ {fee} :
       /\ fee' = f
       /\ prices' = Customized(prices, Active, TableOf(Active), f)
  /\ UNCHANGED <<now, owned, setting, siteProvider, custom, tables, jobs,
                 restored, priceFaults>>

\* The owner selects another provider in the app.
ChangeSetting ==
  /\ owned
  /\ priceCalls < MaxPriceCalls /\ priceCalls' = priceCalls + 1
  /\ \E p \in Providers \ {setting} : setting' = p
  /\ UNCHANGED <<now, owned, siteProvider, custom, fee, tables, prices, jobs,
                 restored, priceFaults>>

\* get_site_price() of the poll, before it refreshes the prices.
ReadSetting ==
  /\ owned /\ siteProvider # setting
  /\ siteProvider' = setting
  /\ UNCHANGED <<now, owned, setting, custom, fee, tables, prices, jobs,
                 restored, priceCalls, priceFaults>>

\* A request takes less than an hour.
PassPriceHour ==
  /\ now < PriceEnd
  /\ \A t \in Tasks : jobs[t] # NoJob => jobs[t].now = now
  /\ now' = now + 1
  /\ UNCHANGED <<owned, setting, siteProvider, custom, fee, tables, prices, jobs,
                 restored, priceCalls, priceFaults>>

PriceInit ==
  /\ now = 0 /\ owned \in BOOLEAN
  /\ setting \in IF owned THEN Providers \cup {NoProvider} ELSE {NoProvider}
  /\ siteProvider = NoProvider /\ custom = NoProvider /\ fee \in Fees
  /\ tables = [p \in Providers |-> NoTable]
  /\ prices = NoPrices
  /\ jobs = [t \in Tasks |-> NoJob]
  /\ restored = FALSE /\ priceCalls = 0 /\ priceFaults = 0

PriceNext ==
  \/ ExtractPrice \/ PollPrices \/ SelectProvider \/ RestoreProvider
  \/ AnswerSetting \/ SetFee \/ ChangeSetting \/ ReadSetting \/ PassPriceHour
  \/ \E t \in Tasks : AnswerPrices(t) \/ FailPrices(t)

PriceSpec == PriceInit /\ [][PriceNext]_priceVars

(***************************************************************************)
(* Properties.                                                             *)
(***************************************************************************)
\* The price shown is one of the provider it is shown for, with the current
\* fee, and was that of the hour when it was extracted, except after a day
\* whose table came without the next day: then the last slot stays.
PriceShownTrue ==
  (prices.known /\ prices.total # NoPrice) =>
    LET total == prices.total
    IN /\ total.provider = prices.provider
       /\ total.fee = IF prices.provider \in SpotProviders THEN fee ELSE 0
       /\ (prices.at < prices.list.to => total.hour = prices.at)
       /\ prices.list.from = Midnights(prices.poll)
=============================================================================
