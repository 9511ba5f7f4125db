------------------------- MODULE CloudwatchCatalog -------------------------
(***************************************************************************)
(* ATTACH 'cloudwatch:' (src/src/cloudwatch_catalog.cpp) discovers the log *)
(* groups of the account behind a DuckDB secret                            *)
(* (src/src/cloudwatch_secret.cpp) and makes a table of each.  Later       *)
(* statements look a table up by name and read its group, while groups and *)
(* secrets come and go.                                                    *)
(***************************************************************************)
EXTENDS Selections

CONSTANTS
  Names,       \* names of groups, in the order the service lists them
  Fold,        \* the lower-case form of each name
  Secrets,     \* names of secrets; a name stands for one account throughout
  SecretType,  \* the type of each: "aws", "s3" or another
  SecretRegion,\* the region each names; None if it names none
  Regions,     \* regions
  EnvRegion,   \* AWS_REGION or AWS_DEFAULT_REGION; None if not set
  Offers,      \* the LOG_GROUPS options to look at: sequences of names
  None,        \* no LOG_GROUPS option, no secret, no region, no table
  GroupLimit,  \* the `limit' of DescribeLogGroups
  MaxChanges   \* bound on the changes of groups and of secrets

CatalogAssumption ==
  /\ GroupLimit \in Nat \ {0} /\ MaxChanges \in Nat
  /\ None \notin Secrets /\ None \notin Offers
  /\ Names \in Seq(STRING) /\ IsInjective(Names) /\ Offers \subseteq Seq(STRING)

VARIABLES
  groups,      \* the service: the groups where the catalog is discovered
  secrets,     \* DuckDB's secrets
  s3_region,   \* the setting of that name; None if not set
  changes,     \* changes of these three, against MaxChanges
  phase,       \* "idle", "discovering", "attached" or "failed"
  account,     \* the secret and region of DiscoverLogGroups' client
  secret_name, \* of the catalog's tables
  region,      \* settings.region, the REGION option
  log_groups,  \* DiscoverLogGroups' result, then the tables of schema `logs'
  next_token,  \* its next_token; 0 if empty
  offered,     \* observer: LOG_GROUPS was given
  lasting,     \* observer: the groups that were there all the time of ATTACH
  passing,     \* observer: those that were there at some time of it
  read         \* the last statement: its table's name, what it found and where

external == <<groups, secrets, s3_region, changes>>
attach == <<phase, account, secret_name, region, log_groups, next_token, offered>>
vars == <<external, attach, lasting, passing, read>>

Name == ToSet(Names)
Nowhere == [secret |-> None, region |-> None]
NoRead == [asked |-> None, table |-> None, from |-> Nowhere, said |-> "none"]

Init ==
  /\ groups \in SUBSET Name /\ secrets \in SUBSET Secrets
  /\ s3_region \in Regions \cup {None} /\ changes = 0
  /\ phase = "idle" /\ account = Nowhere
  /\ secret_name = None /\ region = None
  /\ log_groups = << >> /\ next_token = 0 /\ offered = FALSE
  /\ lasting = {} /\ passing = {} /\ read = NoRead

----------------------------------------------------------------------------
(* Other sessions.                                                         *)

\* A group is created or deleted.
ChangeGroups ==
  /\ changes < MaxChanges
  /\ \E g \in Name : groups' = IF g \in groups THEN groups \ {g} ELSE groups \cup {g}
  /\ changes' = changes + 1
  /\ IF phase = "discovering"
     THEN lasting' = lasting \cap groups' /\ passing' = passing \cup groups'
     ELSE UNCHANGED <<lasting, passing>>
  /\ UNCHANGED <<secrets, s3_region, attach, read>>

\* CREATE SECRET, DROP SECRET or SET s3_region.
ChangeSettings ==
  /\ changes < MaxChanges
  /\ \/ /\ \E s \in Secrets :
             secrets' = IF s \in secrets THEN secrets \ {s} ELSE secrets \cup {s}
        /\ UNCHANGED s3_region
     \/ /\ s3_region' \in Regions
        /\ UNCHANGED secrets
  /\ changes' = changes + 1
  /\ UNCHANGED <<groups, attach, lasting, passing, read>>

----------------------------------------------------------------------------
(* Secrets.                                                                *)

Matches(type) == {s \in secrets : SecretType[s] = type}

\* FindAwsSecret: the secrets it may return, none if it throws.  A named one must
\* be there and be of a type that carries AWS credentials; without a name there
\* must be one of type aws, or none of it and one of type s3.
FindAwsSecret(name) ==
  LET wanted == IF Matches("aws") # {} THEN Matches("aws") ELSE Matches("s3")
  IN IF name # None
     THEN {s \in secrets : s = name /\ SecretType[s] \in {"aws", "s3"}}
     ELSE IF Cardinality(wanted) > 1 THEN {} ELSE wanted

\* The first that is given: the statement's region, the secret's, the setting's,
\* the environment's.
Region(explicit, secret) ==
  LET choices == <<explicit, SecretRegion[secret], s3_region, EnvRegion>>
      given == {i \in DOMAIN choices : choices[i] # None}
  IN IF given = {} THEN None ELSE choices[Min(given)]

\* The credentials it may return, none if it throws.
GetCloudwatchCredentials(name, explicit) ==
  {[secret |-> s, region |-> Region(explicit, s)] :
     s \in {s \in FindAwsSecret(name) : Region(explicit, s) # None}}

----------------------------------------------------------------------------
(* ATTACH.                                                                 *)

\* ParseExplicitLogGroups drops a name that was there before.
ParseExplicitLogGroups(names) ==
  Kept(names, {i \in DOMAIN names : \A j \in 1 .. (i - 1) : names[j] # names[i]})

\* Mutant: the tables look the default secret up again.
PinnedNot(name, credentials) == name

\* A catalog attached without a secret keeps the one it was discovered with.
Pinned(name, credentials) == IF name = None THEN credentials ELSE name

\* AttachCloudwatch up to the discovery: an option may be refused, the secret or
\* its region missing.
Attach(name, explicit, offer) ==
  /\ phase = "idle"
  /\ \/ /\ phase' = "failed"
        /\ UNCHANGED <<account, secret_name, region, log_groups, offered, lasting, passing>>
     \/ \E credentials \in GetCloudwatchCredentials(name, explicit) :
          /\ phase' = IF offer = None THEN "discovering" ELSE "attached"
          /\ account' = credentials
          /\ secret_name' = Pinned(name, credentials.secret)
          /\ region' = explicit
          /\ log_groups' = IF offer = None THEN << >> ELSE ParseExplicitLogGroups(offer)
          /\ offered' = (offer # None)
          /\ lasting' = groups /\ passing' = groups
  /\ UNCHANGED <<external, next_token, read>>

\* The service: the groups after the token's; the last page's token is empty or
\* the one it was asked with.
DescribeLogGroups(token) ==
  LET listed == {i \in DOMAIN Names : i > token /\ Names[i] \in groups}
      page == {i \in listed : Cardinality({j \in listed : j <= i}) <= GroupLimit}
      more == IF page # listed THEN {Max(page)} ELSE {0, token}
  IN {[page |-> Kept(Names, page), token |-> t] : t \in more}

\* DiscoverLogGroups, a turn of its loop.
DiscoverLogGroups ==
  /\ phase = "discovering"
  /\ \E response \in DescribeLogGroups(next_token) :
       /\ log_groups' = log_groups \o response.page
       /\ IF response.token = 0 \/ response.token = next_token
          THEN phase' = "attached" /\ UNCHANGED next_token
          ELSE next_token' = response.token /\ UNCHANGED phase
  /\ UNCHANGED <<external, account, secret_name, region, offered, lasting, passing, read>>

DiscoveryFails ==
  /\ phase = "discovering"
  /\ phase' = "failed"
  /\ UNCHANGED <<external, account, secret_name, region, log_groups, next_token,
                 offered, lasting, passing, read>>

----------------------------------------------------------------------------
(* Statements on the attached catalog.                                     *)

\* LookupEntry: the tables it may return, none if there is no such table.  The
\* exact name comes before other spellings of it.
LookupEntry(name) ==
  LET spelled == {i \in DOMAIN log_groups : log_groups[i] = name}
      folded == {i \in DOMAIN log_groups : Fold[log_groups[i]] = Fold[name]}
      found == IF spelled # {} THEN spelled ELSE folded
  IN IF found = {} THEN {} ELSE {log_groups[Min(found)]}

\* SELECT from logs.name: the table, its credentials, and the group there.
Select(name) ==
  LET answer(table, from, said) ==
        read' = [asked |-> name, table |-> table, from |-> from, said |-> said]
  IN /\ phase = "attached"
     /\ \/ LookupEntry(name) = {} /\ answer(None, Nowhere, "no table")
        \/ \E table \in LookupEntry(name) :
             \/ /\ GetCloudwatchCredentials(secret_name, region) = {}
                /\ answer(table, Nowhere, "no credentials")
             \/ \E from \in GetCloudwatchCredentials(secret_name, region) :
                  \/ (from = account => table \in groups) /\ answer(table, from, "rows")
                  \/ (from = account => table \notin groups) /\ answer(table, from, "no group")
     /\ UNCHANGED <<external, attach, lasting, passing>>

Step ==
  \/ \E name \in Secrets \cup {None}, explicit \in Regions \cup {None},
        offer \in Offers \cup {None} : Attach(name, explicit, offer)
  \/ DiscoverLogGroups

Next ==
  \/ Step \/ DiscoveryFails
  \/ ChangeGroups \/ ChangeSettings
  \/ \E name \in Name : Select(name)

Spec == Init /\ [][Next]_vars

----------------------------------------------------------------------------
(* Properties.                                                             *)

\* Discovery, though it is page by page and groups come and go meanwhile, misses
\* no group that is there from ATTACH to its end, invents none and lists none
\* twice.  Afterwards a name reads the group of that spelling when the catalog
\* has one and another spelling only when it has not.  It reads it with the
\* secret the catalog was discovered with, whatever secrets are created or
\* dropped since, and in the same region, unless neither the REGION option nor
\* the secret names one: then it is looked up for each statement again.
CatalogFaithful ==
  /\ phase = "attached" /\ ~offered =>
       lasting \subseteq ToSet(log_groups) /\ ToSet(log_groups) \subseteq passing
  /\ phase = "attached" => IsInjective(log_groups)
  /\ read.said \in {"rows", "no group"} =>
       /\ read.from.secret = account.secret
       /\ region # None \/ SecretRegion[account.secret] # None => read.from = account
       /\ read.asked \in ToSet(log_groups) => read.table = read.asked
       /\ Fold[read.table] = Fold[read.asked]
  /\ read.said = "no table" => \A i \in DOMAIN log_groups : Fold[log_groups[i]] # Fold[read.asked]

=============================================================================
