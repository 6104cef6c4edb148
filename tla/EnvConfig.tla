------------------------------ MODULE EnvConfig ------------------------------
(***************************************************************************)
(* The layers a setting's value comes from: the repository's .env, the     *)
(* managed .env the admin page writes (api/admin_config.py), an explicit   *)
(* file and the process environment, whose values the page cannot change.  *)
(* The page reads them in one way and Settings (config/settings.py) in     *)
(* another: under them the page has the template and Settings its own      *)
(* defaults, and one key Settings would rather have from a file.           *)
(***************************************************************************)
EXTENDS Integers, FiniteSets, Functions

CONSTANTS
  Keys,        \* FIELDS
  Secrets,     \* those whose value the page shows as Masked
  Sensitive,   \* restart_required or session_sensitive
  DotenvFirst, \* ANTHROPIC_AUTH_TOKEN
  Values, BadValues,   \* BadValues: what Settings does not accept
  Absent, Masked,
  Template,    \* [Keys -> Values]: template_values
  Defaults     \* [Keys -> Values]: of the fields of Settings

ASSUME ConfigAssumption ==
  /\ Secrets \cup Sensitive \cup DotenvFirst \subseteq Keys
  /\ Masked \notin Values /\ Absent \notin Values \cup BadValues \cup {Masked}
  /\ Template \in [Keys -> Values] /\ Defaults \in [Keys -> Values]

\* A layer, by key; layers is [repo, managed, explicit, process].
Files == [Keys -> Values \cup BadValues \cup {Masked, Absent}]

EmptyFile == [k \in Keys |-> Absent]

Locked(layers, k) == layers.process[k] # Absent \/ layers.explicit[k] # Absent

Or(value, below) == IF value # Absent THEN value ELSE below

\* The files, the later over the earlier.
Dotenv(layers, k) == Or(layers.explicit[k], Or(layers.managed[k], layers.repo[k]))

\* _load_value_state: what the page takes for the values in effect.
Shown(layers) ==
  [k \in Keys |-> Or(layers.process[k], Or(Dotenv(layers, k), Template[k]))]

\* Settings(), with prefer_dotenv_anthropic_auth_token.
SettingsOf(layers) ==
  [k \in Keys |->
     Or(IF k \in DotenvFirst THEN Or(Dotenv(layers, k), layers.process[k])
        ELSE Or(layers.process[k], Dotenv(layers, k)),
        Defaults[k])]

\* What the new managed file starts from: the old one, or where there is none the
\* values that are not locked.
Seed(layers) ==
  [k \in Keys |->
     IF layers.managed # EmptyFile THEN Or(layers.managed[k], Template[k])
     ELSE IF Locked(layers, k) THEN Template[k] ELSE Shown(layers)[k]]

\* Faulty variant: a secret that was only shown is written as it was shown.
WrittenAsShown(layers, updates, k) ==
  k \in DOMAIN updates /\ ~Locked(layers, k)

\* Whether an update of a key is taken.
Written(layers, updates, k) ==
  /\ k \in DOMAIN updates
  /\ ~Locked(layers, k)
  /\ ~(k \in Secrets /\ updates[k] = Masked)

\* _target_values_with_updates: every key of the new managed file.
Target(layers, updates) ==
  [k \in Keys |-> IF Written(layers, updates, k) THEN updates[k] ELSE Seed(layers)[k]]

\* validate_updates: of the values that will be shown; a token is any text.
Valid(layers, updates) ==
  \A k \in Keys \ DotenvFirst :
    Shown([layers EXCEPT !.managed = Target(layers, updates)])[k] \notin BadValues

\* changed_pending_fields: also a locked field, or a secret sent back as shown.
Pending(layers, updates) ==
  {k \in DOMAIN updates \cap Sensitive : updates[k] # Shown(layers)[k]}
=============================================================================
