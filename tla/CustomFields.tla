------------------------------ MODULE CustomFields ------------------------------
(***************************************************************************)
(* Custom field values and the links they are inherited along              *)
(* (ralph.lib.custom_fields, and the models of ralph.virtual and           *)
(* ralph.data_center that have custom_fields_inheritance).                 *)
(*                                                                         *)
(* A value is stored at one object.  What an object shows for a field is   *)
(* its own value or, without one, that of the first of its links that has  *)
(* one.  A form that sets a value may delete the values of everything that *)
(* inherits from the object.  A request is a transaction: the deletes of   *)
(* such a form, and the two halves of a request that changes a cloud host, *)
(* are steps of their own, since other requests commit in between.         *)
(***************************************************************************)
EXTENDS Naturals, FiniteSets, Sequences

CONSTANTS
  CloudHost, Asset, Project, Env, Class, Module,   \* the ids of the objects
  ModuleOf,     \* the module of a class, which the admin and the API do not change
  Field, Value,
  MaxRows,      \* how many values are stored at a time
  MaxMeanwhile, \* how many objects others change while a form is under way
  MaxRequests,  \* how many requests of several steps are under way at a time
  None

Ids == [cloudhost |-> CloudHost, asset |-> Asset, project |-> Project,
        env |-> Env, class |-> Class, module |-> Module]
Types == DOMAIN Ids
Objects == UNION {{t} \X Ids[t] : t \in Types}

Row == [at : Objects, field : Field, value : Value]
\* A form under way: its value and the field its row was for, the models whose values it
\* has yet to delete, the rows that go, and the hosts that are saved with the project.
Form == [at : Objects, was : Field, field : Field, value : Value, todo : SUBSET Types,
         gone : SUBSET Row, hosts : SUBSET CloudHost]
Patch == [host : CloudHost, project : Project \cup {None}, env : Env \cup {None},
          class : Class \cup {None}]

\* The tables of all types but modules extend that of BaseObject and share its ids.
ASSUME ObjectsAssumption ==
  /\ CloudHost \cap (Asset \cup Project \cup Env \cup Class) = {}
  /\ Asset \cap (Project \cup Env \cup Class) = {}
  /\ Project \cap (Env \cup Class) = {} /\ Env \cap Class = {}
  /\ ModuleOf \in [Class -> Module]
  /\ MaxRows \in Nat /\ MaxMeanwhile \in Nat /\ MaxRequests \in Nat
  /\ None \notin Value \cup CloudHost \cup Asset \cup Project \cup Env \cup Class \cup Module
  /\ None \notin Form \cup Patch

VARIABLES
  rows,      \* CustomFieldValue: where it is stored, its field and its value
  project,   \* the cloud project that is a host's parent
  env,       \* service_env of hosts, assets and projects
  class,     \* configuration_path of hosts and assets
  form,      \* the form under way that clears what inherits from its object
  patch,     \* the request under way that changes a cloud host
  touched,   \* observer: objects others have changed since the form began
  late       \* observer: hosts that were saved with what had been the project's env

vars == <<rows, project, env, class, form, patch, touched, late>>

custom_fields_inheritance ==
  [cloudhost |-> <<"project", "class", "module", "env">>,
   asset |-> <<"class", "module", "env">>,
   project |-> <<"env">>,
   env |-> <<>>, class |-> <<>>, module |-> <<>>]

\* The object a path of custom_fields_inheritance leads to.
Target(x, path) ==
  CASE path = "project" -> project[x[2]]
    [] path = "env" -> env[x[2]]
    [] path = "class" -> class[x[2]]
    [] path = "module" -> IF class[x[2]] = None THEN None ELSE ModuleOf[class[x[2]]]

Paths(type) == {custom_fields_inheritance[type][i] : i \in DOMAIN custom_fields_inheritance[type]}
Links(x) == {x} \cup {<<p, Target(x, p)>> : p \in {q \in Paths(x[1]) : Target(x, q) # None}}
Heirs(o) == {x \in Objects : x # o /\ o \in Links(x)}

--------------------------------------------------------------------------------
(* What is read. *)

\* The place of a content type in the list of the model that is read.
Priority(model, type) ==
  IF type = model THEN 0
  ELSE CHOOSE i \in DOMAIN custom_fields_inheritance[model] :
         custom_fields_inheritance[model][i] = type

_prioritize_custom_field_values(R, model) ==
  {r \in R : \A q \in R :
     q.field = r.field => Priority(model, r.at[1]) <= Priority(model, q.at[1])}

\* obj.custom_fields: one query for the object and what its paths lead to.
custom_fields(x) == _prioritize_custom_field_values({r \in rows : r.at \in Links(x)}, x[1])

\* The query of a prefetch asks for the types and for the ids, not for their pairs.
Fetched(X) ==
  LET pairs == UNION {Links(x) : x \in X}
      model == (CHOOSE x \in X : TRUE)[1]
  IN {r \in rows : /\ r.at[1] \in {model} \cup Paths(model)
                   /\ r.at[2] \in {y[2] : y \in pairs}}

\* Mutant: whatever has the id of one of the links.
AssignedById(x, R) == {r \in R : r.at[2] \in {y[2] : y \in Links(x)}}

Assigned(x, R) == {r \in R : r.at \in Links(x)}

get_prefetch_queryset(X) ==
  [x \in X |-> _prioritize_custom_field_values(Assigned(x, Fetched(X)), x[1])]

\* ?customfield__<field>=<value>, for the objects of a type.
filter_queryset(type, f, v) ==
  {x \in Objects : x[1] = type /\ \E r \in rows : r.at = x /\ r.field = f /\ r.value = v}

--------------------------------------------------------------------------------
(* What is written. *)

NoRow(o, f) == ~\E r \in rows : r.at = o /\ r.field = f

\* Mutant: only from the row it has written.
LockedWritten(o, f) == form # None /\ o = form.at /\ f = form.field

\* A form under way keeps other transactions from the rows it has written and deleted.
Locked(o, f) ==
  form # None /\ \/ o = form.at /\ f = form.field
                 \/ \E r \in form.gone : r.at = o /\ r.field = f

Touch(X) ==
  IF form = None THEN touched' = touched
  ELSE touched' = touched \cup X /\ Cardinality(touched) < MaxMeanwhile

Init ==
  /\ rows = {} /\ form = None /\ patch = None /\ touched = {} /\ late = {}
  /\ project = [h \in CloudHost |-> None]
  /\ env = [x \in CloudHost \cup Asset \cup Project |-> None]
  /\ class = [x \in CloudHost \cup Asset |-> None]

MayBegin == Cardinality({i \in 1..2 : <<form, patch>>[i] # None}) < MaxRequests

\* A value added by the API or by a form.
Create(o, f, v) ==
  /\ NoRow(o, f) /\ ~Locked(o, f) /\ Cardinality(rows) < MaxRows
  /\ rows' = rows \cup {[at |-> o, field |-> f, value |-> v]}
  /\ Touch({o})
  /\ UNCHANGED <<project, env, class, form, patch, late>>

\* A value, and perhaps the field it is for, changed by the API or by a form.
Update(r, f, v) ==
  /\ r.field = f \/ NoRow(r.at, f)
  /\ ~Locked(r.at, r.field) /\ ~Locked(r.at, f)
  /\ rows' = (rows \ {r}) \cup {[at |-> r.at, field |-> f, value |-> v]}
  /\ Touch({r.at})
  /\ UNCHANGED <<project, env, class, form, patch, late>>

Destroy(r) ==
  /\ ~Locked(r.at, r.field)
  /\ rows' = rows \ {r}
  /\ Touch({r.at})
  /\ UNCHANGED <<project, env, class, form, patch, late>>

\* Mutant: only by the first of their paths.
FirstModels(type) ==
  {m \in Types : Paths(m) # {} /\ custom_fields_inheritance[m][1] = type}

\* The models that inherit from a type, by custom_fields_inheritance_by_model.
Models(type) == {m \in Types : type \in Paths(m)}

\* A form with "Clear children values?": the row is written first, a new one or that of
\* a field, which may change to another.  Saving a project, as the form does, also
\* writes its hosts.
SaveForm(o, was, f, v) ==
  /\ form = None /\ MayBegin /\ Models(o[1]) # {}
  /\ was = f \/ NoRow(o, f)
  /\ NoRow(o, was) => was = f /\ Cardinality(rows) < MaxRows
  /\ form' = [at |-> o, was |-> was, field |-> f, value |-> v, todo |-> Models(o[1]),
              gone |-> {r \in rows : r.at = o /\ r.field = was},
              hosts |-> IF o[1] = "project" THEN {h \in CloudHost : project[h] = o[2]} ELSE {}]
  /\ touched' = {}
  /\ UNCHANGED <<rows, project, env, class, patch, late>>

\* The values of one model that are deleted.
Descendants(m) ==
  {r \in rows : /\ r.field = form.field
                /\ r.at[1] = m /\ Target(r.at, form.at[1]) = form.at[2]}

clear_children_custom_field_value(m) ==
  /\ form # None /\ m \in form.todo
  /\ form' = [form EXCEPT !.todo = @ \ {m}, !.gone = @ \cup Descendants(m)]
  /\ UNCHANGED <<rows, project, env, class, patch, touched, late>>

\* Mutant: they do not.
WithoutChildren(p, e, H) == [env EXCEPT ![p] = e]

\* The children of a project get its env when it is saved.
WithChildren(p, e, H) == [x \in DOMAIN env |-> IF x = p \/ x \in H THEN e ELSE env[x]]

CommitForm ==
  /\ form # None /\ form.todo = {}
  /\ rows' = (rows \ form.gone)
               \cup {[at |-> form.at, field |-> form.field, value |-> form.value]}
  /\ env' = IF form.at[1] = "project"
            THEN WithChildren(form.at[2], env[form.at[2]], form.hosts) ELSE env
  /\ late' = late \ form.hosts
  /\ form' = None /\ touched' = {}
  /\ UNCHANGED <<project, class, patch>>

\* The form of an asset.
SaveAsset(a, e, c) ==
  /\ env' = [env EXCEPT ![a] = e] /\ class' = [class EXCEPT ![a] = c]
  /\ Touch({<<"asset", a>>})
  /\ UNCHANGED <<rows, project, form, patch, late>>

\* CloudProject.save with update_service_env_on_cloudproject_save.
SaveProject(p, e) ==
  /\ form # None => form.at # <<"project", p>>
  /\ LET children == {h \in CloudHost : project[h] = p}
     IN /\ env' = WithChildren(p, e, children)
        /\ late' = late \ children
        /\ Touch({<<"project", p>>} \cup {<<"cloudhost", h>> : h \in children})
  /\ UNCHANGED <<rows, project, class, form, patch>>

\* A request, or a run of openstack_sync, reads the host and the parent it will have.
\* A parent decides about the env; without one it is what the request says.
ReadHost(h, p, e, c) ==
  /\ patch = None /\ MayBegin
  /\ patch' = [host |-> h, project |-> p, class |-> c,
               env |-> IF p = None THEN e ELSE env[p]]
  /\ UNCHANGED <<rows, project, env, class, form, touched, late>>

\* CloudHost.save copies the env from the parent that was read.
SaveHost ==
  /\ patch # None
  /\ form # None => patch.host \notin form.hosts
  /\ project' = [project EXCEPT ![patch.host] = patch.project]
  /\ env' = [env EXCEPT ![patch.host] = patch.env]
  /\ class' = [class EXCEPT ![patch.host] = patch.class]
  /\ late' = IF patch.project # None /\ env[patch.project] # patch.env
             THEN late \cup {patch.host} ELSE late \ {patch.host}
  /\ patch' = None
  /\ Touch({<<"cloudhost", patch.host>>})
  /\ UNCHANGED <<rows, form>>

Next ==
  \/ \E o \in Objects, f \in Field, v \in Value :
        Create(o, f, v) \/ \E was \in Field : SaveForm(o, was, f, v)
  \/ \E r \in rows : Destroy(r) \/ \E f \in Field, v \in Value : Update(r, f, v)
  \/ \E m \in Types : clear_children_custom_field_value(m)
  \/ CommitForm
  \/ \E a \in Asset, e \in Env \cup {None}, c \in Class \cup {None} : SaveAsset(a, e, c)
  \/ \E p \in Project, e \in Env \cup {None} : SaveProject(p, e)
  \/ \E h \in CloudHost, p \in Project \cup {None}, e \in Env \cup {None},
        c \in Class \cup {None} : ReadHost(h, p, e, c)
  \/ SaveHost

Spec == Init /\ [][Next]_vars

--------------------------------------------------------------------------------
(* Properties. *)

\* Types; an object has one value for a field.
TypeOK ==
  /\ rows \subseteq Row
  /\ \A r, q \in rows : r.at = q.at /\ r.field = q.field => r = q
  /\ project \in [CloudHost -> Project \cup {None}]
  /\ env \in [CloudHost \cup Asset \cup Project -> Env \cup {None}]
  /\ class \in [CloudHost \cup Asset -> Class \cup {None}]
  /\ form # None => form \in Form /\ form.gone \subseteq rows
  /\ patch # None => patch \in Patch
  /\ touched \subseteq Objects /\ late \subseteq CloudHost

\* The values an object has by the description of CustomFieldsWithInheritanceRelation:
\* its own, then those of the first link that has one.
Nearest(x) ==
  LET chain == <<x[1]>> \o custom_fields_inheritance[x[1]]
      At(i) == IF i = 1 THEN x ELSE <<chain[i], Target(x, chain[i])>>
      Held(i, f) == {r \in rows : r.at = At(i) /\ r.field = f}
      First(f) == CHOOSE i \in DOMAIN chain :
                    Held(i, f) # {} /\ \A j \in 1..(i - 1) : Held(j, f) = {}
  IN UNION {Held(First(f), f) : f \in {g \in Field : \E i \in DOMAIN chain : Held(i, g) # {}}}

\* However an object is read, alone or in a list of its like, it shows for every
\* field the value of the nearest object that has one (fields.py), though a list is
\* fetched by types and ids apart and a module may have the id of any other object.
\* What the API finds by a value shows that value.  (api/filters.py)
ReadsAgree ==
  /\ \A t \in {u \in Types : Paths(u) # {}} :
       \A X \in (SUBSET {x \in Objects : x[1] = t}) \ {{}} :
         \A x \in X : /\ custom_fields(x) = Nearest(x)
                      /\ get_prefetch_queryset(X)[x] = Nearest(x)
  /\ \A t \in Types, f \in Field, v \in Value :
       \A x \in filter_queryset(t, f, v) :
         \E r \in Nearest(x) : r.field = f /\ r.value = v

\* A host has the env of its project (virtual/models.py), except one that was saved
\* with what the project's env had been when the request began.
HostsFollowProject ==
  \A h \in CloudHost : project[h] # None /\ h \notin late => env[h] = env[project[h]]

CommitsForm == form # None /\ form' = None

\* Everything that inherits from the object of the form shows the new value, except
\* where a link that comes first and does not itself inherit from that object has
\* another, or where others have changed something meanwhile.
Reached(x) ==
  \E r \in Nearest(x)' :
    /\ r.field = form.field
    /\ \/ r.at = form.at /\ r.value = form.value
       \/ r.at # x /\ form.at \notin Links(r.at)
       \/ {x, r.at} \cap touched # {}

\* Nothing goes but the row that was written over, and the values of its field that
\* objects have that inherit from its object, or did when the delete came to them.
Deletable(r) ==
  \/ r.at = form.at /\ r.field = form.was
  \/ r.at \in Heirs(form.at) \cup touched /\ r.field = form.field

\* A form that clears reaches all that inherits and spares the rest, whatever other
\* requests do between its deletes.  (clear_children_custom_field_value)
ClearsWhatInherits ==
  [][CommitsForm => /\ \A x \in Heirs(form.at) : Reached(x)
                    /\ \A r \in rows \ rows' : Deletable(r)]_vars
================================================================================
