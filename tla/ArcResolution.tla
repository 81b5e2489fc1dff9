----------------------------- MODULE ArcResolution -----------------------------
(***************************************************************************)
(* From what extraction finds in the files to the arcs of the graph:       *)
(* runtime/arc_resolution.rs, containment.rs, python_import_resolution.rs, *)
(* ts_dependency_resolution.rs.  A text is what extraction finds in it.  A *)
(* node identity hashes path, span and name: here it is the path and a     *)
(* number, which may be that of another item only if the two are one item  *)
(* found twice.  The rule that resolves a use (bind) follows from the      *)
(* language and the tags the extractor gave it, and the files a qualifier  *)
(* allows from the paths: both are data of the text.                       *)
(***************************************************************************)
EXTENDS Integers, FiniteSets, SequencesExt

CONSTANTS
  Parse,  \* [text -> sequence of what it declares, calls and imports]
  Nothing \* no value

(* Every item has its place, its identity and what it is.                  *)
ASSUME ParseAssumption ==
  \A t \in DOMAIN Parse :
    /\ Len(Parse[t]) \in Nat /\ DOMAIN Parse[t] = 1 .. Len(Parse[t])
    /\ \A i \in DOMAIN Parse[t] :
         /\ {"kind", "name", "span", "id", "from"} \subseteq DOMAIN Parse[t][i]
         /\ Parse[t][i].span \in Nat \X Nat /\ Parse[t][i].id \in Nat
         /\ \A j \in DOMAIN Parse[t] : Parse[t][i].id = Parse[t][j].id => Parse[t][i] = Parse[t][j]

Node(d) == <<d.path, d.id>>
InFile(path, item) == [field \in {"path"} \cup DOMAIN item |-> IF field = "path" THEN path ELSE item[field]]
Documents(path, text) ==
  IF text = Nothing THEN <<>>
  ELSE [i \in DOMAIN Parse[text] |-> InFile(path, Parse[text][i])]
Syntax(docs) == {d \in docs : d.kind = "SYNTAX"}
Within(inner, outer) == outer[1] <= inner[1] /\ inner[2] <= outer[2]
Only(set) == IF Cardinality(set) = 1 THEN set ELSE {}

-----------------------------------------------------------------------------
(* Arcs.  Every resolver answers with a set of at most one target. *)

Arc(source, target, kind, site, hash) ==
  [source |-> source, target |-> target, kind |-> kind, path |-> site.path,
   span |-> site.span, hash |-> hash]

(* The innermost declaration whose body holds the call. *)
Encloser(docs, call) ==
  LET around == {d \in Syntax(docs) : d.path = call.path /\ Within(call.span, d.body)}
      Size(d) == d.body[2] - d.body[1]
      Inner(d, e) ==
        \/ Size(d) < Size(e)
        \/ Size(d) = Size(e) /\ d.body[1] > e.body[1]
        \/ d.body = e.body /\ d.span[1] < e.span[1]
  IN  {d \in around : \A e \in around \ {d} : Inner(d, e)}

(* The one symbol at a place, if one symbol is there. *)
Exact(docs, path, span) == Only({d \in Syntax(docs) : d.path = path /\ d.span = span})

(* The symbol of that name at the place the extractor proved. *)
Proven(docs, call, name) ==
  Only({d \in Syntax(docs) : d.path = call.path /\ d.span = call.proof.target /\ d.name = name})

CallerIsProven(docs, call) == \E d \in Encloser(docs, call) : d.span = call.proof.caller
CallerIsExact(docs, call) ==
  Exact(docs, call.path, call.proof.caller) \cap Encloser(docs, call) # {}

(* The rules, one for each kind of proof.  A call that needs one is never  *)
(* resolved by its name, even when its proof is gone.                      *)
RustModuleCall(docs, call) ==
  {d \in Exact(docs, call.path, call.proof.target) :
     CallerIsProven(docs, call) /\ d.name = call.name}

(* A method of a parameter's type: parameter, binding and type nest within *)
(* the caller, before the call, in the text the proof was made from.       *)
RustParameterCall(docs, hashes, call) ==
  LET proof == call.proof IN
  {d \in Exact(docs, call.path, proof.target) :
     /\ proof.hash = hashes[call.path]
     /\ Exact(docs, call.path, proof.owner) # {}
     /\ d.name = call.name /\ Within(d.body, proof.implementation)
     /\ \E c \in Exact(docs, call.path, proof.caller) \cap Encloser(docs, call) :
          /\ Within(proof.parameter, c.body)
          /\ c.span[2] <= proof.parameter[1] /\ proof.parameter[2] < call.span[1]}

(* A method called through self: each end lies in its own impl block. *)
RustSelfCall(docs, call) ==
  LET proof == call.proof IN
  {d \in Exact(docs, call.path, proof.target) :
     /\ Exact(docs, call.path, proof.owner) # {}
     /\ d.name = call.name /\ Within(d.body, proof.implementation)
     /\ \E c \in Exact(docs, call.path, proof.caller) \cap Encloser(docs, call) :
          Within(c.body, proof.callerImplementation)}

SwiftDirectCall(docs, call) ==
  IF \E d \in Encloser(docs, call) : d.span = call.proof.caller /\ d.tag = "SWIFT_FREE_FUNCTION"
  THEN Proven({d \in docs : d.tag = "SWIFT_FREE_FUNCTION"}, call, call.name)
  ELSE {}

(* x := New(); x.M(): New is one function of the package, M one method of  *)
(* the type it returns.                                                    *)
GoLocalConstructorCall(docs, call) ==
  LET proof == call.proof
      Callables(name, kind) ==
        {d \in Syntax(docs) : d.name = name /\ d.package = proof.package /\ d.type.kind = kind}
      made == {d.type.of : d \in Only(Callables(proof.constructor, "Function"))}
  IN  IF ~\E d \in Encloser(docs, call) : d.span = proof.caller /\ d.package = proof.package THEN {}
      ELSE Only({d \in Callables(call.name, "Method") : d.type.of \in made})

(* A method of a field of the receiver; a proof through an element of a    *)
(* collection also needs the text it was made from and the two types.      *)
GoFieldCall(docs, hashes, call) ==
  LET proof == call.proof
      At(span) == {d \in Exact(docs, call.path, span) : d.package = proof.package}
  IN  {d \in At(proof.target) :
         /\ d.name = call.name
         /\ \E c \in At(proof.caller) \cap Encloser(docs, call), o \in At(proof.owner),
               f \in At(proof.fieldType) :
              /\ Within(proof.field, o.body)
              /\ proof.indexed => /\ proof.hash = hashes[call.path]
                                  /\ c.type = [kind |-> "Method", of |-> o.name]
                                  /\ d.type = [kind |-> "Method", of |-> f.name]}

JavaConstructorCall(docs, call) ==
  {d \in Exact(docs, call.path, call.proof.target) :
     CallerIsExact(docs, call) /\ d.name = call.name}

TsLexicalCall(docs, call) ==
  IF CallerIsProven(docs, call)
  THEN Proven({d \in docs : d.tag = "TS_LEXICAL_ARROW"}, call, call.name) ELSE {}

TsConstructorCall(docs, call) ==
  IF CallerIsProven(docs, call) THEN Proven(docs, call, call.name) ELSE {}

(* The proof of a call through the receiver names no caller. *)
GoSelfCall(docs, call) == Proven(docs, call, call.proof.symbol)

(* A Rust path that the Cargo roots and the module tree resolve. *)
RustPathCall(docs, hashes, call) ==
  IF hashes[call.from] = Nothing THEN {} ELSE Exact(docs, call.from, call.proof.target)

(* pkg.F in Go: the only function F of the directory the import names. *)
GoImportCall(docs, call) ==
  Only({d \in Syntax(docs) : d.name = call.name /\ d.path \in call.qualifier
                             /\ d.type.kind = "Function" /\ d.package # Nothing})

(* A name without proof: the only one of its file; or else the only one of *)
(* the files its qualifier (in Go, its package) allows; or else, when its  *)
(* file has none, the only one there is.                                   *)
ByName(docs, call) ==
  LET named == {d \in Syntax(docs) : d.name = call.name /\ d.tag # "TS_LEXICAL_ARROW"}
      here == {d \in named : d.path = call.path}
  IN  IF Cardinality(here) = 1 THEN here
      ELSE IF call.qualifier # Nothing THEN Only({d \in named : d.path \in call.qualifier})
      ELSE IF here = {} THEN Only(named) ELSE {}

(* The target is an export of another file whose facts are current, and    *)
(* the caller, of a call, the one those facts name.                        *)
ByExport(docs, hashes, use) ==
  LET exports == {d \in ToSet(Documents(use.from, hashes[use.from])) :
                    d.kind = "SYNTAX" /\ d.name = use.target}
  IN  {d \in Only(exports) :
         Exact(docs, d.path, d.span) # {} /\ (use.kind = "CALLS" => CallerIsProven(docs, use))}

Resolve(docs, hashes, use) ==
  CASE use.bind = "RUST_MODULE_CALL" -> RustModuleCall(docs, use)
    [] use.bind = "RUST_PARAMETER_CALL" -> RustParameterCall(docs, hashes, use)
    [] use.bind = "RUST_SELF_CALL" -> RustSelfCall(docs, use)
    [] use.bind = "SWIFT_DIRECT_CALL" -> SwiftDirectCall(docs, use)
    [] use.bind = "GO_LOCAL_CONSTRUCTOR_CALL" -> GoLocalConstructorCall(docs, use)
    [] use.bind = "GO_FIELD_CALL" -> GoFieldCall(docs, hashes, use)
    [] use.bind = "JAVA_CONSTRUCTOR_CALL" -> JavaConstructorCall(docs, use)
    [] use.bind = "TS_LEXICAL_CALL" -> TsLexicalCall(docs, use)
    [] use.bind = "TS_CONSTRUCTOR_CALL" -> TsConstructorCall(docs, use)
    [] use.bind = "GO_SELF_CALL" -> GoSelfCall(docs, use)
    [] use.bind = "rust path" -> RustPathCall(docs, hashes, use)
    [] use.bind = "go import" -> GoImportCall(docs, use)
    [] use.bind = "export" -> ByExport(docs, hashes, use)
    [] use.bind = "name" -> ByName(docs, use)
    [] OTHER -> {}

CallArcs(docs, hashes) ==
  UNION {{Arc(Node(d), Node(t), "CALLS", c, hashes[c.path]) :
             d \in Encloser(docs, c), t \in Resolve(docs, hashes, c)} :
           c \in {c \in docs : c.kind = "CALLS"}}

(* An import whose binding the extractor named is proved like a call (in   *)
(* Python and TypeScript); any other is of every symbol of its name, and   *)
(* its source is no live node.                                             *)
ImportArcs(docs, hashes) ==
  LET Imported(i) == IF i.named THEN ByExport(docs, hashes, i)
                     ELSE {d \in Syntax(docs) : d.name = i.name} IN
  UNION {{Arc(Node(i), Node(t), "IMPORTS", i, hashes[i.path]) : t \in Imported(i)} :
           i \in {i \in docs : i.kind = "IMPORTS"}}

(* Every symbol of the name is referenced.  The source is the reference    *)
(* itself, which is no symbol: no query meets these arcs.                  *)
ReferenceArcs(docs, hashes) ==
  UNION {{Arc(Node(r), Node(d), "REFERENCES", r, hashes[r.path]) :
             d \in {d \in Syntax(docs) : d.name = r.name}} :
           r \in {r \in docs : r.kind = "REFERENCES" /\ r.bind # "export"}}

(* TypeScript proves the declaration a reference names: its caller refers  *)
(* to the export.                                                          *)
DeclarationArcs(docs, hashes) ==
  UNION {{Arc(Node(c), Node(t), "REFERENCES", r, hashes[r.path]) :
             c \in {c \in Exact(docs, r.path, r.proof.caller) : Within(r.span, c.body)},
             t \in ByExport(docs, hashes, r)} :
           r \in {r \in docs : r.kind = "REFERENCES" /\ r.bind = "export"}}

(* Every strict ancestor contains a declaration: the bodies nest, and the  *)
(* parent is alone with its extent.  Extents that cross prove nothing.     *)
ContainmentArcs(docs, hashes) ==
  LET Crosses(d, e) == d.path = e.path /\ d.body[1] < e.body[1]
                       /\ e.body[1] < d.body[2] /\ d.body[2] < e.body[2]
      sound == {d \in Syntax(docs) : d.span[2] <= d.body[2] /\
                  \A e \in Syntax(docs) : ~Crosses(d, e) /\ ~Crosses(e, d)}
      alone == {d \in sound : \A e \in Syntax(docs) \ {d} : e.path # d.path \/ e.body # d.body}
      Around(d, e) == d # e /\ d.path = e.path /\ Within(e.body, d.body) /\ Within(e.span, d.body)
  IN  UNION {{Arc(Node(d), Node(e), "CONTAINS", e, hashes[e.path]) : e \in {e \in sound : Around(d, e)}} :
               d \in alone}

RebuildArcs(docs, hashes) ==
  CallArcs(docs, hashes) \cup ReferenceArcs(docs, hashes) \cup ImportArcs(docs, hashes)
  \cup DeclarationArcs(docs, hashes) \cup ContainmentArcs(docs, hashes)
=============================================================================
