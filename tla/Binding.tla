-------------------------------- MODULE Binding --------------------------------
(***************************************************************************)
(* What a comment is bound to in its file's parse tree, and what the tree  *)
(* says of it: the symbols that are defined and the signature of a         *)
(* function.                                                               *)
(*                                                                         *)
(* A tree is the sequence of its named nodes in pre-order, [kind, parent,  *)
(* start, end, line, endLine, name, role]: bytes and lines, the name it    *)
(* declares or is (or None), and the field of the parent it fills.  The    *)
(* root has parent 0.  A comment is [kind, start, end, line, endLine,      *)
(* ownLine].                                                               *)
(***************************************************************************)
EXTENDS Naturals, Sequences, SequencesExt, FiniteSetsExt

CONSTANTS None

Children(t, n) == {c \in 1..Len(t) : t[c].parent = n}

FirstIn(S) == CHOOSE n \in S : \A m \in S : n <= m

\* The node and those above it; a recursive function over the pre-order.
PathTo(t, n) ==
  LET Above[k \in 0..Len(t)] == IF k = 0 THEN {} ELSE {k} \cup Above[t[k].parent]
  IN  Above[n]

\* The deepest node over a range, or 0.
Descendant(t, start, end) ==
  Max({n \in 1..Len(t) : t[n].start <= start /\ end <= t[n].end} \cup {0})

\* A child that fills a field, or 0.
Field(t, n, role) ==
  LET hits == {c \in Children(t, n) : t[c].role = role}
  IN  IF hits = {} THEN 0 ELSE FirstIn(hits)

-----------------------------------------------------------------------------
(* Names                                                                    *)

DefinitionKinds ==
  {"function_definition", "class_definition", "function_declaration",
   "generator_function_declaration", "class_declaration", "abstract_class_declaration",
   "method_definition", "interface_declaration", "type_alias_declaration", "enum_declaration"}

\* The name a node declares: `const f = ...` that of its first declarator.
DefinitionName(t, n) ==
  LET declarators == {c \in Children(t, n) : t[c].kind = "variable_declarator"}
  IN  CASE t[n].kind \in DefinitionKinds -> t[n].name
        [] t[n].kind \in {"lexical_declaration", "variable_declaration"} /\ declarators # {} ->
             t[FirstIn(declarators)].name
        [] OTHER -> None

\* The names of the definitions around a node, the outermost first; <<>> is the
\* module.
QualifiedName(t, n) ==
  LET named == SetToSortSeq({k \in PathTo(t, n) : DefinitionName(t, k) # None}, <)
  IN  [i \in 1..Len(named) |-> DefinitionName(t, named[i])]

\* The module, function or class around a node, itself included.
NearestScope(t, n) ==
  Max({k \in PathTo(t, n) : t[k].kind \in {"module", "function_definition", "class_definition"}}
      \cup {1})

UnwrapExport(t, n) ==
  LET inner == {c \in Children(t, n) : t[c].kind # "comment"}
  IN  IF t[n].kind # "export_statement" THEN n
      ELSE IF Field(t, n, "declaration") # 0 THEN Field(t, n, "declaration")
      ELSE IF inner # {} THEN FirstIn(inner) ELSE n

-----------------------------------------------------------------------------
(* The three rules                                                          *)

BindsDown(c, line) == line = c.endLine + 1

\* The next statement after a comment, in what contains it.
NextCodeSibling(t, container, after) ==
  LET hits == {n \in Children(t, container) : t[n].kind # "comment" /\ t[n].start >= after}
  IN  IF hits = {} THEN 0 ELSE FirstIn(hits)

SameLineBefore(t, container, c) ==
  Max({n \in Children(t, container) :
         t[n].kind # "comment" /\ t[n].line = c.line /\ t[n].start < c.start} \cup {0})

BlockKinds == {"module", "block", "statement_block"}

\* The statement a trailing comment stands behind, or inside.
TrailingTarget(t, container, c) ==
  IF SameLineBefore(t, container, c) # 0 THEN SameLineBefore(t, container, c)
  ELSE IF /\ t[container].kind \notin BlockKinds
          /\ t[container].line = c.line
          /\ t[container].start < c.start
       THEN container ELSE 0

\* The node a comment is bound to (or 0), and the node that names its symbol.
ResolveBinding(t, node, container, c, python) ==
  LET owner == NearestScope(t, node)
      sibling == NextCodeSibling(t, container, c.end)
      target == UnwrapExport(t, sibling)
  IN  CASE c.kind = "docstring" /\ python -> <<owner, owner>>
        [] ~(c.kind = "docstring" /\ python) /\ ~c.ownLine -> <<TrailingTarget(t, container, c), node>>
        [] OTHER -> IF sibling # 0 /\ BindsDown(c, t[sibling].line) THEN <<target, target>>
                    ELSE <<0, node>>

\* map_one: the symbol, and the bound node or None.
MapOne(t, c, python) ==
  LET node == Descendant(t, c.start, c.end)
      container == IF t[node].kind = "comment" /\ t[node].parent # 0 THEN t[node].parent ELSE node
      bound == ResolveBinding(t, node, container, c, python)
  IN  IF node = 0 THEN [symbol |-> <<>>, code |-> None]
      ELSE [symbol |-> QualifiedName(t, bound[2]),
            code |-> IF bound[1] = 0 THEN None ELSE bound[1]]

-----------------------------------------------------------------------------
(* The symbols of a repository                                              *)

Leaf(name) == <<Last(name)>>

\* Of what comments are bound to, and of all definitions: the qualified name and
\* its last part.
SymbolIndex(symbols, trees) ==
  LET bound == {s \in symbols : s # <<>>}
      defined == UNION {{QualifiedName(t, n) : n \in {k \in 1..Len(t) : DefinitionName(t, k) # None}} :
                          t \in trees}
  IN  UNION {{name, Leaf(name)} : name \in bound \cup defined}

\* Bug: a dotted name must be defined as it stands.
ResolveExact(index, name) == name \in index

\* A dotted name also resolves by its last part.
Resolve(index, name) == name \in index \/ Leaf(name) \in index

-----------------------------------------------------------------------------
(* Signatures                                                               *)

FunctionKinds ==
  {"function_definition", "function_declaration", "generator_function_declaration",
   "generator_function", "method_definition", "arrow_function", "function_expression", "function"}

\* The bound node when it is a function; nothing for a class or a module; else
\* the first function in it.
ResolveFunction(t, n) ==
  LET inside == {k \in 1..Len(t) : n \in PathTo(t, k) \ {k} /\ t[k].kind \in FunctionKinds}
  IN  IF t[n].kind \in FunctionKinds THEN n
      ELSE IF \/ t[n].kind \in {"class_definition", "class_declaration", "module", "program",
                                "abstract_class_declaration"}
              \/ inside = {}
           THEN 0 ELSE FirstIn(inside)

\* The name of a parameter, or None: a pattern has none, nor has a default or a rest
\* parameter in JavaScript, nor a splat with a type.
ParamName(t, p) ==
  LET kind == t[p].kind
      plain == {c \in Children(t, p) : t[c].kind = "identifier"}
      Named(nodes) == IF nodes \ {0} = {} THEN None ELSE t[FirstIn(nodes)].name
  IN  CASE kind \in {"identifier", "shorthand_property_identifier_pattern"} -> t[p].name
        [] kind \in {"typed_parameter", "list_splat_pattern", "dictionary_splat_pattern"} -> Named(plain)
        [] kind \in {"default_parameter", "typed_default_parameter"} -> Named({Field(t, p, "name")})
        [] kind \in {"required_parameter", "optional_parameter"} ->
             Named({Field(t, p, "pattern")} \cap plain)
        [] OTHER -> None

\* The names of the parameters, but for a method's own object.
Parameters(t, f, python) ==
  LET list == Field(t, f, "parameters")
  IN  IF list = 0 THEN {}
      ELSE {ParamName(t, p) : p \in Children(t, list)}
             \ ({None} \cup IF python THEN {"self", "cls"} ELSE {})

\* The nodes of a body, but for those of functions in it.
BodyNodes(t, f) ==
  LET body == Field(t, f, "body")
  IN  {k \in 1..Len(t) : /\ body # 0
                         /\ body \in PathTo(t, k) \ {k}
                         /\ \A j \in PathTo(t, k) \ PathTo(t, body) : t[j].kind \notin FunctionKinds}

\* Bug: only the statements of the body itself are looked at.
ReturnsAtTop(t, f) ==
  \/ Field(t, f, "return_type") # 0
  \/ \E k \in BodyNodes(t, f) : t[k].parent = Field(t, f, "body") /\ t[k].kind = "return_statement"
                                  /\ Children(t, k) # {}

\* An annotation, an arrow's expression, a return of a value, or a yield.
HasReturn(t, f) ==
  LET body == Field(t, f, "body")
  IN  \/ Field(t, f, "return_type") # 0
      \/ body # 0 /\ t[f].kind = "arrow_function" /\ t[body].kind # "statement_block"
      \/ \E k \in BodyNodes(t, f) : \/ t[k].kind = "return_statement" /\ Children(t, k) # {}
                                    \/ t[k].kind \in {"yield", "yield_expression"}

\* The type of what is raised: through calls and constructors to a name.
TypeNameOf(t, e) ==
  LET Of[k \in 1..Len(t)] ==
        CASE t[k].kind \in {"identifier", "type_identifier", "attribute", "member_expression"} ->
               t[k].name
          [] t[k].kind \in {"call", "call_expression"} /\ Field(t, k, "function") # 0 ->
               Of[Field(t, k, "function")]
          [] t[k].kind = "new_expression" /\ Field(t, k, "constructor") # 0 ->
               Of[Field(t, k, "constructor")]
          [] OTHER -> None
  IN  Of[e]

\* A raise without an expression raises nothing that has a name.
Raises(t, f) ==
  {TypeNameOf(t, FirstIn(Children(t, k))) :
     k \in {j \in BodyNodes(t, f) : /\ t[j].kind \in {"raise_statement", "throw_statement"}
                                    /\ Children(t, j) # {}}} \ {None}

\* The signature at a bound node, or None.
ExtractSignature(t, n, python) ==
  LET f == ResolveFunction(t, Descendant(t, t[n].start, t[n].end))
  IN  IF f = 0 THEN None
      ELSE [params |-> Parameters(t, f, python), returns |-> HasReturn(t, f), raises |-> Raises(t, f)]
=============================================================================
