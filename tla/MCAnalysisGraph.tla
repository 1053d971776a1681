-------------------------- MODULE MCAnalysisGraph --------------------------
(* Orders and reviews with shared dates and customers, as in the catalog of
   the shop; one question with many contexts, and plans of three tasks. *)
EXTENDS AnalysisGraph

CONSTANTS order, review, date, customer, retired, t1, t2, t3

MCTables == {order, review, date, customer}
MCTableOf ==
  [c \in {"order.purchase", "order.approved", "order.customer", "order.count", "order.status"} |-> order]
  @@ [c \in {"review.created", "review.answered", "review.customer", "review.score"} |-> review]
  @@ [c \in {"date.key", "date.month"} |-> date]
  @@ [c \in {"customer.key", "customer.state"} |-> customer]
  @@ ("retired.state" :> retired) @@ ("order.old" :> order)
MCColumns == DOMAIN MCTableOf \ {"retired.state", "order.old"}
MCColumnName == [c \in DOMAIN MCTableOf |->
  IF c = "order.count" THEN "orders" ELSE IF c = "review.score" THEN "score" ELSE c]
MCMetricOrder == <<"orders", "score", "share">>
MCBase == [m \in {"orders", "score", "share"} |-> IF m = "score" THEN review ELSE order]
MCUses == [m \in {"orders", "score", "share"} |->
  IF m = "score" THEN {"review.score"} ELSE {"order.count"}]
Link(c, t, d) == [from |-> MCTableOf[c], fromCol |-> c, to |-> t, toCol |-> d]
MCRelationshipOrder ==
  <<Link("order.approved", date, "date.key"), Link("order.purchase", date, "date.key"),
    Link("order.customer", customer, "customer.key"),
    Link("review.answered", date, "date.key"), Link("review.created", date, "date.key"),
    Link("review.customer", customer, "customer.key")>>
MCDefaultDates == {"order.purchase", "review.created"}
MCDimensionColumns == {"date.month", "customer.state"}
MCDimensionRole == {"customer.state", "order.status"}
MCDenotes == [n \in {"order", "review", "date", "customer", "ord"} |->
  CASE n \in {"order", "ord"} -> {order} [] n = "review" -> {review}
    [] n = "date" -> {date} [] n = "customer" -> {customer}]

Choice(n, cols) == [name |-> n, columns |-> cols]
Column(n, role, c, m, form) == [name |-> n, role |-> role, column |-> c, metric |-> m, form |-> form]
Value(c, exact) == [column |-> c, exact |-> exact]
Task(t, needs) == [id |-> t, needs |-> needs]

Plain == [keys |-> {"orders"}, columns |-> <<>>]
Grouped == [keys |-> {"orders", "order.status"}, columns |-> <<>>]
Answers ==
  {[keys |-> {"orders", "customer.state"}, columns |-> <<>>],
   [keys |-> {"orders", "share"},
    columns |-> <<Column("orders", "derived_metric", NoColumn, "orders", "bad filters"),
                  Column("share", "metric", NoColumn, NoMetric, "valid")>>],
   [keys |-> {"share", "date.month"},
    columns |-> <<Column("share", "metric", NoColumn, "share", "valid"),
                  Column("date.month", "dimension", "date.month", NoMetric, "bad"),
                  Column("", "metric", NoColumn, "share", "nameless")>>]}

OneTask == {<<Task(t1, <<>>)>>}
Question(asked) ==
  [plans |-> OneTask,
   tables |-> {{}, {order, date}, {review, customer}, {retired}},
   columns |-> {{}, {"date.month"}, {"order.approved", "customer.state"}, {"order.old"}},
   metrics |-> {{"orders", "share"}, {"orders", "score"}},
   values |-> {{}, {Value("customer.state", TRUE)},
               {Value("review.score", TRUE), Value("date.month", FALSE)}, {Value("retired.state", TRUE)}},
   chosenMetrics |-> {{}, {"share"}, {"score", "orders"}},
   chosenTables |-> {<<>>, <<Choice("order", {"order.approved"}), Choice("date", {"date.month"})>>,
                     <<Choice("order", {"order.purchase"}), Choice("ord", {"order.count"})>>,
                     <<Choice("review", {"review.answered"}), Choice("customer", {})>>},
   asked |-> asked, answers |-> Answers, rows |-> {0, 1}, unmapped |-> {FALSE}]

Project ==
  [plans |-> {<<Task(t1, <<>>), Task(t2, <<>>), Task(t3, <<t1, t2>>)>>,
              <<Task(t1, <<>>), Task(t2, <<t1>>), Task(t3, <<t1>>)>>,
              <<Task(t1, <<>>), Task(t2, <<t1>>), Task(t3, <<t2>>)>>,
              <<Task(t1, <<t2>>), Task(t2, <<>>)>>, <<Task(t1, <<>>), Task(t1, <<>>)>>,
              <<Task(t1, <<>>), Task(t2, <<t1, t1>>)>>, <<>>},
   tables |-> {{order}}, columns |-> {{}}, metrics |-> {{"orders"}}, values |-> {{}},
   chosenMetrics |-> {{"orders"}}, chosenTables |-> {<<Choice("order", {"order.status"})>>},
   asked |-> {}, answers |-> {Plain, Grouped}, rows |-> {2, 3}, unmapped |-> {FALSE, TRUE}]

MCInputs == {Question({}), Question({"order.approved"}), Project}
=============================================================================
